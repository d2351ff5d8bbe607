\* Two chunks, one worker, up to two writes waiting, saves that may be refused or cut short.
SPECIFICATION Spec
CONSTANTS
    c0 = c0
    c1 = c1
    Air = Air
    Stone = Stone
    Legacy = Legacy
    Chunks = {c0, c1}
    Origin = c0
    Locals = {b0}
    States = {Air, Stone, Legacy}
    Norm <- MCNorm
    Terrain <- MCTerrain
    Workers = {w1}
    Priorities = {0, 1}
    MaxPending = 2
    EvictBudget = 1
    WriteOutcomes = {"ok", "refused", "torn"}
    Unreadable = {}
    Undecodable = {}
    InitialFiles <- MCFiles
    NoFile = NoFile
    Torn = Torn
    NoChunk = NoChunk
    NoUpdate = NoUpdate
INVARIANTS
    TypeOK
    OneLoader
    ListMatchesMap
    NoLostWrite
    CleanIsSaved
    TornFileHasCopy
    UpdatesAreCurrent
PROPERTIES
    ImplementsBlockStore
