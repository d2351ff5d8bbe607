\* Two chunks, one with a file that cannot be read: loads, autosave and shutdown come to an end.
SPECIFICATION FairSpec
CONSTANTS
    c0 = c0
    c1 = c1
    Air = Air
    Stone = Stone
    Legacy = Legacy
    Chunks = {c0, c1}
    Origin = c0
    Locals = {b0}
    States = {Air, Stone}
    Norm <- MCNorm
    Terrain <- MCTerrain
    Workers = {w1}
    Priorities = {0}
    MaxPending = 1
    EvictBudget = 1
    WriteOutcomes = {"ok"}
    Unreadable = {c1}
    Undecodable = {}
    InitialFiles <- BadFile
    NoFile = NoFile
    Torn = Torn
    NoChunk = NoChunk
    NoUpdate = NoUpdate
PROPERTIES
    RequestIsServed
    DestroySaves
    DirtyIsSaved
