\* The file of the second chunk inflates but cannot be decoded.
SPECIFICATION Spec
CONSTANTS
    c0 = c0
    c1 = c1
    Air = Air
    Stone = Stone
    Legacy = Legacy
    Chunks = {c0, c1}
    Origin = c0
    Locals = {b0}
    States = {Air, Stone, Legacy}
    Norm <- MCNorm
    Terrain <- MCTerrain
    Workers = {w1}
    Priorities = {0, 1}
    MaxPending = 1
    EvictBudget = 1
    WriteOutcomes = {"ok", "refused", "torn"}
    Unreadable = {}
    Undecodable = {c1}
    InitialFiles <- MCFiles
    NoFile = NoFile
    Torn = Torn
    NoChunk = NoChunk
    NoUpdate = NoUpdate
INVARIANTS
    ReadyHoldsAccepted
