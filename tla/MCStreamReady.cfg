\* Two clients and a furnace that lights in the turn of one of them.
SPECIFICATION Spec
CONSTANTS
    k1 = k1
    k2 = k2
    here = here
    there = there
    b1 = b1
    b2 = b2
    Air = Air
    Stone = Stone
    Clients = {c1, c2}
    Centers = {there}
    Chunks = {k2}
    Locals = {b1}
    States = {Air, Stone}
    FurnaceLocals = {b1}
    Rings <- MCRings
    Keeps <- MCKeeps
    InitialStore <- AllAir
    SnapshotFails = FALSE
    ChunksPerTick = 1
    ScanLimit = 2
    NotReady = NotReady
    NoUpdate = NoUpdate
    NoClient = NoClient
    NoCenter = NoCenter
PROPERTIES
    ClearedIsSeen
