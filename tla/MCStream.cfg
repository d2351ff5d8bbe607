\* One client that moves between two positions with different chunks in view.
SPECIFICATION Spec
CONSTANTS
    k1 = k1
    k2 = k2
    here = here
    there = there
    b1 = b1
    b2 = b2
    Air = Air
    Stone = Stone
    Clients = {c1}
    Centers = {here, there}
    Chunks = {k1, k2}
    Locals = {b1}
    States = {Air, Stone}
    FurnaceLocals = {}
    Rings <- MCRings
    Keeps <- MCKeeps
    InitialStore <- AllAir
    SnapshotFails = TRUE
    ChunksPerTick = 1
    ScanLimit = 2
    NotReady = NotReady
    NoUpdate = NoUpdate
    NoClient = NoClient
    NoCenter = NoCenter
INVARIANTS
    TypeOK
    CopyIsCurrent
    StreamCoversView
PROPERTIES
    AckSeesReady
