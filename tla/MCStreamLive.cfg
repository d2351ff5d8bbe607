\* One client, chunks that load, are sent and are evicted, and furnaces that light and go out.
SPECIFICATION FairSpec
CONSTANTS
    k1 = k1
    k2 = k2
    here = here
    there = there
    b1 = b1
    b2 = b2
    Air = Air
    Stone = Stone
    Clients = {c1}
    Centers = {here, there}
    Chunks = {k1, k2}
    Locals = {b1}
    States = {Air, Stone}
    FurnaceLocals = {b1}
    Rings <- MCRings
    Keeps <- MCKeeps
    InitialStore <- AllAir
    SnapshotFails = FALSE
    ChunksPerTick = 1
    ScanLimit = 1
    NotReady = NotReady
    NoUpdate = NoUpdate
    NoClient = NoClient
    NoCenter = NoCenter
PROPERTIES
    ViewFills
