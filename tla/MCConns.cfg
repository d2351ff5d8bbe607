\* One player over two connections, in sequence or at once.
SPECIFICATION Spec
CONSTANTS
    c1 = c1
    c2 = c2
    alice = alice
    Conn = {c1, c2}
    Players = {alice}
    Who <- SameWho
    Packets = {"join", "act", "bad", "garbled"}
    MaxFrames <- FewFrames
    Stalling = {}
    Hoarders = {c1}
    SnapshotFails = TRUE
INVARIANTS
    TypeOK
    RefsExact
    ListedIsOpen
    RejoinSeesSave
