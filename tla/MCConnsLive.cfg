\* One connection that logs in and may stall, one that does not: closing ends, and so does the server.
SPECIFICATION FairSpec
CONSTANTS
    c1 = c1
    c2 = c2
    alice = alice
    Conn = {c1, c2}
    Players = {alice}
    Who <- SameWho
    Packets = {"join", "act", "bad", "garbled"}
    MaxFrames <- LoginOnly
    Stalling = {c1}
    Hoarders = {}
    SnapshotFails = FALSE
PROPERTIES
    GoneIsFreed
    StopEnds
