\* Two players and one who comes, an item and a death; one of them leaves.
SPECIFICATION Spec
CONSTANTS
    c1 = c1
    c2 = c2
    c3 = c3
    Conn = {c1, c2, c3}
    Veterans = {c1, c2}
    MaxItems = 1
    Budget = 3
    MaxDeaths = 1
    Size = 2
    Leavers = {c2}
    SaveFails = TRUE
    NoConn = NoConn
    Nothing = Nothing
CONSTRAINT Quiet
INVARIANTS
    TypeOK
    IdsDiffer
    ItemsShown
    SeesLiving
    NoGhosts
