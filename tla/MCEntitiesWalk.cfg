\* Somebody who comes and goes while a player dies of hunger or in the void.
SPECIFICATION Spec
CONSTANTS
    c1 = c1
    c2 = c2
    c3 = c3
    Conn = {c1, c3}
    Veterans = {c1}
    MaxItems = 1
    Budget = 3
    MaxDeaths = 1
    Size = 2
    Leavers = {c3}
    SaveFails = FALSE
    NoConn = NoConn
    Nothing = Nothing
INVARIANTS
    WalkMeetsLive
