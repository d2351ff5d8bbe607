\* A player with two goods around one container of each kind, which others may
\* break and place; a second player who joins at a chest.
SPECIFICATION Spec
CONSTANTS
    c1 = c1
    c2 = c2
    p1 = p1
    Conn = {c1, c2}
    Pos = {p1}
    Kinds = {"chest", "furnace", "table", "ender"}
    Raw = Raw
    Made = Made
    NoItem = NoItem
    NoBox = NoBox
    Main <- OneCell
    MaxStack = 2
    Stock <- TwoRaw
    Loose = 1
    Ids = 1
    MaxGoods = 3
    MaxClicks = 1
    MaxSyncs = 1
INVARIANTS
    TypeOK
    RestingClientAgrees
    KeptDurable
PROPERTIES
    OnlyStaleClicksMakeOrLose
CONSTRAINT
    Bounds
ACTION_CONSTRAINT
    JoinsFirst
