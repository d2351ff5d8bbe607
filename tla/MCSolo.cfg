\* One instance of each part.
SPECIFICATION SoloSpec
CONSTANTS
    Spot = {1, 2}
    Kind = {"snow", "leaves", "torch", "bedrock"}
    Air = "air"
    Tool = {"hands", "shovel"}
    HardnessOf <- Hardness
    NeedsTool = {"snow"}
    SpeedOf <- Speeds
    Fits <- FitTable
    MaxAge = 8
    Slot = {1, 2}
    Food = {"bread", "apple"}
    Always = {"apple"}
    Other = {"stone"}
    NutritionOf <- Nutrition
    MaxFood = 3
    Duration = 3
    MaxStack = 2
    MaxHealth = 3
    MaxFoodLevel = 3
    StartSaturation = 1
    RegenFood = 3
    RegenTicks = 3
    PeacefulTicks = 1
    StarveTicks = 2
    Meal <- Meals
    MaxExhaustion = 3
    EasyFloor = 2
    NormalFloor = 1
    Parts = 2
    Height = {0, 2, 4, 5}
    Ground = {0, 2}
    Safe = 1
    MaxWire = 2
    Interval = 2
    Timeout = 2
    MaxClock = 6
    MaxQueue = 2
    Total = 2
    NoEntity = NoEntity
    VarIntBytes = 3
    MaxFrames = 2
    Packets <- SomePackets
    Junk <- SomeJunk
    Volume = 3
    WordBits = 4
    PaletteBits = 2
    DirectBits = 3
    BlockStates = {0, 1, 2, 3, 5, 6}
    AirStates = {0}
    Key = {"a", "b", "c", "d", "e", "f"}
    HashOf <- Hashes
    Gap = Gap
    Tomb = Tomb
    MinCap = 4
    MaxCap = 16
INVARIANTS
    SoloTypeOK
    ProtocolAgrees
    FallEarned
    StructuresHold
PROPERTIES
    DigEarned
    EatEarned
    HeartsEarned
    KeepaliveFair
    ContentsKept
CONSTRAINT
    NoExcess
\* Sessions end, sockets close and clocks stop at their bound.
CHECK_DEADLOCK
    FALSE
