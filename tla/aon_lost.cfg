\* limit orders and all-or-none orders on the same side
CONSTANTS
    MaxLevel = 3
    InitBeg = 1
    InitEnd = 4
    Sizes = {1, 2}
    StopLimits = {}
    MaxId = 3
    Calls = {}
    LimitSides = {"buy", "sell"}
    MarketSides = {}
    AonSides = {"buy"}
    FokSides = {}
    FokConds = {}
SPECIFICATION AonSpec
CHECK_DEADLOCK FALSE
PROPERTIES
    LimitOrdersAreKept
