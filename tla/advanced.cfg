\* every advanced order with limit and market orders against it; six ids, so an
\* entry, two that trade with it, its exits and one that trades with an exit
CONSTANTS
    MaxLevel = 4
    InitBeg = 1
    InitEnd = 5
    Sizes = {1, 2}
    StopLimits = {}
    MaxId = 6
    Calls = {"pull", "replace"}
    AdvOrders <- AdvancedRunOrders
SPECIFICATION AdvSpec
CHECK_DEADLOCK FALSE
INVARIANTS
    LinksAgree
    ExitsHaveOneSize
    TrailingStopsFollow
PROPERTIES
    AdvWindowCloses
