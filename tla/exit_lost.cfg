\* a trailing bracket in a book of five levels: seven ids, so its entry, two
\* exits, and four that trade with them
CONSTANTS
    MaxLevel = 5
    InitBeg = 1
    InitEnd = 6
    Sizes = {1, 2, 3}
    StopLimits = {}
    MaxId = 7
    Calls = {}
    AdvOrders <- ExitLostRunOrders
SPECIFICATION AdvSpec
CHECK_DEADLOCK FALSE
INVARIANTS
    ExitsAreFound
