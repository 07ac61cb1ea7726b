\* stop orders that trigger stop orders and trade with what rests; five ids,
\* three levels
CONSTANTS
    MaxLevel = 3
    InitBeg = 1
    InitEnd = 4
    Sizes = {1}
    StopLimits = {2}
    MaxId = 5
    Calls = {"limit", "stop"}
SPECIFICATION Spec
CHECK_DEADLOCK FALSE
INVARIANTS
    StopWindows
    CacheAgrees
    TimePriority
    WindowIsClean
PROPERTIES
    AllReachedStopsTrigger
    WindowCloses
