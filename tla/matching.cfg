\* limit, market and stop-limit orders of two sizes, pulls and replaces in a
\* book of three levels that grows to five; three ids, so two that rest and one
\* that trades with both
CONSTANTS
    MaxLevel = 5
    InitBeg = 2
    InitEnd = 5
    Sizes = {1, 2}
    StopLimits = {2}
    MaxId = 3
    Calls = {"limit", "market", "pull", "stop_limit", "replace", "grow"}
SPECIFICATION Spec
CHECK_DEADLOCK FALSE
INVARIANTS
    Uncrossed
    SideFromLevel
    LimitWindows
    NothingLeftToTrade
    IInv
    AssertInternalPointers
PROPERTIES
    WindowConservesSize
    ImplementsPriceTimeBook
