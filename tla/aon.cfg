\* limit orders of both sides with all-or-none buys, market and fill-or-kill
\* sells; four ids, so two that rest, one between them and one that trades
CONSTANTS
    MaxLevel = 3
    InitBeg = 1
    InitEnd = 4
    Sizes = {1, 2}
    StopLimits = {}
    MaxId = 4
    Calls = {"pull"}
    LimitSides = {"buy", "sell"}
    MarketSides = {"sell"}
    AonSides = {"buy"}
    FokSides = {"sell"}
    FokConds = {"fok", "fok_partial"}
SPECIFICATION AonSpec
CHECK_DEADLOCK FALSE
INVARIANTS
    DepthAgrees
    TotalsAgree
    AllOrNone
    AonFillsWhole
    AonWindows
    NoFillableAon
    FokFills
