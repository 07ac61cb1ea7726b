--------------------------- MODULE MCAdvancedBook ---------------------------
(***************************************************************************)
(* AdvancedBook for TLC: the orders that clients send in each run.         *)
(***************************************************************************)
EXTENDS AdvancedBook

Limit(s, p, n) == Basic(Param(s, p, 0, n))

\* a bracket, a trailing stop and a trailing bracket, two one-cancels-other
\* orders and a one-triggers-other order; limit orders to trade with them, and
\* a bracket whose stop is above its target, which has no ticket
AdvancedRunOrders ==
    {Limit("buy", 3, 1), Limit("sell", 3, 1), Limit("sell", 1, 2)}
    \cup {With(Param("buy", 2, 0, 2), BracketTicket("partial", "sell", 0, 1, 3)),
          With(Param("buy", 2, 0, 2), BracketTicket("partial", "sell", 0, 4, 3)),
          With(Param("sell", 0, 0, 1), TrailingStopTicket("partial", 1)),
          With(Param("buy", 2, 0, 2), TrailingBracketTicket("full", 1, 2)),
          With(Param("buy", 2, 0, 1), OcoTicket("partial", Param("buy", 0, 4, 1))),
          With(Param("buy", 1, 0, 1), OcoTicket("partial", Param("sell", 3, 0, 2))),
          With(Param("sell", 2, 0, 2), OtoTicket("full", Param("buy", 1, 0, 1)))}

\* a bracket whose stop trails by three ticks, when a stop is popped that cannot
\* be placed again and then the target fills in part
ExitLostRunOrders ==
    {Limit("buy", 3, 2), Limit("buy", 5, 1), Limit("sell", 2, 3), Limit("sell", 3, 1),
     With(Param("buy", 4, 0, 2), TrailingBracketTicket("full", 3, 1))}
=============================================================================
