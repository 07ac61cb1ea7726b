---------------------------- MODULE BookQueries ----------------------------
(***************************************************************************)
(* The queries (src/orderbook/query.cpp, get_order_info): they take        *)
(* _master_mtx, so they see the book between two windows, and walk a range *)
(* of levels made from the windows of the chains (struct range and struct  *)
(* depth of specials.tpp).  A side here may also be "both".  What they     *)
(* tell is compared with the orders that rest, each with the side and kind *)
(* it was sent with.                                                       *)
(***************************************************************************)
EXTENDS AonBook

\* The predicates of size_if, as the values of a bundle's aon they take.
NotAon == {FALSE}
IsAonBndl == {TRUE}
AnyBndl == BOOLEAN

\* chain<>::size_if
SizeIf(chain, keep) ==
    FoldLeft(LAMBDA n, b : IF b.aon \in keep THEN n + b.sz ELSE n, 0, chain)

-----------------------------------------------------------------------------
(* Ranges of levels, as pairs <<low, high>>. *)

LimitRange(s) ==
    CASE s = "buy" -> <<worst["buy"], best["buy"]>>
      [] s = "sell" -> <<best["sell"], worst["sell"]>>
      [] s = "both" -> <<Min({worst["buy"], best["sell"]}),
                         Max({worst["sell"], best["buy"]})>>

AonRange(s) ==
    LET buy == aon_win["buy"]
        sell == aon_win["sell"]
    IN  CASE s = "buy" -> <<buy.far, buy.near>>
          [] s = "sell" -> <<sell.near, sell.far>>
          [] s = "both" -> <<Min({buy.far, sell.near}), Max({sell.far, buy.near})>>

\* range<>::get with two chain types
BothRanges(s) ==
    <<Min({LimitRange(s)[1], AonRange(s)[1]}),
      Max({LimitRange(s)[2], AonRange(s)[2]})>>

\* Mutant: the range on the bid side is one level short.
DepthRangeShort(s, n) ==
    LET low == Max({best["buy"] - n + 2, LimitRange(s)[1]})
        high == Min({best["sell"] + n - 1, LimitRange(s)[2]})
    IN  IF s = "buy" THEN <<low, best["buy"]>>
        ELSE IF s = "sell" THEN <<best["sell"], high>> ELSE <<low, high>>

\* range<>::get with a depth: n levels from the best price of a side
DepthRange(s, n) ==
    LET low == Max({best["buy"] - n + 1, LimitRange(s)[1]})
        high == Min({best["sell"] + n - 1, LimitRange(s)[2]})
    IN  IF s = "buy" THEN <<low, best["buy"]>>
        ELSE IF s = "sell" THEN <<best["sell"], high>> ELSE <<low, high>>

-----------------------------------------------------------------------------
(* Prices, sizes and depths. *)

\* the first level from best with an order that is not AON, or 0
BestPrice(s) ==
    LET found == {l \in Book : InLimitWindow(s, l) /\ SizeIf(limits[l], NotAon) > 0}
    IN  IF found = {} THEN 0
        ELSE CHOOSE l \in found : \A m \in found : Geq(s, l, m)

\* bid_size and ask_size
BestSize(s) == IF BestPrice(s) = 0 THEN 0 ELSE SizeIf(limits[BestPrice(s)], NotAon)

\* _limit_depth: level -> size and side of the market
LimitDepth(s, n) ==
    LET r == DepthRange(s, n)
    IN  [l \in {l \in r[1] .. r[2] : limits[l] # <<>>} |->
            [sz |-> SizeIf(limits[l], NotAon),
             side |-> IF s # "both" THEN s
                      ELSE IF l >= best["sell"] THEN "sell" ELSE "buy"]]

AonChainSize(s, l) ==
    CASE s = "both" -> SizeIf(aons["buy"][l], AnyBndl) + SizeIf(aons["sell"][l], AnyBndl)
      [] OTHER -> SizeIf(aons[s][l], AnyBndl)

\* aon_market_depth: level -> sizes of AON buys and AON sells
AonMarketDepth ==
    LET r == BothRanges("both")
        inLimits(l) == SizeIf(limits[l], IsAonBndl)
        bid(l) == l <= best["buy"]
        ask(l) == ~ bid(l) /\ l >= best["sell"]
        sizes(l) ==
            [buy |-> AonChainSize("buy", l) + (IF bid(l) THEN inLimits(l) ELSE 0),
             sell |-> AonChainSize("sell", l) + (IF ask(l) THEN inLimits(l) ELSE 0)]
    IN  [l \in {l \in r[1] .. r[2] : sizes(l).buy + sizes(l).sell > 0} |-> sizes(l)]

\* Mutant: the chains of AON orders are not looked at.
TotalOnLimitChains(s, aon) ==
    LET r == LimitRange(s)
    IN  MapThenSumSet(LAMBDA l : SizeIf(limits[l], {aon}),
                      r[1] .. r[2])

\* _total_depth of limit orders (aon FALSE) or of AON orders
TotalDepth(s, aon) ==
    LET r == LimitRange(s)
        a == AonRange(s)
    IN  MapThenSumSet(LAMBDA l : SizeIf(limits[l], {aon}),
                      r[1] .. r[2])
        + (IF aon THEN MapThenSumSet(LAMBDA l : AonChainSize(s, l), a[1] .. a[2])
           ELSE 0)

\* get_order_info: _is_buy_order tells the side of a limit order
OrderInfo(id) ==
    LET e == id_cache[id]
        chain == CASE e.type = "limit" -> limits[e.p]
                   [] e.type = "aon_buy" -> aons["buy"][e.p]
                   [] e.type = "aon_sell" -> aons["sell"][e.p]
        b == CHOOSE b \in {chain[i] : i \in 1 .. Len(chain)} : b.id = id
    IN  [side |-> CASE e.type = "limit" -> IF e.p < best["sell"] THEN "buy" ELSE "sell"
                    [] e.type = "aon_buy" -> "buy"
                    [] e.type = "aon_sell" -> "sell",
         price |-> e.p, sz |-> b.sz, aon |-> b.aon]

-----------------------------------------------------------------------------
(* The orders that rest, told by what their clients sent. *)

RestingAt(s, aon, l) ==
    LET chains == {limits[l], aons["buy"][l], aons["sell"][l]}
    IN  {b \in UNION {{c[i] : i \in 1 .. Len(c)} : c \in chains} :
            b.aon = aon /\ (s = "both" \/ b.side = s)}
SizeAt(s, aon, l) == MapThenSumSet(LAMBDA b : b.sz, RestingAt(s, aon, l))
WithOrders(s, aon) == {l \in Levels : RestingAt(s, aon, l) # {}}

\* bid, ask and market depth show every limit order in their range that is
\* not AON, and nothing else, although the code never stores the side of an
\* order and AON orders may be all that is on a chain.
DepthAgrees ==
    pc = "idle" =>
        /\ \A s \in Sides :
               LET levels == WithOrders(s, FALSE)
               IN  IF levels = {} THEN BestPrice(s) = 0 /\ BestSize(s) = 0
                   ELSE /\ BestPrice(s) \in levels
                        /\ \A l \in levels : Geq(s, BestPrice(s), l)
                        /\ BestSize(s) = SizeAt(s, FALSE, BestPrice(s))
        /\ \A s \in Sides \cup {"both"}, n \in 1 .. MaxLevel :
               LET d == LimitDepth(s, n)
               IN  \A l \in Levels, t \in Sides :
                       /\ t = s \/ s = "both"
                       /\ Geq(t, l, best[t] + (IF t = "buy" THEN 1 - n ELSE n - 1))
                       => SizeAt(t, FALSE, l) =
                               IF l \in DOMAIN d /\ d[l].side = t THEN d[l].sz ELSE 0

\* Totals, the depth of AON orders and the answer for one order agree with
\* the orders that rest, on whatever chain an AON order has ended up.
TotalsAgree ==
    pc = "idle" =>
        /\ \A s \in Sides \cup {"both"}, aon \in BOOLEAN :
               TotalDepth(s, aon) = MapThenSumSet(LAMBDA l : SizeAt(s, aon, l), Levels)
        /\ DOMAIN AonMarketDepth = WithOrders("both", TRUE)
        /\ \A l \in DOMAIN AonMarketDepth : \A s \in Sides :
               AonMarketDepth[l][s] = SizeAt(s, TRUE, l)
        /\ \A s \in Sides, l \in Levels, aon \in BOOLEAN :
               \A b \in RestingAt(s, aon, l) :
                   OrderInfo(b.id) = [side |-> s, price |-> l, sz |-> b.sz, aon |-> aon]
=============================================================================
