----------------------------- MODULE Orderbook -----------------------------
(***************************************************************************)
(* The matching engine of SimpleOrderbookBase (src/orderbook/core.cpp,     *)
(* specials.tpp, impl.tpp) for basic orders: limit, market, stop and       *)
(* stop-limit, with pull, replace and growing the book.                    *)
(*                                                                         *)
(* The dispatcher thread executes one external order at a time under       *)
(* _master_mtx (pc # "idle"); every step of that execution that changes    *)
(* the book is an action here.  All-or-none and advanced orders are not    *)
(* in this module, so the AON windows are empty and the branches of        *)
(* _trade and _insert_limit_order that read them are inert.                *)
(*                                                                         *)
(* The code keeps every pointer twice, mirrored for the two sides (the     *)
(* <true>/<false> specialisations of exec::core, exec::limit, exec::stop). *)
(* Here a pointer is a function of the side, and Gt, Geq and Inc mirror    *)
(* the comparison and the increment of the buy side:                       *)
(*     best    _bid            / _ask                                      *)
(*     worst   _low_buy_limit  / _high_sell_limit                          *)
(*     near    _low_buy_stop   / _high_sell_stop   (first to trigger)      *)
(*     far     _high_buy_stop  / _low_sell_stop                            *)
(*                                                                         *)
(* A level is a price in ticks.  The book is the levels beg .. end-1, and  *)
(* beg-1 and end are the null pointers.  Reallocating the vector moves     *)
(* every address by one offset, which a price in ticks does not see; only  *)
(* the null pointers have to follow the ends.                              *)
(***************************************************************************)
EXTENDS Integers, Sequences, SequencesExt

CONSTANTS
    MaxLevel,  \* bound: no book grows above this level
    InitBeg,   \* lowest level of the book that create() makes
    InitEnd,   \* one past its highest level
    Sizes,     \* sizes a client uses
    StopLimits,\* prices that stop-limit orders of a client have
    MaxId,     \* bound: a client sends no order once this many ids are used
    Calls      \* the public calls that clients make

ASSUME BookAssumption ==
    /\ MaxLevel \in Nat
    /\ InitBeg \in Nat \ {0}
    /\ InitEnd \in Nat
    /\ InitBeg + 3 <= InitEnd       \* "need at least 3 ticks"
    /\ InitEnd <= MaxLevel + 1

\* check_order_params refuses a size of 0
ASSUME SizesAssumption == Sizes \subseteq Nat \ {0}

ASSUME CallsAssumption ==
    /\ MaxId \in Nat
    /\ Calls \subseteq {"limit", "market", "stop", "stop_limit", "pull",
                        "replace", "grow"}

VARIABLES
    limits,          \* level -> chain of limit orders, oldest first
    stops,           \* level -> chain of stop orders, of BOTH sides
    id_cache,        \* id -> where the order with that id rests
    best, worst, near, far,
    last,            \* level of the last trade, 0 before the first
    beg, end,
    last_id,
    total_volume,
    need_check_for_stops,
    internal_queue,  \* orders made by triggered stops, not yet inserted
    cur,             \* the order being inserted; cur.sz is what is unfilled
    scan,            \* loop variable p of _look_for_triggered_stops
    pc               \* where the dispatcher is in the execution of cur

pointers == <<best, worst, near, far>>
book == <<limits, stops, id_cache>>
vars == <<limits, stops, id_cache, best, worst, near, far, last, beg, end,
          last_id, total_volume, need_check_for_stops, internal_queue, cur,
          scan, pc>>

-----------------------------------------------------------------------------
(* Sides, levels and records. *)

Sides == {"buy", "sell"}
Opp(s) == IF s = "buy" THEN "sell" ELSE "buy"

Levels == 1 .. MaxLevel
Pointers == 0 .. MaxLevel + 1
Book == beg .. end - 1

Gt(s, p, q) == IF s = "buy" THEN p > q ELSE p < q
Geq(s, p, q) == IF s = "buy" THEN p >= q ELSE p <= q
Inc(s, p) == IF s = "buy" THEN p + 1 ELSE p - 1

\* the null values of a pointer that is low, or high, on the buy side
NullLow(s) == IF s = "buy" THEN beg - 1 ELSE end
NullHigh(s) == IF s = "buy" THEN end ELSE beg - 1

\* A resting limit order does not store its side: the code tells it from
\* the level and best.  The field side of a limit_bndl is a history variable
\* that no action reads.
LimitBndl == [id : Nat, sz : Nat \ {0}, side : Sides]
StopBndl == [id : Nat, sz : Nat \ {0}, side : Sides, limit : 0 .. MaxLevel]
CacheElem == [type : {"limit", "stop"}, p : Levels]
QueueElem == [id : Nat, type : {"limit", "market", "stop"}, side : Sides,
              limit : 0 .. MaxLevel, stop : 0 .. MaxLevel, sz : Nat]

NoOrder == [id |-> 0, type |-> "market", side |-> "buy", limit |-> 0,
            stop |-> 0, sz |-> 0]

Init ==
    /\ limits = [l \in Levels |-> <<>>]
    /\ stops = [l \in Levels |-> <<>>]
    /\ id_cache = [i \in {} |-> 0]
    /\ beg = InitBeg
    /\ end = InitEnd
    /\ best = [s \in Sides |-> IF s = "buy" THEN InitBeg - 1 ELSE InitEnd]
    /\ worst = [s \in Sides |-> IF s = "buy" THEN InitEnd ELSE InitBeg - 1]
    /\ near = [s \in Sides |-> IF s = "buy" THEN InitEnd ELSE InitBeg - 1]
    /\ far = [s \in Sides |-> IF s = "buy" THEN InitBeg - 1 ELSE InitEnd]
    /\ last = 0
    /\ last_id = 0
    /\ total_volume = 0
    /\ need_check_for_stops = FALSE
    /\ internal_queue = <<>>
    /\ cur = NoOrder
    /\ scan = 0
    /\ pc = "idle"

-----------------------------------------------------------------------------
(* The id cache and the chains. *)

\* std::unordered_map::emplace: an id already there keeps its element
Emplace(id, elem) ==
    id_cache' = [i \in DOMAIN id_cache \cup {id} |->
                    IF i \in DOMAIN id_cache THEN id_cache[i] ELSE elem]

Erase(ids) == id_cache' = [i \in DOMAIN id_cache \ ids |-> id_cache[i]]

\* Mutant: a new order goes to the front of its chain.
FrontEmplace(chains, p, bndl) == [chains EXCEPT ![p] = <<bndl>> \o @]

ChainEmplace(chains, p, bndl) == [chains EXCEPT ![p] = Append(@, bndl)]

\* exec::core<>::find_new_best_inside on the chains lims, from best[s] and
\* from low as the other end of the window: b is the first level, going away
\* from the market, whose chain is not empty; the null pointer if none is.
IsNewBest(s, lims, b) ==
    /\ Geq(s, best[s], b)
    /\ \A l \in Book : Geq(s, best[s], l) /\ Gt(s, l, b) => lims[l] = <<>>
    /\ b = NullLow(s) \/ (b \in Book /\ lims[b] # <<>>)

\* Mutant: worst is not reset when the side runs out of orders.
FindNewBestKeepingWorst(s, lims, low) ==
    \E b \in Book \cup {NullLow(s)} :
        /\ IsNewBest(s, lims, b)
        /\ best' = [best EXCEPT ![s] = b]
        /\ worst' = [worst EXCEPT ![s] = IF Gt(s, low, b) THEN b ELSE low]

FindNewBestInside(s, lims, low) ==
    \E b \in Book \cup {NullLow(s)} :
        /\ IsNewBest(s, lims, b)
        /\ best' = [best EXCEPT ![s] = b]
        /\ worst' = [worst EXCEPT ![s] =
                        IF b = NullLow(s) THEN NullHigh(s)
                        ELSE IF Gt(s, low, b) THEN b ELSE low]

\* Mutant: every insert becomes the best.
NewestIsBest(s, p) ==
    /\ best' = [best EXCEPT ![s] = p]
    /\ worst' = [worst EXCEPT ![s] = IF Gt(s, @, p) THEN p ELSE @]

\* exec::limit<>::adjust_state_after_insert
LimitAfterInsert(s, p) ==
    /\ best' = [best EXCEPT ![s] = IF Geq(s, p, @) THEN p ELSE @]
    /\ worst' = [worst EXCEPT ![s] = IF Gt(s, @, p) THEN p ELSE @]

\* exec::limit<>::adjust_state_after_pull: the chain at p is now empty
LimitAfterPull(s, lims, p) ==
    LET low == IF p = worst[s] THEN Inc(s, p) ELSE worst[s]
    IN  IF p = best[s]
        THEN FindNewBestInside(s, lims, low)
        ELSE /\ worst' = [worst EXCEPT ![s] = low]
             /\ UNCHANGED best

\* Mutant: only the first stop order sets near.
FirstStopIsNear(s, p) ==
    /\ near' = [near EXCEPT ![s] = IF @ = NullHigh(s) THEN p ELSE @]
    /\ far' = [far EXCEPT ![s] = IF Gt(s, p, @) THEN p ELSE @]

\* exec::stop<>::adjust_state_after_insert
StopAfterInsert(s, p) ==
    /\ near' = [near EXCEPT ![s] = IF Gt(s, @, p) THEN p ELSE @]
    /\ far' = [far EXCEPT ![s] = IF Gt(s, p, @) THEN p ELSE @]

\* exec::stop<>::adjust_state_after_pull: the chain at p, which both sides
\* share, is now empty
StopAfterPull(s, p) ==
    IF far[s] = near[s]
    THEN /\ near' = [near EXCEPT ![s] = NullHigh(s)]
         /\ far' = [far EXCEPT ![s] = NullLow(s)]
    ELSE IF p = far[s]
    THEN /\ far' = [far EXCEPT ![s] = Inc(Opp(s), p)]
         /\ UNCHANGED near
    ELSE /\ near' = [near EXCEPT ![s] = IF p = @ THEN Inc(s, p) ELSE @]
         /\ UNCHANGED far

\* Mutant: off by one at the far end of the window.
StopWindowEndsEarly(s, p) ==
    IF Geq(s, Inc(s, p), far[s])
    THEN /\ near' = [near EXCEPT ![s] = NullHigh(s)]
         /\ far' = [far EXCEPT ![s] = NullLow(s)]
    ELSE /\ near' = [near EXCEPT ![s] = Inc(s, p)]
         /\ UNCHANGED far

\* exec::stop<>::adjust_state_after_trigger
StopAfterTrigger(s, p) ==
    IF Gt(s, Inc(s, p), far[s])
    THEN /\ near' = [near EXCEPT ![s] = NullHigh(s)]
         /\ far' = [far EXCEPT ![s] = NullLow(s)]
    ELSE /\ near' = [near EXCEPT ![s] = Inc(s, p)]
         /\ UNCHANGED far

-----------------------------------------------------------------------------
(* What a client asks for.  The queue element is built, and its prices      *)
(* checked, before anything changes: a call with a bad price, or a pull or  *)
(* replace of an id that is not in the cache, leaves the book as it was.    *)

LimitOrder(s, p, n) ==
    [id |-> 0, type |-> "limit", side |-> s, limit |-> p, stop |-> 0, sz |-> n]
MarketOrder(s, n) ==
    [id |-> 0, type |-> "market", side |-> s, limit |-> 0, stop |-> 0, sz |-> n]
StopOrder(s, p, lim, n) ==
    [id |-> 0, type |-> "stop", side |-> s, limit |-> lim, stop |-> p, sz |-> n]

\* order_type::stop and stop_limit take the same route and differ only in
\* whether limit is 0
Call(e) == IF e.type = "stop" /\ e.limit # 0 THEN "stop_limit" ELSE e.type

\* the orders a client may send now
ClientOrders ==
    {e \in {LimitOrder(s, p, n) : s \in Sides, p \in Book, n \in Sizes}
           \cup {MarketOrder(s, n) : s \in Sides, n \in Sizes}
           \cup {StopOrder(s, p, lim, n) :
                     s \in Sides, p \in Book, n \in Sizes,
                     lim \in (Book \cap StopLimits) \cup {0}} :
        Call(e) \in Calls}

\* _execute_external_order: generate the id, then _insert_order
StartOrder(e) ==
    /\ last_id < MaxId
    /\ last_id' = last_id + 1
    /\ cur' = [e EXCEPT !.id = last_id + 1]
    /\ pc' = "route"

InsertOrder(e) ==
    /\ pc = "idle"
    /\ StartOrder(e)
    /\ UNCHANGED <<book, pointers, last, beg, end, total_volume,
                   need_check_for_stops, internal_queue, scan>>

\* chain<limit_chain_type>::pop: the side is read off the level and best
PopLimit(id) ==
    LET p == id_cache[id].p
        s == IF p <= best["buy"] THEN "buy" ELSE "sell"
    IN  \E i \in 1 .. Len(limits[p]) :
            /\ limits[p][i].id = id
            /\ limits' = [limits EXCEPT ![p] = RemoveAt(@, i)]
            /\ Erase({id})
            /\ IF limits'[p] = <<>>
               THEN LimitAfterPull(s, limits', p)
               ELSE UNCHANGED <<best, worst>>
            /\ UNCHANGED <<stops, near, far>>

\* chain<stop_chain_type>::pop
PopStop(id) ==
    LET p == id_cache[id].p
    IN  \E i \in 1 .. Len(stops[p]) :
            /\ stops[p][i].id = id
            /\ stops' = [stops EXCEPT ![p] = RemoveAt(@, i)]
            /\ Erase({id})
            /\ IF stops'[p] = <<>>
               THEN StopAfterPull(stops[p][i].side, p)
               ELSE UNCHANGED <<near, far>>
            /\ UNCHANGED <<limits, best, worst>>

\* _pull_order
Pull(id) ==
    /\ id \in DOMAIN id_cache
    /\ \/ id_cache[id].type = "limit" /\ PopLimit(id)
       \/ id_cache[id].type = "stop" /\ PopStop(id)

PullOrder(id) ==
    /\ pc = "idle"
    /\ "pull" \in Calls
    /\ Pull(id)
    /\ UNCHANGED <<last, beg, end, last_id, total_volume,
                   need_check_for_stops, internal_queue, cur, scan, pc>>

ReplaceOrder(id, e) ==
    /\ pc = "idle"
    /\ "replace" \in Calls
    /\ StartOrder(e)
    /\ Pull(id)
    /\ UNCHANGED <<last, beg, end, total_volume, need_check_for_stops,
                   internal_queue, scan>>

\* Mutant: _low_buy_limit keeps its old null value.
GrowAboveKeepingLowBuy(e) ==
    LET follow(ptr) == IF ptr = end THEN e ELSE ptr
    IN  /\ pc = "idle"
        /\ "grow" \in Calls
        /\ end < e
        /\ end' = e
        /\ best' = [best EXCEPT !["sell"] = follow(@)]
        /\ near' = [near EXCEPT !["buy"] = follow(@)]
        /\ far' = [far EXCEPT !["sell"] = follow(@)]
        /\ UNCHANGED <<book, worst, last, beg, last_id, total_volume,
                       need_check_for_stops, internal_queue, cur, scan, pc>>

\* grow_book_above and grow_book_below, from the caller's thread between two
\* orders; _reset_internal_pointers makes the null pointers follow the ends
GrowBookAbove(e) ==
    LET follow(ptr) == IF ptr = end THEN e ELSE ptr
    IN  /\ pc = "idle"
        /\ "grow" \in Calls
        /\ end < e
        /\ end' = e
        /\ best' = [best EXCEPT !["sell"] = follow(@)]
        /\ worst' = [worst EXCEPT !["buy"] = follow(@)]
        /\ near' = [near EXCEPT !["buy"] = follow(@)]
        /\ far' = [far EXCEPT !["sell"] = follow(@)]
        /\ UNCHANGED <<book, last, beg, last_id, total_volume,
                       need_check_for_stops, internal_queue, cur, scan, pc>>

GrowBookBelow(b) ==
    LET follow(ptr) == IF ptr = beg - 1 THEN b - 1 ELSE ptr
    IN  /\ pc = "idle"
        /\ "grow" \in Calls
        /\ b < beg
        /\ beg' = b
        /\ best' = [best EXCEPT !["buy"] = follow(@)]
        /\ worst' = [worst EXCEPT !["sell"] = follow(@)]
        /\ near' = [near EXCEPT !["sell"] = follow(@)]
        /\ far' = [far EXCEPT !["buy"] = follow(@)]
        /\ UNCHANGED <<book, last, end, last_id, total_volume,
                       need_check_for_stops, internal_queue, cur, scan, pc>>

-----------------------------------------------------------------------------
(* Inserting cur: _route_basic_order. *)

\* what _trade takes for the price: a market order simulates a level
PLevel(e) == IF e.type = "limit" THEN e.limit
             ELSE IF e.side = "buy" THEN end - 1 ELSE beg

\* Mutant: an order at the price of the other side does not cross it.
IsStrictlyTradable(e) == Gt(e.side, PLevel(e), best[Opp(e.side)])

\* exec::core<>::is_tradable
IsTradable(e) == Geq(e.side, PLevel(e), best[Opp(e.side)])

\* Mutants of the loop condition: orders at the very price are not hit, and
\* the loop goes on when nothing is left to fill.
KeepsTradingThrough(e) ==
    LET r == Opp(e.side)
    IN  /\ e.sz > 0
        /\ Gt(r, best[r], PLevel(e))
        /\ Geq(r, best[r], worst[r])

KeepsTradingWhenFilled(e) ==
    LET r == Opp(e.side)
    IN  /\ Geq(r, best[r], PLevel(e))
        /\ Geq(r, best[r], worst[r])

\* the loop condition of _trade, for resting orders of side r.  The code
\* reads the far end of the window once, before the loop; it can only move
\* when the side runs out, and then the first comparison already fails.
KeepsTrading(e) ==
    LET r == Opp(e.side)
    IN  /\ e.sz > 0
        /\ Geq(r, best[r], PLevel(e))
        /\ Geq(r, best[r], worst[r])

\* a limit order that crosses nothing skips _trade, and with it the stops
RouteLimit ==
    /\ pc = "route"
    /\ cur.type = "limit"
    /\ pc' = IF IsTradable(cur) THEN "trade" ELSE "settle"
    /\ UNCHANGED <<book, pointers, last, beg, end, last_id, total_volume,
                   need_check_for_stops, internal_queue, cur, scan>>

RouteMarket ==
    /\ pc = "route"
    /\ cur.type = "market"
    /\ pc' = "trade"
    /\ UNCHANGED <<book, pointers, last, beg, end, last_id, total_volume,
                   need_check_for_stops, internal_queue, cur, scan>>

\* _insert_stop_order: only a trade at or through the stop triggers it, so
\* it goes to the chain wherever the market is
InsertStop ==
    /\ pc = "route"
    /\ cur.type = "stop"
    /\ stops' = ChainEmplace(stops, cur.stop,
                    [id |-> cur.id, sz |-> cur.sz, side |-> cur.side,
                     limit |-> cur.limit])
    /\ Emplace(cur.id, [type |-> "stop", p |-> cur.stop])
    /\ StopAfterInsert(cur.side, cur.stop)
    /\ cur' = NoOrder
    /\ pc' = "drain"
    /\ UNCHANGED <<limits, best, worst, last, beg, end, last_id, total_volume,
                   need_check_for_stops, internal_queue, scan>>

\* Mutant: a trade counts as one, whatever its size.
TradeCountsOne(p, amount) ==
    /\ last' = p
    /\ total_volume' = total_volume + 1
    /\ need_check_for_stops' = TRUE
    /\ cur' = [cur EXCEPT !.sz = @ - amount]

\* _trade_has_occured
TradeHasOccured(p, amount) ==
    /\ last' = p
    /\ total_volume' = total_volume + amount
    /\ need_check_for_stops' = TRUE
    /\ cur' = [cur EXCEPT !.sz = @ - amount]

\* One turn of the loop of _hit_chain on the best chain of the other side:
\* the front order is filled and leaves the cache and the chain (the code
\* erases the filled ones together when the loop ends) ...
FillFront ==
    LET r == Opp(cur.side)
        p == best[r]
        front == Head(limits[p])
    IN  /\ pc = "trade"
        /\ KeepsTrading(cur)
        /\ front.sz <= cur.sz
        /\ TradeHasOccured(p, front.sz)
        /\ Erase({front.id})
        /\ limits' = [limits EXCEPT ![p] = Tail(@)]
        /\ IF limits'[p] = <<>>
           THEN FindNewBestInside(r, limits', worst[r])
           ELSE UNCHANGED <<best, worst>>
        /\ UNCHANGED <<stops, near, far, beg, end, last_id, internal_queue,
                       scan, pc>>

\* ... or what is left of cur is used up by a part of it
FillPartOfFront ==
    LET p == best[Opp(cur.side)]
        front == Head(limits[p])
    IN  /\ pc = "trade"
        /\ KeepsTrading(cur)
        /\ cur.sz < front.sz
        /\ TradeHasOccured(p, cur.sz)
        /\ limits' = [limits EXCEPT ![p][1].sz = @ - cur.sz]
        /\ UNCHANGED <<stops, id_cache, pointers, beg, end, last_id,
                       internal_queue, scan, pc>>

\* the end of the loop of _trade, and the check of need_check_for_stops
EndTrade ==
    /\ pc = "trade"
    /\ ~ KeepsTrading(cur)
    /\ IF need_check_for_stops
       THEN pc' = "scan_buy" /\ scan' = near["buy"]
       ELSE pc' = "settle" /\ UNCHANGED scan
    /\ UNCHANGED <<book, pointers, last, beg, end, last_id, total_volume,
                   need_check_for_stops, internal_queue, cur>>

-----------------------------------------------------------------------------
(* _look_for_triggered_stops: all buy stops from the lowest to last, then   *)
(* all sell stops from the highest to last.                                 *)

\* Mutant: a triggered order keeps the id of the stop order.
TriggeredOrderSameId(bndl, id) ==
    [id |-> bndl.id, type |-> IF bndl.limit # 0 THEN "limit" ELSE "market",
     side |-> bndl.side, limit |-> bndl.limit, stop |-> 0, sz |-> bndl.sz]

\* what _push_internal_order makes of a triggered stop
TriggeredOrder(bndl, id) ==
    [id |-> id, type |-> IF bndl.limit # 0 THEN "limit" ELSE "market",
     side |-> bndl.side, limit |-> bndl.limit, stop |-> 0, sz |-> bndl.sz]

\* Mutant: triggered orders stay in the id cache.
TriggerKeepingCache(s, p) ==
    LET chain == stops[p]
    IN  /\ stops' = [stops EXCEPT ![p] = <<>>]
        /\ StopAfterTrigger(s, p)
        /\ internal_queue' = internal_queue \o
               [i \in 1 .. Len(chain) |-> TriggeredOrder(chain[i], last_id + i)]
        /\ last_id' = last_id + Len(chain)
        /\ UNCHANGED id_cache

\* _handle_triggered_stop_chain: the WHOLE chain at p goes, whatever the
\* side of the orders on it
HandleTriggeredStopChain(s, p) ==
    LET chain == stops[p]
    IN  /\ stops' = [stops EXCEPT ![p] = <<>>]
        /\ StopAfterTrigger(s, p)
        /\ internal_queue' = internal_queue \o
               [i \in 1 .. Len(chain) |-> TriggeredOrder(chain[i], last_id + i)]
        /\ last_id' = last_id + Len(chain)
        /\ Erase({chain[i].id : i \in 1 .. Len(chain)})

Scan(s, at) ==
    /\ pc = at
    /\ Geq(s, last, scan)
    /\ HandleTriggeredStopChain(s, scan)
    /\ scan' = Inc(s, scan)
    /\ UNCHANGED <<limits, best, worst, last, beg, end, total_volume,
                   need_check_for_stops, cur, pc>>

ScanBuyStops == Scan("buy", "scan_buy")
ScanSellStops == Scan("sell", "scan_sell")

EndBuyScan ==
    /\ pc = "scan_buy"
    /\ Gt("buy", scan, last)
    /\ pc' = "scan_sell"
    /\ scan' = near["sell"]
    /\ UNCHANGED <<book, pointers, last, beg, end, last_id, total_volume,
                   need_check_for_stops, internal_queue, cur>>

\* Mutant: need_check_for_stops is not reset.
EndSellScanKeepingFlag ==
    /\ pc = "scan_sell"
    /\ Gt("sell", scan, last)
    /\ pc' = "settle"
    /\ scan' = 0
    /\ UNCHANGED <<book, pointers, last, beg, end, last_id, total_volume,
                   need_check_for_stops, internal_queue, cur>>

EndSellScan ==
    /\ pc = "scan_sell"
    /\ Gt("sell", scan, last)
    /\ need_check_for_stops' = FALSE
    /\ pc' = "settle"
    /\ scan' = 0
    /\ UNCHANGED <<book, pointers, last, beg, end, last_id, total_volume,
                   internal_queue, cur>>

-----------------------------------------------------------------------------
(* After _trade. *)

Filled ==
    /\ pc = "settle"
    /\ cur.sz = 0
    /\ cur' = NoOrder
    /\ pc' = "drain"
    /\ UNCHANGED <<book, pointers, last, beg, end, last_id, total_volume,
                   need_check_for_stops, internal_queue, scan>>

\* the rest of a limit order goes to the chain at its price
RestLimit ==
    /\ pc = "settle"
    /\ cur.sz > 0
    /\ cur.type = "limit"
    /\ limits' = ChainEmplace(limits, cur.limit,
                    [id |-> cur.id, sz |-> cur.sz, side |-> cur.side])
    /\ Emplace(cur.id, [type |-> "limit", p |-> cur.limit])
    /\ LimitAfterInsert(cur.side, cur.limit)
    /\ cur' = NoOrder
    /\ pc' = "drain"
    /\ UNCHANGED <<stops, near, far, last, beg, end, last_id, total_volume,
                   need_check_for_stops, internal_queue, scan>>

\* Mutant: the handler leaves the internal queue to the next window.
ThrowKeepingQueue ==
    /\ pc = "settle"
    /\ cur.sz > 0
    /\ cur.type = "market"
    /\ cur' = NoOrder
    /\ pc' = "idle"
    /\ UNCHANGED <<book, pointers, last, beg, end, last_id, total_volume,
                   need_check_for_stops, internal_queue, scan>>

\* liquidity_exception: what has traded stays traded, and the handler in
\* _dispatch_external_order empties the internal queue
ThrowLiquidity ==
    /\ pc = "settle"
    /\ cur.sz > 0
    /\ cur.type = "market"
    /\ internal_queue' = <<>>
    /\ cur' = NoOrder
    /\ pc' = "idle"
    /\ UNCHANGED <<book, pointers, last, beg, end, last_id, total_volume,
                   need_check_for_stops, scan>>

\* the loop over _internal_order_queue in _execute_external_order.  The code
\* pops the element after inserting it; nothing reads the queue in between.
NextInternal ==
    /\ pc = "drain"
    /\ internal_queue # <<>>
    /\ cur' = Head(internal_queue)
    /\ internal_queue' = Tail(internal_queue)
    /\ pc' = "route"
    /\ UNCHANGED <<book, pointers, last, beg, end, last_id, total_volume,
                   need_check_for_stops, scan>>

CloseWindow ==
    /\ pc = "drain"
    /\ internal_queue = <<>>
    /\ pc' = "idle"
    /\ UNCHANGED <<book, pointers, last, beg, end, last_id, total_volume,
                   need_check_for_stops, internal_queue, cur, scan>>

-----------------------------------------------------------------------------
Client ==
    \/ \E e \in ClientOrders : InsertOrder(e)
    \/ \E id \in DOMAIN id_cache : PullOrder(id)
    \/ \E id \in DOMAIN id_cache, e \in ClientOrders : ReplaceOrder(id, e)
    \/ \E e \in InitEnd .. MaxLevel + 1 : GrowBookAbove(e)
    \/ \E b \in 1 .. InitBeg : GrowBookBelow(b)

Window ==
    \/ RouteLimit \/ RouteMarket \/ InsertStop
    \/ FillFront \/ FillPartOfFront \/ EndTrade
    \/ ScanBuyStops \/ EndBuyScan \/ ScanSellStops \/ EndSellScan
    \/ Filled \/ RestLimit \/ ThrowLiquidity
    \/ NextInternal \/ CloseWindow

Next == Client \/ Window

\* The dispatcher holds _master_mtx for the whole window and waits for
\* nothing in it: a window that is open goes on.  Clients owe nothing.
Fairness == WF_vars(Window)

Spec == Init /\ [][Next]_vars /\ Fairness

-----------------------------------------------------------------------------
(* Properties. *)

\* an order of side s is on the chain of level l
HasOrder(chains, l, s) ==
    \E i \in 1 .. Len(chains[l]) : chains[l][i].side = s

\* the types of the book and its pointers
BookTypeOK ==
    /\ limits \in [Levels -> Seq(LimitBndl)]
    /\ stops \in [Levels -> Seq(StopBndl)]
    /\ DOMAIN id_cache \subseteq Nat
    /\ \A i \in DOMAIN id_cache : id_cache[i] \in CacheElem
    /\ best \in [Sides -> Pointers]
    /\ worst \in [Sides -> Pointers]
    /\ near \in [Sides -> Pointers]
    /\ far \in [Sides -> Pointers]
    /\ beg \in Levels
    /\ end \in 2 .. MaxLevel + 1
    /\ beg + 3 <= end

\* Every variable has its type.
TypeOK ==
    /\ BookTypeOK
    /\ last \in 0 .. MaxLevel
    /\ last_id \in Nat
    /\ total_volume \in Nat
    /\ need_check_for_stops \in BOOLEAN
    /\ internal_queue \in Seq(QueueElem)
    /\ cur \in QueueElem
    /\ scan \in Pointers
    /\ pc \in {"idle", "route", "trade", "scan_buy", "scan_sell", "settle",
               "drain"}

\* The bid is below the ask, whatever has been inserted, traded and pulled.
Uncrossed == best["buy"] < best["sell"]

\* A limit order does not store its side.  chain<limit>::pop compares its
\* level with _bid and _is_buy_order compares it with _ask: both must give
\* the side the order was sent with, or a pull moves the wrong pointers.
SideFromLevel ==
    \A l \in Levels, s \in Sides : HasOrder(limits, l, s) =>
        /\ s = "buy" <=> l <= best["buy"]
        /\ s = "buy" <=> l < best["sell"]

\* No limit order is outside [worst, best] of its side: the loops that walk
\* the window find all of them.  And best is exact: its chain has orders.
LimitWindows ==
    /\ \A l \in Levels, s \in Sides : HasOrder(limits, l, s) =>
           Geq(s, best[s], l) /\ Geq(s, l, worst[s])
    /\ \A s \in Sides :
           \/ best[s] = NullLow(s) /\ worst[s] = NullHigh(s)
           \/ best[s] \in Book /\ worst[s] \in Book /\ limits[best[s]] # <<>>

\* No stop order is outside [near, far] of its side, although both sides
\* share the chains, a trigger empties a chain of both, and an empty chain
\* moves the window of one side only.
StopWindows ==
    /\ \A l \in Levels, s \in Sides : HasOrder(stops, l, s) =>
           Geq(s, l, near[s]) /\ Geq(s, far[s], l)
    /\ \A s \in Sides :
           \/ near[s] = NullHigh(s) /\ far[s] = NullLow(s)
           \/ near[s] \in Book /\ far[s] \in Book /\ Geq(s, far[s], near[s])

\* The cache and the chains agree: an order on a chain is cached with that
\* chain, and a cached id is on the chain the cache says.
CacheAgrees ==
    /\ \A l \in Levels : \A i \in 1 .. Len(limits[l]) :
           /\ limits[l][i].id \in DOMAIN id_cache
           /\ id_cache[limits[l][i].id] = [type |-> "limit", p |-> l]
    /\ \A l \in Levels : \A i \in 1 .. Len(stops[l]) :
           /\ stops[l][i].id \in DOMAIN id_cache
           /\ id_cache[stops[l][i].id] = [type |-> "stop", p |-> l]
    /\ \A id \in DOMAIN id_cache :
           LET chains == IF id_cache[id].type = "limit" THEN limits ELSE stops
               chain == chains[id_cache[id].p]
           IN  \E i \in 1 .. Len(chain) : chain[i].id = id

\* Within a chain, and in the internal queue, older orders are in front; and
\* an order that waits in the queue is younger than every order on a chain.
TimePriority ==
    LET Ascending(c) == \A i, j \in 1 .. Len(c) : i < j => c[i].id < c[j].id
    IN  /\ \A l \in Levels : Ascending(limits[l]) /\ Ascending(stops[l])
        /\ Ascending(internal_queue)
        /\ \A id \in DOMAIN id_cache, j \in 1 .. Len(internal_queue) :
               id < internal_queue[j].id

\* When _trade has returned, an order with something unfilled has nothing
\* left to trade with at its price.  So a limit order that rests crosses
\* nothing, and a market order throws only when the other side is empty.
NothingLeftToTrade ==
    pc \in {"scan_buy", "scan_sell", "settle"} /\ cur.sz > 0 =>
        \A l \in Levels : HasOrder(limits, l, Opp(cur.side)) =>
            ~ Geq(cur.side, PLevel(cur), l)

\* Between windows nothing is left over from the last one, not even after
\* an exception: the next client's window runs no order but its own.
WindowIsClean ==
    pc = "idle" => /\ internal_queue = <<>>
                   /\ cur = NoOrder
                   /\ ~ need_check_for_stops

\* _assert_internal_pointers, which a debug build runs after every window
\* and every time the book grows.
AssertInternalPointers ==
    pc = "idle" =>
        /\ best["buy"] # NullLow("buy") =>
               /\ best["sell"] # NullLow("sell") => best["sell"] > best["buy"]
               /\ worst["buy"] # NullHigh("buy") => worst["buy"] <= best["buy"]
        /\ worst["sell"] # NullHigh("sell") =>
               /\ best["sell"] # NullLow("sell") =>
                      worst["sell"] >= best["sell"]
               /\ worst["buy"] # NullHigh("buy") =>
                      worst["sell"] > worst["buy"]
        /\ \A s \in Sides :
               near[s] # NullHigh(s) \/ far[s] # NullLow(s) =>
                   Geq(s, far[s], near[s])

\* When the check for stops is done, no stop order that last has reached is
\* left: every one of them is on its way to the book.
AllReachedStopsTrigger ==
    [][need_check_for_stops /\ ~ need_check_for_stops' =>
           \A l \in Levels, s \in Sides :
               HasOrder(stops, l, s) => Gt(s, l, last)]_vars

\* f[1] + ... + f[n]
SumTo(f, n) ==
    LET sum[k \in 0 .. n] == IF k = 0 THEN 0 ELSE sum[k - 1] + f[k]
    IN  sum[n]

ChainSize(chain) == SumTo([i \in 1 .. Len(chain) |-> chain[i].sz], Len(chain))

\* all that is unfilled: on the limit chains, on the stop chains, waiting in
\* the internal queue and in the order that is being inserted
LevelSize(l) == ChainSize(limits[l]) + ChainSize(stops[l])
BookSize == SumTo([l \in Levels |-> LevelSize(l)], MaxLevel)
OpenSize == BookSize + ChainSize(internal_queue) + cur.sz

\* No size is made or lost inside a window: a trade takes the same amount
\* from both orders and adds it to _total_volume, a trigger and an insert
\* move an order, and only the liquidity exception drops any.
WindowConservesSize ==
    [][pc # "idle" /\ ~ (pc = "settle" /\ pc' = "idle") =>
           OpenSize' + 2 * total_volume' = OpenSize + 2 * total_volume]_vars

\* A triggered stop waits in the queue until it is inserted.  Only the head
\* leaves, and only to be executed.
ContingentOrdersAreProcessed ==
    [][internal_queue # <<>> /\ Len(internal_queue') < Len(internal_queue) =>
           /\ internal_queue' = Tail(internal_queue)
           /\ cur' = Head(internal_queue)]_vars

\* An order leaves the stop chains for the internal queue only when a trade
\* was at or through its stop price.
StopsTriggerOnlyWhenReached ==
    [][\A l \in Levels, s \in Sides :
           /\ pc \in {"scan_buy", "scan_sell"}
           /\ stops'[l] # stops[l]
           /\ HasOrder(stops, l, s)
           => Geq(s, last, l)]_vars

\* Every window closes: trading and stops that trigger stops come to an end.
WindowCloses == pc # "idle" ~> pc = "idle"

-----------------------------------------------------------------------------
(* The inductive invariant of the proofs in OrderbookProofs. *)

\* the price checks of order_queue_elem: prices lie in the book, also those
\* of orders that wait, and those of stop-limit orders on the chains
PricesInBook ==
    /\ cur.type = "limit" => cur.limit \in Book
    /\ cur.type = "stop" => cur.stop \in Book /\ cur.limit \in Book \cup {0}
    /\ \A i \in 1 .. Len(internal_queue) :
           /\ internal_queue[i].type = "limit" => internal_queue[i].limit \in Book
           /\ internal_queue[i].type # "stop"
           /\ internal_queue[i].sz > 0
    /\ \A l \in Levels : \A i \in 1 .. Len(stops[l]) :
           stops[l][i].limit \in Book \cup {0}
    /\ last \in Book \cup {0}

\* what holds at each place of the execution of an order
ControlState ==
    /\ pc \in {"idle", "drain"} => cur = NoOrder
    /\ pc = "idle" => internal_queue = <<>>
    /\ pc = "route" => cur.sz > 0
    /\ pc \in {"trade", "scan_buy", "scan_sell", "settle"} => cur.type # "stop"
    /\ need_check_for_stops => pc \in {"trade", "scan_buy", "scan_sell"}
    /\ need_check_for_stops => last \in Book
    /\ pc \in {"scan_buy", "scan_sell"} => need_check_for_stops

\* NothingLeftToTrade, told by best alone
BestIsNotTradable ==
    pc \in {"scan_buy", "scan_sell", "settle"} /\ cur.sz > 0 => ~ IsTradable(cur)

\* where the loops over the stops are: below scan nothing of that side is
\* left, and after the first loop no buy stop that last has reached
ScanPosition ==
    /\ pc = "scan_buy" => /\ scan \in Book \cup {NullHigh("buy")}
                          /\ near["buy"] \in {scan, NullHigh("buy")}
    /\ pc = "scan_sell" => /\ scan \in Book \cup {NullHigh("sell")}
                           /\ near["sell"] \in {scan, NullHigh("sell")}
    /\ pc = "scan_sell" =>
           \A l \in Levels : HasOrder(stops, l, "buy") => l > last

IInv ==
    /\ TypeOK
    /\ PricesInBook
    /\ ControlState
    /\ LimitWindows
    /\ Uncrossed
    /\ StopWindows
    /\ BestIsNotTradable
    /\ ScanPosition

-----------------------------------------------------------------------------
(* The abstract book that this one implements. *)

\* the levels are prices; 0 is no price and stands for a market order's
AtLevel(bndl, l) ==
    [id |-> bndl.id, side |-> bndl.side, price |-> l, sz |-> bndl.sz]

RestingOrders ==
    UNION {{AtLevel(limits[l][i], l) : i \in 1 .. Len(limits[l])} : l \in Levels}

\* a stop order that is on its way to its chain is no incoming order
IncomingOrder ==
    IF cur.type = "stop" \/ cur.id = 0
    THEN [id |-> 0, side |-> "buy", price |-> 0, sz |-> 0]
    ELSE [id |-> cur.id, side |-> cur.side, price |-> cur.limit, sz |-> cur.sz]

PTB == INSTANCE PriceTimeBook WITH
    Prices <- Levels,
    AnyPrice <- 0,
    resting <- RestingOrders,
    incoming <- IncomingOrder,
    last <- last

\* Matching is by price, then time: an order trades only with the best and
\* oldest order on the other side, rests only when it crosses nothing, and
\* a resting order changes in no other way.
ImplementsPriceTimeBook == PTB!PTBSpec
=============================================================================
