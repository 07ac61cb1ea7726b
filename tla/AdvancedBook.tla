---------------------------- MODULE AdvancedBook ----------------------------
(***************************************************************************)
(* The matching engine with advanced orders (src/orderbook/advanced.cpp    *)
(* and the places of core.cpp that call it): one-cancels-other (OCO),      *)
(* one-triggers-other (OTO), bracket, trailing stop and trailing bracket.  *)
(*                                                                         *)
(* An order that rests with a condition has an entry in adv, which stands  *)
(* for the condition, trigger and union of _order_bndl.  Conditions run    *)
(* inside the execution of another order: in the middle of _hit_chain      *)
(* (pc "matched"), of a chain of triggered stops ("chain_buy",             *)
(* "chain_sell"), and after the order they came with has traded            *)
(* ("condition").  What they insert waits in the internal queue.           *)
(***************************************************************************)
EXTENDS Orderbook

CONSTANT AdvOrders   \* the orders that clients send, see Order below

VARIABLES
    adv,        \* id of a resting order -> its condition
    trailing,   \* side -> ids: _trailing_buy_stops, _trailing_sell_stops
    swing,      \* _last before this _trade, and its high and low since
    hit,        \* what the order in front has just traded, or an id to pull
    adjusting,  \* the trailing stops that are still to be moved, and from where
    held,       \* the one of them that is off its chain
    cchain      \* the triggered chain that is being handled

adv_vars == <<adv, trailing, swing, hit, adjusting, held, cchain>>
bvars == <<vars, adv_vars>>

-----------------------------------------------------------------------------
(* Orders and their parameters. *)

\* OrderParamaters by price, or by number of ticks for trailing orders
Param(s, lim, stop, n) == [side |-> s, limit |-> lim, stop |-> stop, sz |-> n]
NoParam == Param("buy", 0, 0, 0)

\* order_paramaters.hpp: get_order_type; stop and stop-limit take one route
OrderType(p) == IF p.stop # 0 THEN "stop" ELSE IF p.limit # 0 THEN "limit" ELSE "market"

\* an order_queue_elem; of is its size when it is queued
Elem(p, id, cond, trig, p1, p2, parent) ==
    [id |-> id, type |-> OrderType(p), side |-> p.side, limit |-> p.limit,
     stop |-> p.stop, sz |-> p.sz, of |-> p.sz, cond |-> cond, trig |-> trig,
     p1 |-> p1, p2 |-> p2, parent |-> parent]

\* what a client sends: an order and a ticket (AdvancedOrderTicket)
Order(p, cond, trig, p1, p2) == Elem(p, 0, cond, trig, p1, p2, 0)
Basic(p) == Order(p, "none", "none", NoParam, NoParam)

Params == [side : Sides, limit : Nat, stop : Nat, sz : Nat]
Conditions == {"none", "oco", "oto", "bracket", "trailing_stop", "trailing_bracket"}
ClientElem == [id : {0}, type : {"limit", "market", "stop"}, side : Sides,
               limit : Nat, stop : Nat, sz : Nat \ {0}, of : Nat \ {0},
               cond : Conditions, trig : {"none", "partial", "full"},
               p1 : Params, p2 : Params, parent : {0}]

\* check_order_params refuses a size of 0
ASSUME AdvOrdersAssumption ==
    \A e \in AdvOrders :
        /\ e \in ClientElem
        /\ e.type = OrderType(e)
        /\ e.of = e.sz

\* The tickets, as their build functions make them; a trigger is "partial" or
\* "full".  The exits of a bracket are on one side and get their size later,
\* as those of a trailing order get their side.
Ticket(cond, trig, p1, p2) == [cond |-> cond, trig |-> trig, p1 |-> p1, p2 |-> p2]
OcoTicket(trig, p) == Ticket("oco", trig, p, NoParam)
OtoTicket(trig, p) == Ticket("oto", trig, p, NoParam)
BracketTicket(trig, s, lossLimit, lossStop, target) ==
    Ticket("bracket", trig, Param(s, lossLimit, lossStop, 1), Param(s, target, 0, 1))
TrailingStopTicket(trig, n) == Ticket("trailing_stop", trig, Param("sell", 0, n, 0), NoParam)
TrailingBracketTicket(trig, stop, target) ==
    Ticket("trailing_bracket", trig, Param("sell", 0, stop, 0), Param("sell", target, 0, 0))
With(p, t) == Order(p, t.cond, t.trig, t.p1, t.p2)

Trailing(cond) == cond \in {"trailing_stop", "trailing_bracket"}
Linked(cond) == cond \in {"oco", "bracket_active", "trailing_bracket_active"}

\* the condition of a resting order; active holds the exits that an entry
\* order has in the book (active1 its stop, active2 its target)
Condition(cond, trig, link, nticks, p1, p2) ==
    [cond |-> cond, trig |-> trig, link |-> link, nticks |-> nticks,
     p1 |-> p1, p2 |-> p2, active |-> <<0, 0>>]
NoCondition == Condition("none", "none", 0, 0, NoParam, NoParam)
AdvOf(id) == IF id \in DOMAIN adv THEN adv[id] ELSE NoCondition

NoSwing == [old |-> 0, high |-> 0, low |-> 0]
NoHold == [id |-> 0, sz |-> 0, side |-> "buy", limit |-> 0]

AdvInit ==
    /\ Init
    /\ adv = [i \in {} |-> NoCondition]
    /\ trailing = [s \in Sides |-> {}]
    /\ swing = NoSwing
    /\ hit = 0
    /\ adjusting = {}
    /\ held = NoHold
    /\ cchain = <<>>

-----------------------------------------------------------------------------
(* Checks of a new order: the constructor of order_queue_elem,              *)
(* _build_price_params, _check_limit_order and _check_nticks.               *)

\* n ticks away from p on the side where a stop of side s goes; a limit order
\* goes to the other one (_plevel_offset, which throws off the book)
Offset(s, n, p) == IF s = "buy" THEN p + n ELSE p - n
InBook(p) == p.limit \in Book \cup {0} /\ p.stop \in Book \cup {0}

LimitOrdersApart(e, p) ==
    /\ OrderType(p) # "market"
    /\ OrderType(p) = "limit" =>
           /\ p.limit # e.limit
           /\ p.side # e.side => Gt(p.side, e.limit, p.limit)

NTicksFit(e, from) ==
    /\ Offset(Opp(e.side), e.p1.stop, from) \in Book
    /\ e.cond = "trailing_bracket" => Offset(e.side, e.p2.limit, from) \in Book

\* what the build functions of a ticket refuse
BracketFits(stop, target) ==
    /\ stop.stop # 0 /\ target.limit # 0
    /\ Gt(stop.side, stop.stop, target.limit)
    /\ stop.limit # 0 => Geq(stop.side, stop.limit, stop.stop)

TicketBuilt(e) ==
    /\ e.cond \in {"oco", "oto"} => e.p1.sz # 0
    /\ e.cond = "oco" => OrderType(e.p1) # "market"
    /\ e.cond = "bracket" => BracketFits(e.p1, e.p2)
    /\ Trailing(e.cond) => e.p1.stop # 0
    /\ e.cond = "trailing_bracket" => e.p2.limit # 0

\* _build_advanced_params: exits have the size of their entry, and those that
\* are given in ticks the other side
WithParams(e) ==
    LET exit(p) == IF Trailing(e.cond) THEN [p EXCEPT !.side = Opp(e.side), !.sz = e.sz]
                   ELSE [p EXCEPT !.sz = e.sz]
    IN  IF e.cond \in {"bracket", "trailing_bracket"}
        THEN [e EXCEPT !.p1 = exit(@), !.p2 = exit(@)]
        ELSE IF e.cond = "trailing_stop" THEN [e EXCEPT !.p1 = exit(@)]
        ELSE e

\* _build_nticks_params
TicksInBook(p) == p.stop <= end - 1 - beg /\ p.limit <= end - 1 - beg

Accepted(e) ==
    /\ InBook(e)
    /\ TicketBuilt(e)
    /\ IF Trailing(e.cond) THEN TicksInBook(e.p1) /\ TicksInBook(e.p2)
       ELSE InBook(e.p1) /\ InBook(e.p2)
    /\ e.cond = "oco" => e.type # "market"
    /\ e.type = "limit" =>
           /\ e.cond = "bracket" => LimitOrdersApart(e, e.p2)
           /\ e.cond = "oco" => LimitOrdersApart(e, e.p1)
           /\ Trailing(e.cond) => NTicksFit(e, e.limit)
    /\ e.type = "stop" =>
           /\ e.cond \notin {"none", "trailing_stop", "trailing_bracket"} =>
                  e.p1.stop # e.stop
           /\ Trailing(e.cond) =>
                  /\ NTicksFit(e, e.stop)
                  /\ e.limit # 0 => NTicksFit(e, e.limit)

-----------------------------------------------------------------------------
(* Sizes, links and pulls. *)

SetAdv(new) ==
    adv' = [x \in DOMAIN adv \cup DOMAIN new |-> IF x \in DOMAIN new THEN new[x] ELSE adv[x]]
DropAdv(ids) == adv' = Restrict(adv, DOMAIN adv \ ids)

Resize(chain, ids, n) ==
    [i \in DOMAIN chain |->
        IF chain[i].id \in ids THEN [chain[i] EXCEPT !.sz = @ + n] ELSE chain[i]]

\* chain_iter_wrap::incr_size and decr_size of the orders ids
ChangeSizes(ids, n) ==
    LET cached(type, l) ==
            {id \in ids \cap DOMAIN id_cache : id_cache[id] = [type |-> type, p |-> l]}
    IN  /\ limits' = [l \in Levels |-> Resize(limits[l], cached("limit", l), n)]
        /\ stops' = [l \in Levels |-> Resize(stops[l], cached("stop", l), n)]

\* _trailing_stop_erase
TrailingErase(id, s) == trailing' = [trailing EXCEPT ![s] = @ \ {id}]

\* the order with this id on its stop chain, and its side
RestingStop(id) ==
    LET chain == stops[id_cache[id].p]
    IN  chain[CHOOSE i \in 1 .. Len(chain) : chain[i].id = id]
StopSide(id) == RestingStop(id).side

\* _pull_order(id, false), which does nothing for an id that is not cached;
\* drop are the orders that lose their condition with it
PullAnd(id, drop) ==
    IF id \in DOMAIN id_cache
    THEN /\ Pull(id)
         /\ IF id_cache[id].type = "stop"
            THEN TrailingErase(id, StopSide(id)) ELSE UNCHANGED trailing
         /\ DropAdv(drop \cup {id})
    ELSE /\ UNCHANGED <<book, pointers, trailing>>
         /\ DropAdv(drop)

\* Mutant: the other order of the link stays.
CancelNothing(id) ==
    /\ UNCHANGED <<book, pointers, trailing>>
    /\ DropAdv({id})

\* _handle_OCO: the linked order is pulled and the condition dropped
CancelLinked(id) == PullAnd(adv[id].link, {id})

-----------------------------------------------------------------------------
(* Contingent orders, pushed to the internal queue. *)

Push(es) ==
    /\ internal_queue' = internal_queue \o es
    /\ last_id' = last_id + Len(es)

\* _exec_OTO_order
OtoOrder(p, id) == Elem(p, id, "none", "none", NoParam, NoParam, 0)

TargetLevel(cond, p2) ==
    IF cond = "bracket" THEN p2.limit ELSE Offset(Opp(p2.side), p2.limit, last)

\* _exec_bracket_order: the target, which carries the stop order
BracketOrder(cond, p1, p2, n, id, parent) ==
    Elem(Param(p2.side, TargetLevel(cond, p2), 0, n), id,
         IF cond = "bracket" THEN "bracket_active" ELSE "trailing_bracket_active",
         "partial", [p1 EXCEPT !.sz = n], NoParam, parent)

\* _exec_TRAILING_STOP_order
TrailingStopOrder(p1, n, id, parent) ==
    [Elem(Param(p1.side, 0, 0, n), id, "trailing_stop_active", "partial",
          [p1 EXCEPT !.sz = n], NoParam, parent) EXCEPT !.type = "stop"]

\* what an entry order with condition a issues when n of it has filled
ContingentOrder(a, n, id, parent) ==
    IF a.cond = "trailing_stop" THEN TrailingStopOrder(a.p1, n, id, parent)
    ELSE BracketOrder(a.cond, a.p1, a.p2, n, id, parent)

\* an exception: the handler empties the internal queue
Abort ==
    /\ internal_queue' = <<>>
    /\ cur' = NoOrder
    /\ hit' = 0
    /\ adjusting' = {}
    /\ held' = NoHold
    /\ cchain' = <<>>
    /\ swing' = NoSwing
    /\ scan' = 0
    /\ pc' = "idle"

-----------------------------------------------------------------------------
(* Clients. *)

InsertAdvOrder(e) ==
    /\ pc = "idle"
    /\ Accepted(e)
    /\ StartOrder(WithParams(e))
    /\ UNCHANGED <<book, pointers, last, beg, end, total_volume,
                   need_check_for_stops, internal_queue, scan, adv_vars>>

\* _pull_order(id, true): the order, then the one linked with it
PullAdvOrder(id) ==
    /\ pc = "idle"
    /\ "pull" \in Calls
    /\ PullAnd(id, {})
    /\ IF Linked(AdvOf(id).cond)
       THEN hit' = adv[id].link /\ pc' = "pull_linked"
       ELSE UNCHANGED <<hit, pc>>
    /\ UNCHANGED <<last, beg, end, last_id, total_volume, need_check_for_stops,
                   internal_queue, cur, scan, swing, adjusting, held, cchain>>

\* the pull and the insert of a replace.  The new id is taken here, although
\* the code takes it after the linked order is pulled: no pull reads last_id.
ReplaceAdvOrder(id, e) ==
    /\ pc = "idle"
    /\ "replace" \in Calls
    /\ Accepted(e)
    /\ last_id < MaxId
    /\ last_id' = last_id + 1
    /\ cur' = [WithParams(e) EXCEPT !.id = last_id + 1]
    /\ PullAnd(id, {})
    /\ IF Linked(AdvOf(id).cond)
       THEN hit' = adv[id].link /\ pc' = "pull_linked"
       ELSE pc' = "route" /\ UNCHANGED hit
    /\ UNCHANGED <<last, beg, end, total_volume, need_check_for_stops,
                   internal_queue, scan, swing, adjusting, held, cchain>>

PullLinkedOrder ==
    /\ pc = "pull_linked"
    /\ PullAnd(hit, {})
    /\ hit' = 0
    /\ pc' = IF cur = NoOrder THEN "idle" ELSE "route"
    /\ UNCHANGED <<last, beg, end, last_id, total_volume, need_check_for_stops,
                   internal_queue, cur, scan, swing, adjusting, held, cchain>>

-----------------------------------------------------------------------------
(* cur trades.  _route_advanced_order sends every order but an active       *)
(* trailing stop to _route_basic_order first.                               *)

ActiveStop(e) == e.cond = "trailing_stop_active"

RouteToBook ==
    /\ pc = "route"
    /\ cur.type # "stop"
    /\ IF cur.type = "market" \/ IsTradable(cur)
       THEN /\ pc' = "trade"
            /\ swing' = [old |-> last, high |-> last, low |-> last]
       ELSE /\ pc' = "settle"
            /\ UNCHANGED swing
    /\ UNCHANGED <<book, pointers, last, beg, end, last_id, total_volume,
                   need_check_for_stops, internal_queue, cur, scan, adv,
                   trailing, hit, adjusting, held, cchain>>

PushStop(bndl, p) ==
    /\ stops' = ChainEmplace(stops, p, bndl)
    /\ Emplace(bndl.id, [type |-> "stop", p |-> p])
    /\ StopAfterInsert(bndl.side, p)

\* _insert_stop_order
RouteToStops ==
    /\ pc = "route"
    /\ cur.type = "stop"
    /\ ~ ActiveStop(cur)
    /\ PushStop([id |-> cur.id, sz |-> cur.sz, side |-> cur.side,
                 limit |-> cur.limit], cur.stop)
    /\ pc' = "condition"
    /\ UNCHANGED <<limits, best, worst, last, beg, end, last_id, total_volume,
                   need_check_for_stops, internal_queue, cur, scan, adv_vars>>

\* _trade_has_occured for cur and the order in front
Match ==
    LET p == best[Opp(cur.side)]
        amount == Min({cur.sz, Head(limits[p]).sz})
    IN  /\ pc = "trade"
        /\ KeepsTrading(cur)
        /\ TradeHasOccured(p, amount)
        /\ hit' = amount
        /\ swing' = [swing EXCEPT !.high = Max({@, p}), !.low = Min({@, p})]
        /\ pc' = "matched"
        /\ UNCHANGED <<book, pointers, beg, end, last_id, internal_queue, scan,
                       adv, trailing, adjusting, held, cchain>>

FrontOrder == Head(limits[best[Opp(cur.side)]])

\* the front order has a condition that this match triggers
Triggers ==
    LET a == AdvOf(FrontOrder.id)
    IN  a.cond # "none" /\ (a.trig = "partial" \/ hit = FrontOrder.sz)

\* _handle_advanced_order_cancel: an OCO order on any fill that triggers it,
\* an exit of a bracket when it is filled
Cancels ==
    AdvOf(FrontOrder.id).cond = "oco" \/ (Linked(AdvOf(FrontOrder.id).cond) /\ hit = FrontOrder.sz)

CancelOther ==
    /\ pc = "matched"
    /\ Triggers
    /\ Cancels
    /\ CancelLinked(FrontOrder.id)
    /\ pc' = "reduce"
    /\ UNCHANGED <<last, beg, end, last_id, total_volume, need_check_for_stops,
                   internal_queue, cur, scan, swing, hit, adjusting, held,
                   cchain>>

\* _handle_OTO
TriggerOther ==
    /\ pc = "matched"
    /\ Triggers
    /\ AdvOf(FrontOrder.id).cond = "oto"
    /\ Push(<<OtoOrder(adv[FrontOrder.id].p1, last_id + 1)>>)
    /\ DropAdv({FrontOrder.id})
    /\ pc' = "reduce"
    /\ UNCHANGED <<book, pointers, last, beg, end, total_volume,
                   need_check_for_stops, cur, scan, trailing, swing, hit,
                   adjusting, held, cchain>>

\* the exits of an entry order that are in the book
ActiveExits(a) == {a.active[i] : i \in {1, 2}} \ {0}
ExitsInBook(a) == ActiveExits(a) # {} /\ ActiveExits(a) \subseteq DOMAIN id_cache

\* Mutant: another fill of the entry changes the stop only.
GrowExitsStopOnly ==
    LET a == AdvOf(FrontOrder.id)
    IN  /\ pc = "matched"
        /\ Triggers
        /\ a.cond \in {"bracket", "trailing_bracket", "trailing_stop"}
        /\ ExitsInBook(a)
        /\ ChangeSizes({a.active[1]}, hit)
        /\ pc' = "reduce"
        /\ UNCHANGED <<id_cache, pointers, last, beg, end, last_id, total_volume,
                       need_check_for_stops, internal_queue, cur, scan, adv_vars>>

\* _handle_bracket and _handle_TRAILING_STOP: exits in the book grow ...
GrowExits ==
    LET a == AdvOf(FrontOrder.id)
    IN  /\ pc = "matched"
        /\ Triggers
        /\ a.cond \in {"bracket", "trailing_bracket", "trailing_stop"}
        /\ ExitsInBook(a)
        /\ ChangeSizes(ActiveExits(a), hit)
        /\ pc' = "reduce"
        /\ UNCHANGED <<id_cache, pointers, last, beg, end, last_id, total_volume,
                       need_check_for_stops, internal_queue, cur, scan, adv_vars>>

\* ... or new ones are issued
IssueExits ==
    LET a == AdvOf(FrontOrder.id)
    IN  /\ pc = "matched"
        /\ Triggers
        /\ a.cond \in {"bracket", "trailing_bracket", "trailing_stop"}
        /\ ~ ExitsInBook(a)
        /\ Push(<<ContingentOrder(a, hit, last_id + 1, FrontOrder.id)>>)
        /\ pc' = "reduce"
        /\ UNCHANGED <<book, pointers, last, beg, end, total_volume,
                       need_check_for_stops, cur, scan, adv_vars>>

\* _handle_active_bracket: the target filled in part, so the stop shrinks ...
ShrinkOtherExit ==
    LET a == AdvOf(FrontOrder.id)
    IN  /\ pc = "matched"
        /\ Triggers
        /\ ~ Cancels
        /\ a.cond \in {"bracket_active", "trailing_bracket_active"}
        /\ a.link \in DOMAIN id_cache
        /\ ChangeSizes({a.link}, - hit)
        /\ pc' = "reduce"
        /\ UNCHANGED <<id_cache, pointers, last, beg, end, last_id, total_volume,
                       need_check_for_stops, internal_queue, cur, scan, adv_vars>>

\* ... or is gone: _from_cache throws in the middle of _hit_chain, which has
\* then neither reduced the order in front nor erased those it has filled.
\* The model follows the book no further than this place.
TearTrade ==
    LET a == AdvOf(FrontOrder.id)
    IN  /\ pc = "matched"
        /\ Triggers
        /\ ~ Cancels
        /\ a.cond \in {"bracket_active", "trailing_bracket_active"}
        /\ internal_queue' = <<>>
        /\ pc' = "torn"
        /\ UNCHANGED <<book, pointers, last, beg, end, last_id, total_volume,
                       need_check_for_stops, cur, scan, adv_vars>>

AdjustOtherExit ==
    /\ pc = "matched"
    /\ IF AdvOf(FrontOrder.id).link \in DOMAIN id_cache
       THEN ShrinkOtherExit ELSE TearTrade

\* the end of the loop of _hit_chain: pos->sz -= amount
Reduce ==
    LET r == Opp(cur.side)
        p == best[r]
    IN  /\ pc = "reduce" \/ (pc = "matched" /\ ~ Triggers)
        /\ IF hit = FrontOrder.sz
           THEN /\ limits' = [limits EXCEPT ![p] = Tail(@)]
                /\ Erase({FrontOrder.id})
                /\ DropAdv({FrontOrder.id})
                /\ IF limits'[p] = <<>>
                   THEN FindNewBestInside(r, limits', worst[r])
                   ELSE UNCHANGED <<best, worst>>
           ELSE /\ limits' = [limits EXCEPT ![p][1].sz = @ - hit]
                /\ UNCHANGED <<id_cache, best, worst, adv>>
        /\ hit' = 0
        /\ pc' = "trade"
        /\ UNCHANGED <<stops, near, far, last, beg, end, last_id, total_volume,
                       need_check_for_stops, internal_queue, cur, scan,
                       trailing, swing, adjusting, held, cchain>>

-----------------------------------------------------------------------------
(* The trailing stops follow the high and the low of the trade. *)

Moves(s, p) == [id : trailing[s], side : {s}, from : {p}]

\* Mutant: sell stops follow the low, and buy stops the high.
MovesWithWrongExtreme ==
    (IF swing.low < swing.old THEN Moves("sell", swing.low) ELSE {})
        \cup (IF swing.high > swing.old THEN Moves("buy", swing.high) ELSE {})

\* what _trailing_stops_adjust is called for ...
StopsToMove ==
    (IF swing.high > swing.old THEN Moves("sell", swing.high) ELSE {})
        \cup (IF swing.low < swing.old THEN Moves("buy", swing.low) ELSE {})

\* ... in this order: the sell stops first, and each set by id
NextMove(m) ==
    /\ m \in adjusting
    /\ \A o \in adjusting : IF m.side = o.side THEN m.id <= o.id ELSE m.side = "sell"

LeaveLoop ==
    /\ pc = "trade"
    /\ ~ KeepsTrading(cur)
    /\ adjusting' = StopsToMove
    /\ swing' = NoSwing
    /\ pc' = "adjust"
    /\ UNCHANGED <<book, pointers, last, beg, end, last_id, total_volume,
                   need_check_for_stops, internal_queue, cur, scan, adv,
                   trailing, hit, held, cchain>>

\* _trailing_stop_adjust, its first half; chain<stop_chain_type>::pop throws
\* for an id that is not in the cache
LiftTrailingStop ==
    \E m \in adjusting :
        /\ pc = "adjust"
        /\ held = NoHold
        /\ NextMove(m)
        /\ IF m.id \in DOMAIN id_cache
           THEN /\ held' = RestingStop(m.id)
                /\ PopStop(m.id)
                /\ UNCHANGED <<internal_queue, cur, hit, adjusting, cchain,
                               swing, scan, pc>>
           ELSE Abort /\ UNCHANGED <<book, pointers>>
        /\ UNCHANGED <<last, beg, end, last_id, total_volume,
                       need_check_for_stops, adv, trailing>>

\* and its second half; _plevel_offset throws off the book
PlaceTrailingStop ==
    \E m \in adjusting :
        LET p == Offset(held.side, adv[held.id].nticks, m.from)
        IN  /\ pc = "adjust"
            /\ held # NoHold
            /\ NextMove(m)
            /\ IF p \in Book
               THEN /\ PushStop(held, p)
                    /\ adjusting' = adjusting \ {m}
                    /\ held' = NoHold
                    /\ UNCHANGED <<adv, internal_queue, cur, hit, cchain, swing,
                                   scan, pc>>
               ELSE /\ Abort
                    /\ DropAdv({held.id})
                    /\ UNCHANGED <<stops, id_cache, near, far>>
            /\ UNCHANGED <<limits, best, worst, last, beg, end, last_id,
                           total_volume, need_check_for_stops, trailing>>

LeaveTrade ==
    /\ pc = "adjust"
    /\ adjusting = {}
    /\ IF need_check_for_stops
       THEN pc' = "scan_buy" /\ scan' = near["buy"]
       ELSE pc' = "settle" /\ UNCHANGED scan
    /\ UNCHANGED <<book, pointers, last, beg, end, last_id, total_volume,
                   need_check_for_stops, internal_queue, cur, adv_vars>>

-----------------------------------------------------------------------------
(* _handle_triggered_stop_chain, order by order. *)

TakeChain(s, at, handling) ==
    /\ pc = at
    /\ Geq(s, last, scan)
    /\ cchain' = stops[scan]
    /\ stops' = [stops EXCEPT ![scan] = <<>>]
    /\ StopAfterTrigger(s, scan)
    /\ pc' = handling
    /\ UNCHANGED <<limits, id_cache, best, worst, last, beg, end, last_id,
                   total_volume, need_check_for_stops, internal_queue, cur,
                   scan, adv, trailing, swing, hit, adjusting, held>>

TakeBuyChain == TakeChain("buy", "scan_buy", "chain_buy")
TakeSellChain == TakeChain("sell", "scan_sell", "chain_sell")

Handling == pc \in {"chain_buy", "chain_sell"} /\ cchain # <<>>
ScanSide == IF pc = "chain_buy" THEN "buy" ELSE "sell"

\* the linked order is pulled first
CancelForStop ==
    /\ Handling
    /\ Linked(AdvOf(Head(cchain).id).cond)
    /\ CancelLinked(Head(cchain).id)
    /\ UNCHANGED <<last, beg, end, last_id, total_volume, need_check_for_stops,
                   internal_queue, cur, scan, pc, swing, hit, adjusting, held,
                   cchain>>

\* what a triggered stop pushes: the order it becomes, which takes a trailing
\* condition with it, and for other conditions the orders they trigger, now
\* and not when the new order fills
Issued(b, a) ==
    LET carried == IF Trailing(a.cond) THEN a ELSE NoCondition
        entry == [Elem(Param(b.side, b.limit, 0, b.sz), last_id + 1,
                       carried.cond, carried.trig, carried.p1, carried.p2, b.id)
                  EXCEPT !.type = IF b.limit # 0 THEN "limit" ELSE "market"]
    IN  <<entry>> \o
        (IF a.cond = "oto" THEN <<OtoOrder(a.p1, last_id + 2)>>
         ELSE IF a.cond = "bracket"
              THEN <<BracketOrder(a.cond, a.p1, a.p2, b.sz, last_id + 2, b.id)>>
              ELSE <<>>)

\* _trailing_stop_erase is called with the side of the loop
TriggerHead ==
    LET b == Head(cchain)
        a == AdvOf(b.id)
    IN  /\ Handling
        /\ ~ Linked(a.cond)
        /\ TrailingErase(b.id, ScanSide)
        /\ Push(Issued(b, a))
        /\ Erase({b.id})
        /\ DropAdv({b.id})
        /\ cchain' = Tail(cchain)
        /\ UNCHANGED <<limits, stops, pointers, last, beg, end, total_volume,
                       need_check_for_stops, cur, scan, pc, swing, hit,
                       adjusting, held>>

EndChain ==
    /\ pc \in {"chain_buy", "chain_sell"}
    /\ cchain = <<>>
    /\ scan' = Inc(ScanSide, scan)
    /\ pc' = IF pc = "chain_buy" THEN "scan_buy" ELSE "scan_sell"
    /\ UNCHANGED <<book, pointers, last, beg, end, last_id, total_volume,
                   need_check_for_stops, internal_queue, cur, adv_vars>>

-----------------------------------------------------------------------------
(* After _route_basic_order: cur has filled, rests or throws ... *)

Settle ==
    /\ pc = "settle"
    /\ IF cur.sz = 0
       THEN /\ pc' = "condition"
            /\ UNCHANGED <<limits, id_cache, best, worst>>
       ELSE /\ cur.type = "limit"
            /\ limits' = ChainEmplace(limits, cur.limit,
                            [id |-> cur.id, sz |-> cur.sz, side |-> cur.side])
            /\ Emplace(cur.id, [type |-> "limit", p |-> cur.limit])
            /\ LimitAfterInsert(cur.side, cur.limit)
            /\ pc' = "condition"
    /\ UNCHANGED <<stops, near, far, last, beg, end, last_id, total_volume,
                   need_check_for_stops, internal_queue, cur, scan, adv_vars>>

ThrowUnfilled ==
    /\ pc = "settle"
    /\ cur.sz > 0
    /\ cur.type = "market"
    /\ Abort
    /\ UNCHANGED <<book, pointers, last, beg, end, last_id, total_volume,
                   need_check_for_stops, adv, trailing>>

(* ... and then its condition, which goes with it into the book, is met or  *)
(* changes what rests.                                                      *)

FilledSize == cur.of - cur.sz
Fills == FilledSize = cur.of \/ (cur.trig = "partial" /\ FilledSize > 0)
Own == Condition(cur.cond, cur.trig, 0, 0, cur.p1, cur.p2)

Done == cur' = NoOrder /\ pc' = "drain"

ConcludeBasic ==
    /\ pc = "condition"
    /\ cur.cond = "none"
    /\ Done
    /\ UNCHANGED <<book, pointers, last, beg, end, last_id, total_volume,
                   need_check_for_stops, internal_queue, scan, adv_vars>>

\* _insert_OTO_order
ConcludeOto ==
    /\ pc = "condition"
    /\ cur.cond = "oto"
    /\ IF Fills THEN Push(<<OtoOrder(cur.p1, last_id + 1)>>) /\ UNCHANGED adv
       ELSE SetAdv([x \in {cur.id} |-> Own]) /\ UNCHANGED <<internal_queue, last_id>>
    /\ Done
    /\ UNCHANGED <<book, pointers, last, beg, end, total_volume,
                   need_check_for_stops, scan, trailing, swing, hit, adjusting,
                   held, cchain>>

\* _insert_OCO_order: the second order is injected unless the first filled
InjectSecond ==
    /\ pc = "condition"
    /\ cur.cond = "oco"
    /\ IF Fills THEN Done /\ UNCHANGED last_id
       ELSE /\ last_id' = last_id + 1
            /\ cur' = Elem(cur.p1, last_id + 1, "oco_second", cur.trig,
                           NoParam, NoParam, cur.id)
            /\ pc' = "route"
    /\ UNCHANGED <<book, pointers, last, beg, end, total_volume,
                   need_check_for_stops, internal_queue, scan, adv_vars>>

\* the two orders are linked, or the first is pulled.  The first may be gone,
\* triggered by what the second traded: _id_cache.at throws
ConcludeOco ==
    LET link(id) == Condition("oco", cur.trig, id, 0, NoParam, NoParam)
    IN  /\ pc = "condition"
        /\ cur.cond = "oco_second"
        /\ IF Fills THEN /\ PullAnd(cur.parent, {})
                         /\ Done
                         /\ UNCHANGED <<internal_queue, scan, swing, hit,
                                        adjusting, held, cchain>>
           ELSE IF cur.parent \in DOMAIN id_cache
           THEN /\ SetAdv([x \in {cur.id, cur.parent} |->
                              link(IF x = cur.id THEN cur.parent ELSE cur.id)])
                /\ Done
                /\ UNCHANGED <<book, pointers, internal_queue, scan, trailing,
                               swing, hit, adjusting, held, cchain>>
           ELSE Abort /\ UNCHANGED <<book, pointers, adv, trailing>>
        /\ UNCHANGED <<last, beg, end, last_id, total_volume, need_check_for_stops>>

\* _insert_bracket_order and _insert_TRAILING_STOP_order; a target n ticks
\* from the last trade may be off the book when cur is a market order
ConcludeEntry ==
    LET rest == [Own EXCEPT !.p1.sz = @ - FilledSize]
    IN  /\ pc = "condition"
        /\ cur.cond \in {"bracket", "trailing_bracket", "trailing_stop"}
        /\ IF Fills /\ cur.cond = "trailing_bracket"
                    /\ TargetLevel(cur.cond, cur.p2) \notin Book
           THEN Abort /\ UNCHANGED <<adv, last_id>>
           ELSE /\ IF Fills
                   THEN Push(<<ContingentOrder(Own, FilledSize, last_id + 1, cur.id)>>)
                   ELSE UNCHANGED <<internal_queue, last_id>>
                /\ IF cur.sz > 0 THEN SetAdv([x \in {cur.id} |-> rest]) ELSE UNCHANGED adv
                /\ Done
                /\ UNCHANGED <<scan, swing, hit, adjusting, held, cchain>>
        /\ UNCHANGED <<book, pointers, last, beg, end, total_volume,
                       need_check_for_stops, trailing>>

\* an exit tells its entry order, when that still rests, where it is
Tell(parent, exits, new) ==
    adv' = [x \in DOMAIN adv \cup DOMAIN new |->
               IF x \in DOMAIN new THEN new[x]
               ELSE IF x = parent THEN [adv[x] EXCEPT !.active = exits] ELSE adv[x]]

StopLevel(p1, trails) == IF trails THEN Offset(p1.side, p1.stop, last) ELSE p1.stop

\* _insert_active_bracket_order: cur is the target; unless it has filled, the
\* stop goes to its chain and the two are linked
ConcludeTarget ==
    LET trails == cur.cond = "trailing_bracket_active"
        id2 == last_id + 1
        p == StopLevel(cur.p1, trails)
        exit(id, n) == Condition(cur.cond, cur.trig, id, n, NoParam, NoParam)
    IN  /\ pc = "condition"
        /\ cur.cond \in {"bracket_active", "trailing_bracket_active"}
        /\ cur.sz > 0
        /\ p \in Book
        /\ last_id' = id2
        /\ PushStop([id |-> id2, sz |-> cur.sz, side |-> cur.p1.side,
                     limit |-> IF trails THEN 0 ELSE cur.p1.limit], p)
        /\ Tell(cur.parent, <<id2, cur.id>>,
                [x \in {cur.id, id2} |->
                    IF x = cur.id THEN exit(id2, 0)
                    ELSE exit(cur.id, IF trails THEN cur.p1.stop ELSE 0)])
        /\ trailing' = IF trails THEN [trailing EXCEPT ![cur.p1.side] = @ \cup {id2}]
                       ELSE trailing
        /\ Done
        /\ UNCHANGED <<limits, best, worst, last, beg, end, total_volume,
                       need_check_for_stops, internal_queue, scan, swing, hit,
                       adjusting, held, cchain>>

\* a target that has filled needs no stop; a stop level that is off the book
\* is an error, after which the target rests alone
ConcludeTargetAlone ==
    LET trails == cur.cond = "trailing_bracket_active"
    IN  /\ pc = "condition"
        /\ cur.cond \in {"bracket_active", "trailing_bracket_active"}
        /\ cur.sz = 0 \/ StopLevel(cur.p1, trails) \notin Book
        /\ IF cur.sz = 0
           THEN Done /\ UNCHANGED <<internal_queue, scan, swing, hit, adjusting,
                                    held, cchain>>
           ELSE Abort
        /\ UNCHANGED <<book, pointers, last, beg, end, last_id, total_volume,
                       need_check_for_stops, adv, trailing>>

\* _insert_TRAILING_STOP_ACTIVE_order
InsertTrailingStop ==
    LET p == StopLevel(cur.p1, TRUE)
    IN  /\ pc = "route"
        /\ ActiveStop(cur)
        /\ IF p \in Book
           THEN /\ PushStop([id |-> cur.id, sz |-> cur.sz, side |-> cur.side,
                             limit |-> 0], p)
                /\ Tell(cur.parent, <<cur.id, 0>>,
                        [x \in {cur.id} |-> Condition(cur.cond, cur.trig, 0, cur.p1.stop,
                                                      NoParam, NoParam)])
                /\ trailing' = [trailing EXCEPT ![cur.side] = @ \cup {cur.id}]
                /\ Done
                /\ UNCHANGED <<internal_queue, scan, swing, hit, adjusting,
                               held, cchain>>
           ELSE Abort /\ UNCHANGED <<stops, id_cache, near, far, adv, trailing>>
        /\ UNCHANGED <<limits, best, worst, last, beg, end, last_id,
                       total_volume, need_check_for_stops>>

AdvClient ==
    \/ \E e \in AdvOrders : InsertAdvOrder(e)
    \/ \E id \in DOMAIN id_cache : PullAdvOrder(id)
    \/ \E id \in DOMAIN id_cache, e \in AdvOrders : ReplaceAdvOrder(id, e)

AdvWindow ==
    \/ PullLinkedOrder \/ RouteToBook \/ RouteToStops
    \/ Match \/ CancelOther \/ TriggerOther \/ GrowExits \/ IssueExits
    \/ AdjustOtherExit \/ Reduce
    \/ LeaveLoop \/ LiftTrailingStop \/ PlaceTrailingStop \/ LeaveTrade
    \/ TakeBuyChain \/ TakeSellChain \/ CancelForStop \/ TriggerHead \/ EndChain
    \/ (EndBuyScan \/ EndSellScan) /\ UNCHANGED adv_vars
    \/ Settle \/ ThrowUnfilled
    \/ ConcludeBasic \/ ConcludeOto \/ InjectSecond \/ ConcludeOco
    \/ ConcludeEntry \/ ConcludeTarget \/ ConcludeTargetAlone
    \/ InsertTrailingStop
    \/ (NextInternal \/ CloseWindow) /\ UNCHANGED adv_vars

AdvNext == AdvClient \/ AdvWindow

AdvSpec == AdvInit /\ [][AdvNext]_bvars /\ WF_bvars(AdvWindow)
-----------------------------------------------------------------------------
(* Properties. *)

SizeOf(id) ==
    LET chain == IF id_cache[id].type = "limit" THEN limits[id_cache[id].p]
                 ELSE stops[id_cache[id].p]
    IN  chain[CHOOSE i \in 1 .. Len(chain) : chain[i].id = id].sz

\* Trailing stops that an exception took out of the book for good:
\* _trailing_stop_adjust pops the stop and throws before it is pushed again.
Lost == (UNION {trailing[s] : s \in Sides}) \ DOMAIN id_cache

\* A condition belongs to an order that rests, and two orders are linked with
\* each other or not at all, whichever of them fills, triggers, is pulled or
\* fails on its way into the book: _handle_active_bracket follows the link
\* without looking.  Only a lost trailing stop can leave an order behind that
\* is linked with nothing, and only such an order's fill leave a trade half way.
LinksAgree ==
    /\ pc = "torn" => AdvOf(FrontOrder.id).link \in Lost
    /\ pc = "idle" =>
        /\ DOMAIN adv \subseteq DOMAIN id_cache
        /\ \A id \in DOMAIN adv : Linked(adv[id].cond) =>
               \/ adv[id].link \in Lost
               \/ /\ adv[id].link \in DOMAIN adv
                  /\ adv[adv[id].link].cond = adv[id].cond
                  /\ adv[adv[id].link].link = id

\* README, Dynamic Brackets: "If the market moves up and fills 100 at the
\* target the stop will adjust to 300 ... the target and stops will adjust to
\* 900 each."  The two exits of a bracket always have the same size.
ExitsHaveOneSize ==
    pc \in {"idle", "drain"} =>
        \A id \in DOMAIN adv :
            /\ adv[id].cond \in {"bracket_active", "trailing_bracket_active"}
            /\ adv[id].link \in DOMAIN id_cache
            => SizeOf(id) = SizeOf(adv[id].link)

\* "SHOULDN'T THROW": while one exit of a bracket trades, the other one is in
\* the book, so no exception leaves a trade half way.
ExitsAreFound == pc # "torn"

\* A trailing stop is never further behind the last price than the ticks it
\* was given: between windows, whatever moved last, and whatever moved,
\* triggered or resized the stop.  And a stop that last has reached is gone.
\* (The exception that loses a stop also ends the moving of the others.)
TrailingStopsFollow ==
    pc = "idle" /\ Lost = {} =>
        \A id \in DOMAIN adv :
            adv[id].nticks # 0 /\ id_cache[id].type = "stop" =>
                LET s == StopSide(id)
                    p == id_cache[id].p
                IN  /\ Geq(s, Offset(s, adv[id].nticks, last), p)
                    /\ Gt(s, p, last)

\* Every window closes, although exits that trigger may trade and trigger in
\* turn; an exception in the middle of a trade closes it too.
AdvWindowCloses == pc \notin {"idle", "torn"} ~> pc \in {"idle", "torn"}
=============================================================================
