------------------------------ MODULE AonBook ------------------------------
(***************************************************************************)
(* The matching engine with all-or-none (AON) and fill-or-kill (FOK)       *)
(* orders: _trade with both kinds of chains, the passes over old AON       *)
(* orders before and after a new order trades, _limit_is_fillable and the  *)
(* windows of exec::aon.                                                   *)
(*                                                                         *)
(* An AON order rests on a limit chain, behind an order that is not AON,   *)
(* or on one of the two AON chains of its level, where buys may be at or   *)
(* above the ask.  aon_win bounds the AON chains of a side:                *)
(*     near    _high_buy_aon / _low_sell_aon   (closest to trading)        *)
(*     far     _low_buy_aon  / _high_sell_aon                              *)
(*                                                                         *)
(* _trade runs for the incoming order cur (phase "main"), and before and   *)
(* after that for old AON orders (phases "pre" and "post"); taker is the   *)
(* order it runs for.  No client of this module sends stop orders, so the  *)
(* search for triggered stops at the end of _trade only resets its flag.   *)
(***************************************************************************)
EXTENDS Orderbook, FiniteSetsExt

CONSTANTS
    LimitSides, MarketSides, AonSides, FokSides,  \* sides clients send orders of
    FokConds   \* "fok" (fills whole), "fok_partial" (fills at all)

ASSUME KindsAssumption ==
    /\ LimitSides \subseteq Sides
    /\ MarketSides \subseteq Sides
    /\ AonSides \subseteq Sides
    /\ FokSides \subseteq Sides
    /\ FokConds \subseteq {"fok", "fok_partial"}

VARIABLES
    aons,      \* side -> level -> AON chain (aon_buys and aon_sells)
    aon_win,   \* side -> window of its AON chains
    phase,     \* which call of _trade is running, or is next
    overlaps,  \* what the loop of the pass has still to visit
    taker,     \* the order _trade runs for; taker.sz is what is unfilled
    at, until  \* loop variable p of _trade, and its end

aon_book == <<aons, aon_win>>
aon_vars == <<aons, aon_win, phase, overlaps, taker, at, until>>
avars == <<vars, aon_vars>>
stop_vars == <<stops, near, far, beg, end, internal_queue, scan>>

NoTaker == [id |-> 0, side |-> "buy", lim |-> 0, sz |-> 0]

AonInit ==
    /\ Init
    /\ aons = [s \in Sides |-> [l \in Levels |-> <<>>]]
    /\ aon_win = [s \in Sides |-> [near |-> NullLow(s), far |-> NullHigh(s)]]
    /\ phase = "pre"
    /\ overlaps = <<>>
    /\ taker = NoTaker
    /\ at = 0
    /\ until = 0

Cond(e) == IF "cond" \in DOMAIN e THEN e.cond ELSE "none"
IsAon(e) == Cond(e) = "aon"

-----------------------------------------------------------------------------
(* The two windows of a side together: exec::core and exec::aon. *)

Nearer(s, p, q) == IF Geq(s, p, q) THEN p ELSE q
Farther(s, p, q) == IF Geq(s, p, q) THEN q ELSE p
Away(s, p) == Inc(Opp(s), p)

\* exec::core<>::begin, ::end and ::next_or_jump
CoreBegin(s) == Nearer(s, best[s], aon_win[s].near)
CoreEnd(s) == Farther(s, worst[s], aon_win[s].far)
NextOrJump(s, p, begin) == Farther(s, Away(s, p), begin)

InAonWindow(s, p) == Geq(s, aon_win[s].near, p) /\ Geq(s, p, aon_win[s].far)
InLimitWindow(s, p) == Geq(s, best[s], p) /\ Geq(s, p, worst[s])

\* Mutant: an AON order does not move the near end of its window.
WidenFarOnly(s, w, p) == [w EXCEPT !.far = Farther(s, @, p)]

\* exec::aon<>::adjust_state_after_insert
Widen(s, w, p) == [near |-> Nearer(s, w.near, p), far |-> Farther(s, w.far, p)]

\* exec::aon<>::adjust_state_after_pull: the chain of side s at p is empty.
\* The loop at the far end stops at _high_sell_aon for buys, and at the near
\* end for sells.
Narrow(s, chains, p) ==
    LET w == aon_win[s]
        First(d, from, to) ==  \* the loop: the first chain, or one past to
            LET hit == {l \in Book : chains[l] # <<>> /\ Geq(d, from, l) /\ Geq(d, l, to)}
            IN  IF Gt(d, to, from) THEN from
                ELSE IF hit = {} THEN Away(d, to)
                ELSE CHOOSE l \in hit : \A m \in hit : Geq(d, l, m)
        bound == IF s = "buy" THEN aon_win["sell"].far ELSE w.near
        n == IF p = w.near THEN First(s, p, w.far) ELSE w.near
        f == IF p # w.near /\ p = w.far THEN First(Opp(s), p, bound) ELSE w.far
    IN  IF Gt(s, f, n) THEN [near |-> NullLow(s), far |-> NullHigh(s)]
        ELSE [near |-> n, far |-> f]

\* Mutant: the first level that overlaps is not visited.
OverlappingLateStart(s, p) ==
    LET first == Away(s, aon_win[s].near)
        level(i) == IF s = "buy" THEN first + 1 - i ELSE first - 1 + i
        n == IF s = "buy" THEN first + 1 - p ELSE p + 1 - first
        entry(l) == [j \in 1 .. Len(aons[s][l]) |->
                        [p |-> l, bndl |-> Reverse(aons[s][l])[j]]]
    IN  FlattenSeq([i \in 1 .. Max({0, n}) |-> entry(level(i))])

\* exec::aon<>::overlapping, in the order in which the passes read it, from
\* its end: the level closest to trading first, in a level the youngest first
Overlapping(s, p) ==
    LET first == aon_win[s].near
        level(i) == IF s = "buy" THEN first + 1 - i ELSE first - 1 + i
        n == IF s = "buy" THEN first + 1 - p ELSE p + 1 - first
        entry(l) == [j \in 1 .. Len(aons[s][l]) |->
                        [p |-> l, bndl |-> Reverse(aons[s][l])[j]]]
    IN  FlattenSeq([i \in 1 .. Max({0, n}) |-> entry(level(i))])

-----------------------------------------------------------------------------
(* What a chain does with an order of size n. *)

\* _hit_aon_chain: an order fills whole or stays
HitAonChain(chain, n) ==
    FoldLeft(LAMBDA acc, e :
                 IF acc.left >= e.sz
                 THEN [acc EXCEPT !.left = @ - e.sz, !.hit = @ \cup {e.id}]
                 ELSE [acc EXCEPT !.kept = Append(@, e)],
             [left |-> n, kept |-> <<>>, hit |-> {}], chain)

\* _hit_chain: an AON order that does not fill moves to an AON chain, another
\* one is filled in part
HitChain(chain, n) ==
    FoldLeft(LAMBDA acc, e :
                 IF acc.left = 0 THEN [acc EXCEPT !.kept = Append(@, e)]
                 ELSE IF acc.left >= e.sz
                 THEN [acc EXCEPT !.left = @ - e.sz, !.hit = @ \cup {e.id}]
                 ELSE IF e.aon THEN [acc EXCEPT !.moved = Append(@, e)]
                 ELSE [acc EXCEPT !.left = 0,
                                  !.kept = Append(@, [e EXCEPT !.sz = @ - acc.left])],
             [left |-> n, kept |-> <<>>, hit |-> {}, moved |-> <<>>], chain)

\* the orders that _limit_is_fillable walks for a limit p of side s, level by
\* level: the AON chain, without a look at its window, then the limit chain
Walked(s, p) ==
    LET r == Opp(s)
        first == CoreBegin(r)
        level(i) == IF r = "buy" THEN first + 1 - i ELSE first - 1 + i
        n == IF r = "buy" THEN first + 1 - p ELSE p + 1 - first
    IN  FlattenSeq([i \in 1 .. Max({0, n}) |->
            aons[r][level(i)] \o
            (IF InLimitWindow(r, level(i)) THEN limits[level(i)] ELSE <<>>)])

\* Mutant: AON orders count as if they could be filled in part.
FillableInPart(s, p, sz, allow_partial) ==
    FoldLeft(LAMBDA a, e :
                 IF a.ok THEN a
                 ELSE [tot |-> a.tot + e.sz,
                       ok |-> allow_partial \/ a.tot + e.sz >= sz],
             [tot |-> 0, ok |-> FALSE], Walked(s, p))

\* _limit_is_fillable: adds up what fits until sz is reached
Fillable(s, p, sz, allow_partial) ==
    FoldLeft(LAMBDA a, e :
                 IF a.ok \/ (e.aon /\ sz - a.tot < e.sz) THEN a
                 ELSE [tot |-> a.tot + e.sz,
                       ok |-> allow_partial \/ a.tot + e.sz >= sz],
             [tot |-> 0, ok |-> FALSE], Walked(s, p))

-----------------------------------------------------------------------------
(* Clients. *)

AonOrders ==
    LET conditioned(ss, conds) ==
            {LimitOrder(s, p, n) @@ [cond |-> c, of |-> n] :
                 s \in ss, p \in Book, n \in Sizes, c \in conds}
    IN  conditioned(LimitSides, {"none"}) \cup conditioned(AonSides, {"aon"})
        \cup conditioned(FokSides, FokConds)
        \cup {MarketOrder(s, n) : s \in MarketSides, n \in Sizes}

InsertAonOrder(e) == InsertOrder(e) /\ UNCHANGED aon_vars

\* chain<limit_chain_type>::pop: the AON orders that are in front then move,
\* always to the chain of buys
PullFromLimitChain(id) ==
    LET p == id_cache[id].p
        s == IF p < best["sell"] THEN "buy" ELSE "sell"
        rest == SelectSeq(limits[p], LAMBDA b : b.id # id)
        behind == {i \in 1 .. Len(rest) : ~ rest[i].aon}
        lead == IF behind = {} THEN rest ELSE SubSeq(rest, 1, Min(behind) - 1)
        ids == {lead[i].id : i \in 1 .. Len(lead)}
    IN  /\ id_cache[id].type = "limit"
        /\ limits' = [limits EXCEPT ![p] = SubSeq(rest, Len(lead) + 1, Len(rest))]
        /\ aons' = [aons EXCEPT !["buy"][p] = @ \o lead]
        /\ aon_win' = IF lead = <<>> THEN aon_win
                      ELSE [aon_win EXCEPT ![s] = Widen(s, @, p)]
        /\ id_cache' = [i \in DOMAIN id_cache \ {id} |->
                           IF i \in ids THEN [type |-> "aon_" \o s, p |-> p]
                           ELSE id_cache[i]]
        /\ IF limits'[p] = <<>>
           THEN LimitAfterPull(IF p <= best["buy"] THEN "buy" ELSE "sell", limits', p)
           ELSE UNCHANGED <<best, worst>>

AonSide(id) == IF id_cache[id].type = "aon_buy" THEN "buy" ELSE "sell"
OnItsChain(id) ==
    \E i \in 1 .. Len(aons[AonSide(id)][id_cache[id].p]) :
        aons[AonSide(id)][id_cache[id].p][i].id = id

\* chain<aon_chain_type>::pop.  The iterator of an order that is not on the
\* chain its type names is erased from a list it is not in: undefined.
PopAon(id, next) ==
    LET p == id_cache[id].p
        s == AonSide(id)
        chains == [aons[s] EXCEPT ![p] = SelectSeq(@, LAMBDA b : b.id # id)]
    IN  /\ aons' = [aons EXCEPT ![s] = chains]
        /\ aon_win' = IF chains[p] = <<>>
                      THEN [aon_win EXCEPT ![s] = Narrow(s, chains, p)]
                      ELSE aon_win
        /\ Erase({id})
        /\ pc' = IF OnItsChain(id) THEN next ELSE "undefined"

PullAonOrder(id) ==
    /\ pc = "idle"
    /\ "pull" \in Calls
    /\ \/ PullFromLimitChain(id) /\ UNCHANGED pc
       \/ /\ id_cache[id].type # "limit"
          /\ PopAon(id, "idle")
          /\ UNCHANGED <<limits, best, worst>>
    /\ UNCHANGED <<stop_vars, last, last_id, total_volume, need_check_for_stops,
                   cur, phase, overlaps, taker, at, until>>

-----------------------------------------------------------------------------
(* Before cur trades. *)

\* what _insert_FOK_order asks, before _route_basic_order
Killed(e) ==
    Cond(e) \in {"fok", "fok_partial"}
        /\ ~ Fillable(e.side, e.limit, e.sz, Cond(e) = "fok_partial").ok

KillFok ==
    /\ pc = "route"
    /\ Killed(cur)
    /\ cur' = NoOrder
    /\ pc' = "drain"
    /\ UNCHANGED <<book, best, worst, stop_vars, last, last_id, total_volume,
                   need_check_for_stops, aon_vars>>

\* _insert_limit_order and _insert_market_order begin with the pass over old
\* AON orders of the other side
BeginPass ==
    /\ pc = "route"
    /\ ~ Killed(cur)
    /\ phase' = "pre"
    /\ overlaps' = Overlapping(Opp(cur.side), PLevel(cur))
    /\ pc' = "pass"
    /\ UNCHANGED <<book, best, worst, stop_vars, last, last_id, total_volume,
                   need_check_for_stops, cur, aon_book, taker, at, until>>

\* the order _trade runs for next, and the bounds of its loop
BeginTrade(id, s, lim, n) ==
    /\ taker' = [id |-> id, side |-> s, lim |-> lim, sz |-> n]
    /\ at' = CoreBegin(Opp(s))
    /\ until' = CoreEnd(Opp(s))

\* Mutant: the second pass counts cur, which is in the book by then, again.
TradesOldAonInBothPasses(o) ==
    LET f == Fillable(Opp(cur.side), o.p, o.bndl.sz, FALSE)
    IN  f.ok \/ o.bndl.sz <= cur.sz + f.tot

\* The condition of each pass.  An AON order of the other side fills from the
\* book; in the first pass the rest of it may come from cur.
TradesOldAon(o) ==
    LET f == Fillable(Opp(cur.side), o.p, o.bndl.sz, FALSE)
    IN  \/ f.ok
        \/ /\ phase = "pre"
           /\ IF IsAon(cur) THEN o.bndl.sz = cur.sz + f.tot
              ELSE o.bndl.sz < cur.sz + f.tot

Visiting == pc = "pass" /\ overlaps # <<>> /\ (phase = "pre" => cur.sz > 0)

SkipOldAon ==
    /\ Visiting
    /\ ~ TradesOldAon(Head(overlaps))
    /\ overlaps' = Tail(overlaps)
    /\ UNCHANGED <<vars, aon_book, phase, taker, at, until>>

TradeOldAon ==
    LET o == Head(overlaps)
    IN  /\ Visiting
        /\ TradesOldAon(o)
        /\ overlaps' = Tail(overlaps)
        /\ PopAon(o.bndl.id, "trade")
        /\ BeginTrade(o.bndl.id, Opp(cur.side), o.p, o.bndl.sz)
        /\ UNCHANGED <<limits, best, worst, stop_vars, last, last_id,
                       total_volume, need_check_for_stops, cur, phase>>

\* Mutant: an AON order trades without looking ahead.
GoesToTradeWithoutLook(e) ==
    e.type = "market" \/ Geq(e.side, PLevel(e), CoreBegin(Opp(e.side)))

\* what cur must satisfy to be sent to _trade
GoesToTrade(e) ==
    \/ e.type = "market"
    \/ /\ Geq(e.side, PLevel(e), CoreBegin(Opp(e.side)))
       /\ IsAon(e) => Fillable(e.side, e.limit, e.sz, FALSE).ok

EndFirstPass ==
    /\ pc = "pass"
    /\ phase = "pre"
    /\ overlaps = <<>> \/ cur.sz = 0
    /\ phase' = "main"
    /\ overlaps' = <<>>
    /\ IF cur.sz > 0 /\ GoesToTrade(cur)
       THEN pc' = "trade" /\ BeginTrade(cur.id, cur.side, PLevel(cur), cur.sz)
       ELSE /\ pc' = "settle"
            /\ taker' = [NoTaker EXCEPT !.sz = cur.sz]
            /\ UNCHANGED <<at, until>>
    /\ UNCHANGED <<book, best, worst, stop_vars, last, last_id, total_volume,
                   need_check_for_stops, cur, aon_book>>

-----------------------------------------------------------------------------
(* _trade. *)

KeepsHitting ==
    LET r == Opp(taker.side)
    IN  taker.sz > 0 /\ Geq(r, at, taker.lim) /\ Geq(r, at, until)

\* what the level at the loop variable does: its AON chain, then its limits
LevelIsHit ==
    LET r == Opp(taker.side)
        a == HitAonChain(IF InAonWindow(r, at) THEN aons[r][at] ELSE <<>>, taker.sz)
        l == HitChain(IF InLimitWindow(r, at) THEN limits[at] ELSE <<>>, a.left)
    IN  [aon |-> a, limit |-> l, left |-> l.left]

\* One turn of the loop.  When the AON chain takes all there is, _hit_chain is
\* called with size 0: it steps back from the first order of the chain and
\* reads the size of an order that is not there.  Where that is not 0 it
\* erases the whole limit chain, and leaves its orders in the id cache.
HitLevel ==
    LET r == Opp(taker.side)
        h == LevelIsHit
        ownAons == [aons[r] EXCEPT ![at] = IF InAonWindow(r, at) THEN h.aon.kept ELSE @]
        narrowed == IF ownAons[at] = <<>> /\ aons[r][at] # <<>>
                    THEN Narrow(r, ownAons, at) ELSE aon_win[r]
        movedIds == {h.limit.moved[i].id : i \in 1 .. Len(h.limit.moved)}
        filled == taker.sz - h.left
    IN  /\ pc = "trade"
        /\ KeepsHitting
        /\ \E lost \in IF h.aon.left = 0 THEN BOOLEAN ELSE {FALSE} :
               limits' = [limits EXCEPT ![at] =
                             IF ~ InLimitWindow(r, at) THEN @
                             ELSE IF lost THEN <<>> ELSE h.limit.kept]
        /\ IF InLimitWindow(r, at) /\ limits'[at] = <<>>
           THEN FindNewBestInside(r, limits', worst[r])
           ELSE UNCHANGED <<best, worst>>
        /\ aons' = [[aons EXCEPT ![r] = ownAons] EXCEPT !["buy"][at] = @ \o h.limit.moved]
        /\ aon_win' = [aon_win EXCEPT ![r] =
                          IF movedIds = {} THEN narrowed ELSE Widen(r, narrowed, at)]
        /\ id_cache' = [i \in DOMAIN id_cache \ (h.aon.hit \cup h.limit.hit) |->
                           IF i \in movedIds THEN [type |-> "aon_" \o r, p |-> at]
                           ELSE id_cache[i]]
        /\ taker' = [taker EXCEPT !.sz = h.left]
        /\ total_volume' = total_volume + filled
        /\ last' = IF filled > 0 THEN at ELSE last
        /\ need_check_for_stops' = (need_check_for_stops \/ filled > 0)
        /\ at' = NextOrJump(r, at, Nearer(r, best'[r], aon_win'[r].near))
        /\ UNCHANGED <<stop_vars, last_id, cur, pc, phase, overlaps, until>>

\* the end of the loop, and the search for triggered stops
EndLoop ==
    /\ pc = "trade"
    /\ ~ KeepsHitting
    /\ need_check_for_stops' = FALSE
    /\ pc' = "settle"
    /\ UNCHANGED <<book, best, worst, stop_vars, last, last_id, total_volume,
                   cur, aon_vars>>

-----------------------------------------------------------------------------
(* After _trade: each caller goes on. *)

\* an AON order with something left over is an error, after which nothing
\* of it is in the book
Fail ==
    /\ cur' = NoOrder
    /\ pc' = "idle"
    /\ taker' = NoTaker
    /\ overlaps' = <<>>
    /\ UNCHANGED <<total_volume, last, need_check_for_stops>>

\* first pass: cur fills the rest of the old AON order, at the price of cur
OldAonTraded ==
    /\ pc = "settle"
    /\ phase = "pre"
    /\ IF taker.sz > cur.sz THEN Fail
       ELSE /\ cur' = [cur EXCEPT !.sz = @ - taker.sz]
            /\ total_volume' = total_volume + taker.sz
            /\ last' = IF taker.sz > 0 THEN PLevel(cur) ELSE last
            /\ need_check_for_stops' = (need_check_for_stops \/ taker.sz > 0)
            /\ taker' = NoTaker
            /\ pc' = "pass"
            /\ UNCHANGED overlaps
    /\ UNCHANGED <<book, best, worst, stop_vars, last_id, aon_book, phase, at, until>>

CurFilled ==
    /\ pc = "settle"
    /\ phase = "main"
    /\ taker.sz = 0
    /\ cur' = NoOrder
    /\ taker' = NoTaker
    /\ pc' = "drain"
    /\ UNCHANGED <<book, best, worst, stop_vars, last, last_id, total_volume,
                   need_check_for_stops, aon_book, phase, overlaps, at, until>>

MarketUnfilled ==
    /\ pc = "settle"
    /\ phase = "main"
    /\ taker.sz > 0
    /\ cur.type = "market"
    /\ Fail
    /\ UNCHANGED <<book, best, worst, stop_vars, last_id, aon_book, phase, at, until>>

\* an AON order goes to an AON chain when it crosses limits that it cannot
\* fill, or when it would be the first order of its limit chain
ToAonChain(e) ==
    IsAon(e) /\ (Geq(e.side, e.limit, best[Opp(e.side)]) \/ limits[e.limit] = <<>>)

\* cur rests, and the second pass looks for AON orders that it can fill
RestAndBeginPass ==
    LET p == cur.limit
        s == cur.side
        bndl == [id |-> cur.id, sz |-> taker.sz, side |-> s, aon |-> IsAon(cur),
                 of |-> cur.of]
    IN  /\ pc = "settle"
        /\ phase = "main"
        /\ taker.sz > 0
        /\ cur.type = "limit"
        /\ IF ToAonChain(cur)
           THEN /\ aons' = [aons EXCEPT ![s] = ChainEmplace(@, p, bndl)]
                /\ aon_win' = [aon_win EXCEPT ![s] = Widen(s, @, p)]
                /\ Emplace(cur.id, [type |-> "aon_" \o s, p |-> p])
                /\ UNCHANGED <<limits, best, worst>>
           ELSE /\ limits' = ChainEmplace(limits, p, bndl)
                /\ LimitAfterInsert(s, p)
                /\ Emplace(cur.id, [type |-> "limit", p |-> p])
                /\ UNCHANGED aon_book
        /\ phase' = "post"
        /\ overlaps' = Overlapping(Opp(s), p)
        /\ cur' = [cur EXCEPT !.sz = taker.sz]
        /\ taker' = NoTaker
        /\ pc' = "pass"
        /\ UNCHANGED <<stop_vars, last, last_id, total_volume,
                       need_check_for_stops, at, until>>

OldAonTradedAfter ==
    /\ pc = "settle"
    /\ phase = "post"
    /\ IF taker.sz > 0 THEN Fail
       ELSE /\ taker' = NoTaker
            /\ pc' = "pass"
            /\ UNCHANGED <<cur, overlaps, last, total_volume, need_check_for_stops>>
    /\ UNCHANGED <<book, best, worst, stop_vars, last_id, aon_book, phase, at, until>>

EndSecondPass ==
    /\ pc = "pass"
    /\ phase = "post"
    /\ overlaps = <<>>
    /\ cur' = NoOrder
    /\ pc' = "drain"
    /\ UNCHANGED <<book, best, worst, stop_vars, last, last_id, total_volume,
                   need_check_for_stops, aon_vars>>

AonClient ==
    \/ \E e \in AonOrders : InsertAonOrder(e)
    \/ \E id \in DOMAIN id_cache : PullAonOrder(id)

AonWindow ==
    \/ KillFok \/ BeginPass
    \/ SkipOldAon \/ TradeOldAon \/ EndFirstPass \/ EndSecondPass
    \/ HitLevel \/ EndLoop
    \/ OldAonTraded \/ CurFilled \/ MarketUnfilled \/ RestAndBeginPass
    \/ OldAonTradedAfter
    \/ CloseWindow /\ UNCHANGED aon_vars

AonNext == AonClient \/ AonWindow

AonSpec == AonInit /\ [][AonNext]_avars

-----------------------------------------------------------------------------
(* Properties. *)

RestingAons(s) ==
    UNION {{aons[s][l][i] : i \in 1 .. Len(aons[s][l])} : l \in Levels}
RestingLimits == UNION {{limits[l][i] : i \in 1 .. Len(limits[l])} : l \in Levels}

\* _insert_ALL_OR_NONE_order asserts that an AON order fills whole or not at
\* all; nor does a later order fill a part of one, on either kind of chain.
AllOrNone ==
    pc \in {"idle", "drain"} =>
        \A b \in RestingLimits \cup RestingAons("buy") \cup RestingAons("sell") :
            b.aon => b.sz = b.of

\* An AON order is taken off its chain before it trades, on the word of
\* _limit_is_fillable.  The trade must fill it, or the order is lost to an
\* exception ("AON has left over size").
AonFillsWhole ==
    pc = "settle" =>
        /\ phase = "pre" => taker.sz <= cur.sz
        /\ phase = "post" => taker.sz = 0

\* AON chains are found through a window of their side, that each loop of
\* adjust_state_after_pull moves with a bound of its own: no AON order is
\* outside it, and the near end is exact.
AonWindows ==
    \A s \in Sides, l \in Levels : aons[s][l] # <<>> =>
        /\ InAonWindow(s, l)
        /\ aons[s][aon_win[s].near] # <<>>

\* Between two calls no AON order could be filled by what is in the book:
\* the second pass has tried all that the new order made fillable.
NoFillableAon ==
    pc = "idle" =>
        \A s \in Sides, l \in Levels : \A i \in 1 .. Len(aons[s][l]) :
            ~ Fillable(s, l, aons[s][l][i].sz, FALSE).ok

\* A FOK order that is not killed trades, and one that is to fill whole does so
\* if no old AON order traded with it first: what _limit_is_fillable has counted
\* is there when _trade reaches it.  (An old AON order takes from the book, in
\* the first pass, what was counted for the FOK order too, and then a part of a
\* FOK order that should fill whole may rest.)
FokFills ==
    pc = "settle" /\ phase = "main" /\ Cond(cur) \in {"fok", "fok_partial"} =>
        /\ taker.sz < cur.of
        /\ Cond(cur) = "fok" /\ cur.sz = cur.of => taker.sz = 0

\* what the book and the orders being executed have left to trade
SumSizes(chain) == FoldLeft(LAMBDA a, b : a + b.sz, 0, chain)
Outstanding ==
    LET InBook == MapThenSumSet(LAMBDA l : SumSizes(limits[l]) + SumSizes(aons["buy"][l])
                                            + SumSizes(aons["sell"][l]), Levels)
        own == IF phase = "main" /\ pc \in {"trade", "settle"} THEN taker.sz
               ELSE IF phase = "post" THEN taker.sz ELSE cur.sz + taker.sz
    IN  InBook + own

\* An order that no one pulls leaves its limit chain only by trading, or for
\* an AON chain: what the chain loses in size has traded.
LimitOrdersAreKept ==
    [][pc = "trade" =>
           Outstanding' + 2 * total_volume' = Outstanding + 2 * total_volume]_avars
=============================================================================
