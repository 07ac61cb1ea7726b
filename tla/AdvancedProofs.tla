--------------------------- MODULE AdvancedProofs ---------------------------
(***************************************************************************)
(* Proofs about AdvancedBook, for every size of the book, every set of     *)
(* orders that clients send and every number of them: the windows, the     *)
(* cache, the links between orders, the sizes of the exits, the stops that *)
(* trigger and those that trail.                                           *)
(***************************************************************************)
EXTENDS AdvancedBook, OrderbookProofs

-----------------------------------------------------------------------------
(* The inductive invariant. *)

Exit(cond) == cond \in {"bracket_active", "trailing_bracket_active"}
Entry(cond) == cond \in {"bracket", "trailing_bracket", "trailing_stop"}

ActiveConditions ==
    {"bracket_active", "trailing_bracket_active", "trailing_stop_active"}

\* an entry order that has filled in part needs less of its exits
ParamsLeft == [side : Sides, limit : Nat, stop : Nat, sz : Int]
Triggering == {"none", "partial", "full"}

AdvElem ==
    [id : Nat \ {0}, type : {"limit", "market", "stop"}, side : Sides,
     limit : 0 .. MaxLevel, stop : 0 .. MaxLevel, sz : Nat, of : Nat \ {0},
     cond : Conditions \cup ActiveConditions \cup {"oco_second"},
     trig : Triggering, p1 : ParamsLeft, p2 : ParamsLeft, parent : Nat]

CondElem ==
    [cond : (Conditions \cup ActiveConditions) \ {"none"}, trig : Triggering,
     link : Nat, nticks : Nat, p1 : ParamsLeft, p2 : ParamsLeft,
     active : Nat \X Nat]

CondTypes ==
    /\ DOMAIN adv \subseteq Nat
    /\ \A i \in DOMAIN adv : adv[i] \in CondElem
    /\ trailing \in [Sides -> SUBSET Nat]

AdvTypes ==
    /\ BookTypeOK
    /\ last \in Book \cup {0}
    /\ last_id \in Nat
    /\ total_volume \in Nat
    /\ need_check_for_stops \in BOOLEAN
    /\ internal_queue \in Seq(AdvElem)
    /\ cur \in AdvElem \cup {NoOrder}
    /\ scan \in Pointers
    /\ CondTypes
    /\ swing \in [old : Book \cup {0}, high : Book \cup {0}, low : Book \cup {0}]
    /\ hit \in Nat
    /\ adjusting \subseteq [id : Nat, side : Sides, from : Book]
    /\ held \in StopBndl \cup {NoHold}
    /\ cchain \in Seq(StopBndl)

Trading == {"trade", "matched", "reduce"}
Scanning == {"scan_buy", "chain_buy", "scan_sell", "chain_sell"}
Between == {"idle", "drain"}
AdvPlaces == Between \cup {"pull_linked", "route", "adjust", "settle", "condition"}
             \cup Trading \cup Scanning

\* what holds at each place of the execution of an order
AdvControl ==
    /\ pc \in AdvPlaces
    /\ pc \in Between => cur = NoOrder
    /\ pc \notin Between \cup {"pull_linked"} => cur # NoOrder
    /\ pc \in {"idle", "pull_linked"} => internal_queue = <<>>
    /\ pc \in {"route", "pull_linked"} /\ cur # NoOrder => cur.sz > 0
    /\ pc \in Trading \cup Scanning \cup {"adjust", "settle"} => cur.type # "stop"
    /\ pc # "route" /\ cur # NoOrder => cur.cond # "trailing_stop_active"
    /\ pc = "condition" /\ cur.type = "market" => cur.sz = 0
    /\ held # NoHold => pc = "adjust" /\ adjusting # {}
    /\ cchain # <<>> => pc \in {"chain_buy", "chain_sell"}
    /\ adjusting # {} => pc = "adjust"
    /\ need_check_for_stops => last \in Book
    /\ pc \in Scanning \cup {"matched", "reduce"} => need_check_for_stops

\* the prices of orders, and of those that their conditions will issue
TargetFits(p2, l) == Offset(Opp(p2.side), p2.limit, l) \in Book

CondFits(cond, p1, p2) ==
    /\ cond = "oto" => InBook(p1) /\ p1.sz > 0
    /\ cond = "bracket" => InBook(p1) /\ p2.limit \in Book

OcoFits(e) ==
    /\ InBook(e.p1)
    /\ OrderType(e.p1) # "market"
    /\ e.p1.sz > 0
    /\ e.type # "market"

ElemFits(e) ==
    /\ e.type = "limit" => e.limit \in Book
    /\ e.type = "stop" /\ ~ ActiveStop(e) =>
           e.stop \in Book /\ e.limit \in Book \cup {0}
    /\ e.sz <= e.of
    /\ CondFits(e.cond, e.p1, e.p2)
    /\ e.cond = "oco" => OcoFits(e)
    /\ e.cond = "oco_second" => e.type # "market"
    /\ Exit(e.cond) => e.type = "limit" /\ e.trig = "partial"
    /\ e.cond = "bracket_active" => e.p1.limit \in Book \cup {0}
    /\ ActiveStop(e) => e.type = "stop" /\ e.p1.side = e.side
    /\ e.cond = "trailing_bracket" /\ e.limit # 0 => TargetFits(e.p2, e.limit)

OrdersFit ==
    /\ cur # NoOrder => ElemFits(cur)
    /\ \A i \in 1 .. Len(internal_queue) :
           ElemFits(internal_queue[i]) /\ internal_queue[i].sz > 0

\* the orders that stand in the book, or are on the way from one chain to another
HeldOrders == IF held = NoHold THEN {} ELSE {held}
LimitOrders == UNION {ToSet(limits[l]) : l \in Levels}
StopOrders == (UNION {ToSet(stops[l]) : l \in Levels}) \cup ToSet(cchain) \cup HeldOrders
Standing == LimitOrders \cup StopOrders

CondsFit ==
    /\ \A x \in DOMAIN adv :
           /\ CondFits(adv[x].cond, adv[x].p1, adv[x].p2)
           /\ Exit(adv[x].cond) => adv[x].trig = "partial"
           /\ adv[x].cond = "trailing_bracket" /\ x \in DOMAIN id_cache
              /\ id_cache[x].type = "limit" => TargetFits(adv[x].p2, id_cache[x].p)
    /\ \A b \in StopOrders :
           /\ b.limit \in Book \cup {0}
           /\ b.limit # 0 /\ AdvOf(b.id).cond = "trailing_bracket" =>
                  TargetFits(adv[b.id].p2, b.limit)

\* the order in front while it trades
FrontMatches ==
    pc \in {"matched", "reduce"} =>
        /\ best[Opp(cur.side)] \in Book
        /\ last = best[Opp(cur.side)]
        /\ hit \in 1 .. FrontOrder.sz
        /\ pc = "reduce" /\ hit = FrontOrder.sz => ~ Linked(AdvOf(FrontOrder.id).cond)

\* the high and the low of the trade, and the last price before it
SwingFits ==
    /\ swing.low = 0 => swing.old = 0
    /\ pc \in Trading =>
           /\ swing.low <= last /\ last <= swing.high
           /\ swing.low <= swing.old /\ swing.old <= swing.high

CurNotTradable ==
    pc \in {"adjust", "settle"} \cup Scanning /\ cur.sz > 0 => ~ IsTradable(cur)

ScanAt(s, at, handling) ==
    /\ pc \in {at, handling} => scan \in Book \cup {NullHigh(s)}
    /\ pc = at => Geq(s, near[s], scan)
    /\ pc = handling => scan \in Book /\ Geq(s, near[s], Inc(s, scan))

StopScans == ScanAt("buy", "scan_buy", "chain_buy") /\ ScanAt("sell", "scan_sell", "chain_sell")

\* The cache and the chains: an order on a chain is cached with it, an id is
\* on one chain only and once, and a cached id is on a chain.
Unlike(c) == \A i, j \in 1 .. Len(c) : c[i].id = c[j].id => i = j

Cached(id, type, l) == id \in DOMAIN id_cache /\ id_cache[id] = [type |-> type, p |-> l]

ChainsAreCached ==
    \A l \in Levels :
        /\ \A b \in ToSet(limits[l]) : Cached(b.id, "limit", l)
        /\ \A b \in ToSet(stops[l]) : Cached(b.id, "stop", l)
        /\ Unlike(limits[l])
        /\ Unlike(stops[l])

TakenAreCached ==
    /\ \A b \in ToSet(cchain) :
           /\ b.id \in DOMAIN id_cache
           /\ id_cache[b.id].type = "stop"
           /\ \A l \in Levels : \A d \in ToSet(stops[l]) : d.id # b.id
    /\ Unlike(cchain)
    /\ held # NoHold => held.id \notin DOMAIN id_cache

ChainOf(id) == (IF id_cache[id].type = "limit" THEN limits ELSE stops)[id_cache[id].p]

CachedStand ==
    \A id \in DOMAIN id_cache :
        \E b \in ToSet(ChainOf(id)) \cup ToSet(cchain) : b.id = id

Placed == ChainsAreCached /\ TakenAreCached /\ CachedStand

\* The ids.  Named are those that conditions and trailing stops have.
Trails == UNION {trailing[s] : s \in Sides}
Named == DOMAIN adv \cup Trails \cup {adv[x].link : x \in DOMAIN adv}
         \cup UNION {ActiveExits(adv[x]) : x \in DOMAIN adv}
Known == DOMAIN id_cache \cup Named

CurIsFresh ==
    cur # NoOrder =>
        /\ cur.id <= last_id
        /\ cur.parent <= last_id
        /\ cur.id \notin Named
        /\ pc # "condition" \/ cur.sz = 0 => cur.id \notin DOMAIN id_cache
        /\ cur.cond = "oco_second" => cur.parent \notin DOMAIN adv /\ cur.parent # cur.id

QueueIsFresh ==
    /\ \A i \in 1 .. Len(internal_queue) :
           /\ internal_queue[i].id <= last_id
           /\ internal_queue[i].parent <= last_id
           /\ internal_queue[i].id \notin Known
           /\ cur # NoOrder => internal_queue[i].id # cur.id
           /\ internal_queue[i].cond # "oco_second"
    /\ Unlike(internal_queue)

Fresh == (\A id \in Known : id <= last_id) /\ CurIsFresh /\ QueueIsFresh

\* where cur is when its condition is handled
CurStands ==
    pc = "condition" /\ cur.sz > 0 =>
        /\ cur.id \in DOMAIN id_cache
        /\ id_cache[cur.id] = IF cur.type = "limit" THEN [type |-> "limit", p |-> cur.limit]
                              ELSE [type |-> "stop", p |-> cur.stop]
        /\ \A b \in Standing : b.id = cur.id => b.sz = cur.sz
        /\ \A b \in StopOrders : b.id = cur.id => b.limit = cur.limit

\* The links.  A trailing stop that an exception took is Gone.
HeldIds == {b.id : b \in HeldOrders}
Gone == Trails \ (DOMAIN id_cache \cup HeldIds)

Mutual(x) ==
    /\ adv[x].link # x
    /\ adv[x].link \in DOMAIN adv
    /\ adv[adv[x].link].cond = adv[x].cond
    /\ adv[adv[x].link].link = x

LinksHold ==
    \A x \in DOMAIN adv : Linked(adv[x].cond) =>
        \/ Mutual(x)
        \/ adv[x].link \in Gone
        \/ pc = "pull_linked" /\ hit = x

ExitsTogether ==
    \A e \in DOMAIN adv : \A x \in ActiveExits(adv[e]) \cap DOMAIN adv :
        Exit(adv[x].cond) => adv[x].link \in ActiveExits(adv[e])

Links ==
    /\ DOMAIN adv \subseteq DOMAIN id_cache \cup HeldIds
    /\ HeldIds \subseteq Trails
    /\ \A m \in adjusting : m.id \in trailing[m.side]
    /\ LinksHold
    /\ pc = "pull_linked" /\ hit \in DOMAIN adv => adv[hit].link \notin DOMAIN adv
    /\ ExitsTogether

\* The sizes.  What the order in front has just traded is taken off it last.
Owed(id) == IF pc = "reduce" /\ id = FrontOrder.id THEN hit ELSE 0

OneSize ==
    \A b, d \in Standing :
        /\ b.id \in DOMAIN adv /\ d.id \in DOMAIN adv
        /\ Exit(adv[b.id].cond) /\ adv[b.id].link = d.id
        => b.sz - Owed(b.id) = d.sz - Owed(d.id)

AdvIInv ==
    /\ AdvTypes
    /\ BookInv
    /\ AdvControl
    /\ OrdersFit
    /\ CondsFit
    /\ FrontMatches
    /\ SwingFits
    /\ CurNotTradable
    /\ StopScans
    /\ Placed
    /\ Fresh
    /\ CurStands
    /\ Links
    /\ OneSize

\* The steps that leave no trade half way: those of AdvNext but TearTrade.
WholeWindow ==
    \/ PullLinkedOrder \/ RouteToBook \/ RouteToStops
    \/ Match \/ CancelOther \/ TriggerOther \/ GrowExits \/ IssueExits
    \/ ShrinkOtherExit \/ Reduce
    \/ LeaveLoop \/ LiftTrailingStop \/ PlaceTrailingStop \/ LeaveTrade
    \/ TakeBuyChain \/ TakeSellChain \/ CancelForStop \/ TriggerHead \/ EndChain
    \/ (EndBuyScan \/ EndSellScan) /\ UNCHANGED adv_vars
    \/ Settle \/ ThrowUnfilled
    \/ ConcludeBasic \/ ConcludeOto \/ InjectSecond \/ ConcludeOco
    \/ ConcludeEntry \/ ConcludeTarget \/ ConcludeTargetAlone
    \/ InsertTrailingStop
    \/ (NextInternal \/ CloseWindow) /\ UNCHANGED adv_vars

WholeNext == AdvClient \/ WholeWindow

-----------------------------------------------------------------------------
(* Chains: what taking out, adding and resizing do to the elements.         *)

LEMMA ElementsOf ==
    ASSUME NEW S, NEW c \in Seq(S)
    PROVE  /\ ToSet(c) \subseteq S
           /\ ToSet(c) = {c[i] : i \in 1 .. Len(c)}
           /\ Len(c) \in Nat
<1>1. DOMAIN c = 1 .. Len(c) /\ Len(c) \in Nat
  BY LenProperties
<1>2. \A i \in 1 .. Len(c) : c[i] \in S
  BY ElementOfSeq
<1> QED
  BY <1>1, <1>2 DEF ToSet

LEMMA ElementAt ==
    ASSUME NEW S, NEW c \in Seq(S), NEW i \in 1 .. Len(c)
    PROVE  c[i] \in ToSet(c) /\ c[i] \in S
BY ElementsOf

LEMMA IndexOf ==
    ASSUME NEW S, NEW c \in Seq(S), NEW b \in ToSet(c)
    PROVE  \E i \in 1 .. Len(c) : c[i] = b
BY ElementsOf

\* Taking out the one element with an id.
LEMMA RemovedElements ==
    ASSUME NEW S, NEW c \in Seq(S), Unlike(c), NEW i \in 1 .. Len(c)
    PROVE  /\ ToSet(RemoveAt(c, i)) = {b \in ToSet(c) : b.id # c[i].id}
           /\ Unlike(RemoveAt(c, i))
<1> DEFINE d == RemoveAt(c, i)
<1>1. /\ d \in Seq(S) /\ Len(d) = Len(c) - 1 /\ Len(c) \in Nat
      /\ \A j \in 1 .. Len(c) - 1 : d[j] = IF j < i THEN c[j] ELSE c[j + 1]
  BY RemoveAtType, ElementsOf
<1> HIDE DEF d
<1>2. Unlike(d)
  BY <1>1 DEF Unlike
<1>3. ASSUME NEW b \in ToSet(d)
      PROVE  b \in ToSet(c) /\ b.id # c[i].id
  <2>1. PICK j \in 1 .. Len(d) : d[j] = b
    BY <1>1, IndexOf
  <2>2. PICK k \in 1 .. Len(c) : k # i /\ c[k] = b
    <3>1. CASE j < i
      BY <3>1, <2>1, <1>1
    <3>2. CASE ~ (j < i)
      BY <3>2, <2>1, <1>1
    <3> QED
      BY <3>1, <3>2
  <2> QED
    BY <2>2, ElementAt DEF Unlike
<1>4. ASSUME NEW b \in ToSet(c), b.id # c[i].id
      PROVE  b \in ToSet(d)
  <2>1. PICK k \in 1 .. Len(c) : c[k] = b
    BY IndexOf
  <2>2. PICK j \in 1 .. Len(d) : d[j] = b
    <3>1. CASE k < i
      BY <3>1, <2>1, <1>1
    <3>2. CASE k > i
      <4>1. k - 1 \in 1 .. Len(c) - 1 /\ ~ (k - 1 < i) /\ (k - 1) + 1 = k
        BY <3>2, <1>1
      <4> QED
        BY <4>1, <2>1, <1>1
    <3> QED
      BY <3>1, <3>2, <2>1, <1>4, <1>1
  <2> QED
    BY <2>2, <1>1, ElementAt
<1> QED
  BY <1>2, <1>3, <1>4 DEF d

LEMMA TailElements ==
    ASSUME NEW S, NEW c \in Seq(S), Unlike(c), c # <<>>
    PROVE  /\ ToSet(Tail(c)) = {b \in ToSet(c) : b.id # Head(c).id}
           /\ Unlike(Tail(c))
           /\ Head(c) \in ToSet(c)
           /\ Tail(c) \in Seq(S)
<1>1. 1 \in 1 .. Len(c) /\ Head(c) = c[1] /\ Tail(c) = RemoveAt(c, 1)
  BY TailIsRemoveAt, HeadTailProperties, EmptySeq, LenProperties
<1>2. /\ ToSet(RemoveAt(c, 1)) = {b \in ToSet(c) : b.id # c[1].id}
      /\ Unlike(RemoveAt(c, 1))
  BY <1>1, RemovedElements, Zenon
<1>3. c[1] \in ToSet(c)
  BY <1>1, ElementAt
<1>4. RemoveAt(c, 1) \in Seq(S)
  BY <1>1, RemoveAtType
<1> QED
  BY <1>1, <1>2, <1>3, <1>4, Zenon

\* Adding one to the back, with an id that the others do not have.
LEMMA AppendedElements ==
    ASSUME NEW S, NEW c \in Seq(S), NEW b \in S
    PROVE  /\ ToSet(Append(c, b)) = ToSet(c) \cup {b}
           /\ Unlike(c) /\ (\A d \in ToSet(c) : d.id # b.id) => Unlike(Append(c, b))
<1> DEFINE e == Append(c, b)
<1>1. /\ e \in Seq(S) /\ Len(e) = Len(c) + 1 /\ Len(c) \in Nat
      /\ \A i \in 1 .. Len(c) : e[i] = c[i]
      /\ e[Len(c) + 1] = b
  BY AppendProperties, LenProperties
<1> HIDE DEF e
<1>2. ASSUME NEW d \in ToSet(e)
      PROVE  d \in ToSet(c) \cup {b}
  <2>1. PICK i \in 1 .. Len(c) + 1 : e[i] = d
    BY <1>1, IndexOf
  <2>2. CASE i = Len(c) + 1
    BY <2>1, <2>2, <1>1
  <2>3. CASE i # Len(c) + 1
    <3>1. i \in 1 .. Len(c)
      BY <2>3, <1>1
    <3> QED
      BY <3>1, <2>1, <1>1, ElementAt
  <2> QED
    BY <2>2, <2>3
<1>3. ASSUME NEW d \in ToSet(c) \cup {b}
      PROVE  d \in ToSet(e)
  <2>1. CASE d = b
    <3>1. Len(c) + 1 \in 1 .. Len(e)
      BY <1>1
    <3> QED
      BY <3>1, <2>1, <1>1, ElementAt
  <2>2. CASE d \in ToSet(c)
    <3>1. PICK i \in 1 .. Len(c) : c[i] = d
      BY <2>2, IndexOf
    <3>2. i \in 1 .. Len(e) /\ e[i] = d
      BY <3>1, <1>1
    <3> QED
      BY <3>2, <1>1, ElementAt
  <2> QED
    BY <2>1, <2>2
<1>4. ASSUME Unlike(c), \A d \in ToSet(c) : d.id # b.id
      PROVE  Unlike(e)
  <2>1. \A i \in 1 .. Len(c) : c[i].id # b.id
    BY <1>4, ElementAt
  <2> QED
    BY <2>1, <1>1, <1>4 DEF Unlike
<1> QED
  BY <1>2, <1>3, <1>4 DEF e

\* Changing the sizes of some.
Sized(b, ids, n) == IF b.id \in ids THEN [b EXCEPT !.sz = @ + n] ELSE b

SizedOf(S, ids, n) == {Sized(b, ids, n) : b \in S}

LEMMA ResizedElements ==
    ASSUME NEW S, S = LimitBndl \/ S = StopBndl,
           NEW c \in Seq(S), NEW ids, NEW n \in Int,
           \A b \in ToSet(c) : Sized(b, ids, n) \in S
    PROVE  /\ Resize(c, ids, n) \in Seq(S)
           /\ Len(Resize(c, ids, n)) = Len(c)
           /\ \A i \in 1 .. Len(c) : Resize(c, ids, n)[i] = Sized(c[i], ids, n)
           /\ ToSet(Resize(c, ids, n)) = SizedOf(ToSet(c), ids, n)
           /\ Unlike(c) => Unlike(Resize(c, ids, n))
<1> DEFINE d == Resize(c, ids, n)
<1>1. /\ d = [i \in 1 .. Len(c) |-> Sized(c[i], ids, n)]
      /\ Len(c) \in Nat
  BY ElementsOf DEF Resize, Sized
<1>2. \A i \in 1 .. Len(c) : Sized(c[i], ids, n) \in S
  BY ElementAt
<1>3. /\ d \in Seq(S) /\ Len(d) = Len(c)
      /\ \A i \in 1 .. Len(c) : d[i] = Sized(c[i], ids, n)
  BY <1>1, <1>2
<1> HIDE DEF d
<1>4. ToSet(d) = SizedOf(ToSet(c), ids, n)
  <2>1. ToSet(d) = {d[i] : i \in 1 .. Len(c)}
    BY <1>3, ElementsOf
  <2>2. ToSet(c) = {c[i] : i \in 1 .. Len(c)}
    BY ElementsOf
  <2> QED
    BY <2>1, <2>2, <1>3 DEF SizedOf
<1>5. \A b \in S : Sized(b, ids, n).id = b.id
  BY DEF Sized, LimitBndl, StopBndl
<1>6. Unlike(c) => Unlike(d)
  BY <1>3, <1>5, ElementAt DEF Unlike
<1> QED
  BY <1>3, <1>4, <1>6 DEF d

-----------------------------------------------------------------------------
(* Orders: what clients send and what conditions issue.                     *)

Good(e) == e \in AdvElem /\ ElemFits(e) /\ e.sz > 0 /\ e.cond # "oco_second"

LEMMA BookFacts ==
    ASSUME BookTypeOK
    PROVE  /\ MaxLevel \in Nat
           /\ beg \in 1 .. MaxLevel /\ end \in 2 .. MaxLevel + 1 /\ beg + 3 <= end
           /\ Book \subseteq Levels /\ Levels = 1 .. MaxLevel /\ Book = beg .. end - 1
           /\ \A l \in Book : l \in 0 .. MaxLevel /\ l \in Int /\ l # 0
BY BookAssumption, PointerFacts DEF BookTypeOK, Book, Levels

LEMMA ParamFacts ==
    /\ Params \subseteq ParamsLeft
    /\ NoParam \in ParamsLeft
BY DEF Params, ParamsLeft, NoParam, Param, Sides

LEMMA OtoIsGood ==
    ASSUME BookTypeOK, NEW p \in ParamsLeft, InBook(p), p.sz > 0, NEW id \in Nat \ {0}
    PROVE  /\ Good(OtoOrder(p, id))
           /\ OtoOrder(p, id).id = id /\ OtoOrder(p, id).parent = 0
<1>1. /\ p.limit \in 0 .. MaxLevel /\ p.stop \in 0 .. MaxLevel
      /\ p.sz \in Nat \ {0} /\ p.side \in Sides
  BY BookFacts DEF InBook, ParamsLeft
<1>2. OtoOrder(p, id) \in AdvElem
  BY <1>1, ParamFacts DEF OtoOrder, Elem, AdvElem, OrderType, Conditions, Triggering
<1>3. ElemFits(OtoOrder(p, id))
  BY <1>1 DEF OtoOrder, Elem, ElemFits, CondFits, OrderType, InBook, Exit, ActiveStop
<1> QED
  BY <1>1, <1>2, <1>3 DEF Good, OtoOrder, Elem

LEMMA TargetIsGood ==
    ASSUME BookTypeOK, NEW cond \in {"bracket", "trailing_bracket"},
           NEW p1 \in ParamsLeft, NEW p2 \in ParamsLeft, NEW n \in Nat \ {0},
           NEW id \in Nat \ {0}, NEW parent \in Nat,
           TargetLevel(cond, p2) \in Book, CondFits(cond, p1, p2)
    PROVE  LET e == BracketOrder(cond, p1, p2, n, id, parent)
           IN  Good(e) /\ e.id = id /\ e.parent = parent
<1> DEFINE t == TargetLevel(cond, p2)
           e == BracketOrder(cond, p1, p2, n, id, parent)
<1>1. /\ t \in 0 .. MaxLevel /\ t # 0 /\ t \in Book
      /\ p2.side \in Sides /\ [p1 EXCEPT !.sz = n] \in ParamsLeft
      /\ [p1 EXCEPT !.sz = n].limit = p1.limit
  <2>1. t \in 0 .. MaxLevel /\ t # 0 /\ t \in Book
    BY BookFacts
  <2> QED
    BY <2>1 DEF ParamsLeft
<1> HIDE DEF t
<1>2. e = [id |-> id, type |-> "limit", side |-> p2.side, limit |-> t, stop |-> 0,
           sz |-> n, of |-> n,
           cond |-> IF cond = "bracket" THEN "bracket_active"
                    ELSE "trailing_bracket_active",
           trig |-> "partial", p1 |-> [p1 EXCEPT !.sz = n], p2 |-> NoParam,
           parent |-> parent]
  BY <1>1 DEF e, t, BracketOrder, Elem, Param, OrderType
<1> HIDE DEF e
<1>3. e \in AdvElem
  BY <1>1, <1>2, BookFacts, ParamFacts DEF AdvElem, ActiveConditions, Triggering
<1>4. cond = "bracket" => p1.limit \in Book \cup {0}
  BY DEF CondFits, InBook
<1>5. ElemFits(e)
  <2>1. e.cond \in {"bracket_active", "trailing_bracket_active"} /\ e.sz <= e.of
        /\ e.p1.limit = p1.limit /\ (e.cond = "bracket_active" => cond = "bracket")
    <3>1. e.cond = (IF cond = "bracket" THEN "bracket_active" ELSE "trailing_bracket_active")
          /\ e.sz = n /\ e.of = n
      BY <1>2
    <3>2. e.p1 = [p1 EXCEPT !.sz = n]
      BY <1>2
    <3>3. e.p1.limit = p1.limit
      BY <1>1, <3>2, Zenon
    <3> QED
      BY <3>1, <3>3
  <2> QED
    BY <1>1, <1>2, <1>4, <2>1 DEF ElemFits, CondFits, Exit, ActiveStop
<1>6. e.cond # "oco_second" /\ e.sz > 0 /\ e.id = id /\ e.parent = parent
  BY <1>2
<1> QED
  BY <1>3, <1>5, <1>6 DEF Good, e

LEMMA ActiveStopIsGood ==
    ASSUME BookTypeOK, NEW p1 \in ParamsLeft, NEW n \in Nat \ {0},
           NEW id \in Nat \ {0}, NEW parent \in Nat
    PROVE  LET e == TrailingStopOrder(p1, n, id, parent)
           IN  Good(e) /\ e.id = id /\ e.parent = parent
<1> DEFINE e == TrailingStopOrder(p1, n, id, parent)
<1>1. /\ p1.side \in Sides /\ [p1 EXCEPT !.sz = n] \in ParamsLeft
      /\ [p1 EXCEPT !.sz = n].side = p1.side
  BY DEF ParamsLeft
<1>2. e = [id |-> id, type |-> "stop", side |-> p1.side, limit |-> 0, stop |-> 0,
           sz |-> n, of |-> n, cond |-> "trailing_stop_active",
           trig |-> "partial", p1 |-> [p1 EXCEPT !.sz = n], p2 |-> NoParam,
           parent |-> parent]
  BY <1>1 DEF e, TrailingStopOrder, Elem, Param
<1> HIDE DEF e
<1>3. e \in AdvElem
  BY <1>1, <1>2, BookFacts, ParamFacts DEF AdvElem, ActiveConditions, Triggering
<1>4. ElemFits(e)
  <2>1. /\ e.type = "stop" /\ e.cond = "trailing_stop_active" /\ e.sz = n /\ e.of = n
        /\ e.p1.side = e.side
    BY <1>1, <1>2
  <2> QED
    BY <2>1 DEF ElemFits, CondFits, Exit, ActiveStop
<1>5. Good(e) /\ e.id = id /\ e.parent = parent
  BY <1>2, <1>3, <1>4 DEF Good
<1> QED
  BY <1>5 DEF e

\* A client's order with its parameters built.
LEMMA ClientOrderIsGood ==
    ASSUME BookTypeOK, NEW e \in AdvOrders, Accepted(e), NEW id \in Nat \ {0}
    PROVE  LET c == [WithParams(e) EXCEPT !.id = id]
           IN  /\ Good(c) /\ c.id = id /\ c.parent = 0
               /\ c.cond \in Conditions
<1> DEFINE w == WithParams(e)
           c == [w EXCEPT !.id = id]
<1>1. e \in ClientElem /\ e.type = OrderType(e) /\ e.of = e.sz
  BY AdvOrdersAssumption
<1>2. PICK p1 \in Params, p2 \in Params : w = [e EXCEPT !.p1 = p1, !.p2 = p2]
            /\ p1.limit = e.p1.limit /\ p1.stop = e.p1.stop
            /\ p2.limit = e.p2.limit /\ p2.stop = e.p2.stop
            /\ (e.cond \in {"oco", "oto"} => p1 = e.p1)
            /\ (e.cond = "trailing_bracket" => p2.side = Opp(e.side))
  <2>1. e.p1 \in Params /\ e.p2 \in Params /\ Opp(e.side) \in Sides /\ e.sz \in Nat
    BY <1>1 DEF ClientElem, Opp, Sides
  <2>2. CASE e.cond = "bracket"
    <3> DEFINE q1 == [e.p1 EXCEPT !.sz = e.sz]
               q2 == [e.p2 EXCEPT !.sz = e.sz]
    <3>1. w = [e EXCEPT !.p1 = q1, !.p2 = q2]
      BY <2>2, <1>1 DEF WithParams, Trailing, ClientElem
    <3>2. q1 \in Params /\ q2 \in Params
          /\ q1.limit = e.p1.limit /\ q1.stop = e.p1.stop
          /\ q2.limit = e.p2.limit /\ q2.stop = e.p2.stop
      BY <2>1 DEF Params
    <3> QED
      BY <3>1, <3>2, <2>2
  <2>3. CASE e.cond = "trailing_bracket"
    <3> DEFINE q1 == [e.p1 EXCEPT !.side = Opp(e.side), !.sz = e.sz]
               q2 == [e.p2 EXCEPT !.side = Opp(e.side), !.sz = e.sz]
    <3>1. w = [e EXCEPT !.p1 = q1, !.p2 = q2]
      BY <2>3, <1>1 DEF WithParams, Trailing, ClientElem
    <3>2. q1 \in Params /\ q2 \in Params
          /\ q1.limit = e.p1.limit /\ q1.stop = e.p1.stop
          /\ q2.limit = e.p2.limit /\ q2.stop = e.p2.stop /\ q2.side = Opp(e.side)
      BY <2>1 DEF Params
    <3> QED
      BY <3>1, <3>2, <2>3
  <2>4. CASE e.cond = "trailing_stop"
    <3> DEFINE q1 == [e.p1 EXCEPT !.side = Opp(e.side), !.sz = e.sz]
    <3>1. w = [e EXCEPT !.p1 = q1, !.p2 = e.p2]
      BY <2>4, <1>1 DEF WithParams, Trailing, ClientElem
    <3>2. q1 \in Params /\ q1.limit = e.p1.limit /\ q1.stop = e.p1.stop
      BY <2>1 DEF Params
    <3> QED
      BY <3>1, <3>2, <2>1, <2>4
  <2>5. CASE e.cond \notin {"bracket", "trailing_bracket", "trailing_stop"}
    <3>1. w = [e EXCEPT !.p1 = e.p1, !.p2 = e.p2]
      BY <2>5, <1>1 DEF WithParams, ClientElem
    <3> QED
      BY <3>1, <2>1, <2>5
  <2> QED
    BY <2>2, <2>3, <2>4, <2>5
<1>3. c = [id |-> id, type |-> e.type, side |-> e.side, limit |-> e.limit,
           stop |-> e.stop, sz |-> e.sz, of |-> e.sz, cond |-> e.cond,
           trig |-> e.trig, p1 |-> p1, p2 |-> p2, parent |-> 0]
  <2>1. c = [[e EXCEPT !.p1 = p1, !.p2 = p2] EXCEPT !.id = id]
    BY <1>2 DEF c
  <2> HIDE DEF c, w
  <2> QED
    BY <1>1, <2>1 DEF ClientElem
<1> HIDE DEF w, c
<1>4. e.limit \in Book \cup {0} /\ e.stop \in Book \cup {0}
  BY DEF Accepted, InBook
<1>5. c \in AdvElem
  BY <1>1, <1>3, <1>4, ParamFacts, BookFacts
  DEF ClientElem, AdvElem, Triggering
<1>6. /\ e.type = "limit" => e.limit \in Book
      /\ e.type = "stop" => e.stop \in Book
  BY <1>1, <1>4 DEF OrderType
<1>7. CondFits(c.cond, c.p1, c.p2)
  BY <1>2, <1>3, <1>1 DEF Accepted, TicketBuilt, BracketFits, Trailing, InBook, CondFits,
     ClientElem, Params
<1>8. c.cond = "oco" => OcoFits(c)
  BY <1>2, <1>3, <1>1 DEF Accepted, TicketBuilt, Trailing, InBook, OcoFits,
     ClientElem, Params
<1>9. e.cond = "trailing_bracket" /\ e.limit # 0 => TargetFits(p2, e.limit)
  <2> SUFFICES ASSUME e.cond = "trailing_bracket", e.limit # 0
               PROVE  TargetFits(p2, e.limit)
    OBVIOUS
  <2>1. e.type = "limit" \/ e.type = "stop"
    BY <1>1 DEF OrderType
  <2>2. NTicksFit(e, e.limit)
    BY <2>1 DEF Accepted, Trailing
  <2>3. Opp(p2.side) = e.side
    BY <1>1, <1>2 DEF ClientElem, Opp, Sides
  <2> QED
    BY <2>2, <2>3, <1>2 DEF NTicksFit, TargetFits
<1>10. e.cond \in Conditions /\ e.sz \in Nat \ {0}
  BY <1>1 DEF ClientElem
<1>11. ElemFits(c)
  BY <1>3, <1>4, <1>6, <1>7, <1>8, <1>9, <1>10
  DEF ElemFits, Conditions, Exit, ActiveStop
<1> QED
  BY <1>3, <1>5, <1>10, <1>11 DEF Good, Conditions, c, w

-----------------------------------------------------------------------------
(* Where an order is executed.                                              *)

\* No advanced run grows the book: its levels stay.
LEMMA BookStays ==
    ASSUME WholeNext
    PROVE  beg' = beg /\ end' = end /\ Book' = Book
<1>1. ASSUME AdvClient
      PROVE  beg' = beg /\ end' = end
  BY <1>1 DEF AdvClient, InsertAdvOrder, PullAdvOrder, ReplaceAdvOrder
<1>2. ASSUME WholeWindow
      PROVE  beg' = beg /\ end' = end
  BY <1>2 DEF WholeWindow, PullLinkedOrder, RouteToBook, RouteToStops, Match, CancelOther,
     TriggerOther, GrowExits, IssueExits, ShrinkOtherExit, Reduce, LeaveLoop,
     LiftTrailingStop, PlaceTrailingStop, LeaveTrade, TakeBuyChain, TakeSellChain,
     TakeChain, CancelForStop, TriggerHead, EndChain, EndBuyScan, EndSellScan, Settle,
     ThrowUnfilled, ConcludeBasic, ConcludeOto, InjectSecond, ConcludeOco, ConcludeEntry,
     ConcludeTarget, ConcludeTargetAlone, InsertTrailingStop, NextInternal, CloseWindow,
     TradeHasOccured
<1> QED
  BY <1>1, <1>2 DEF WholeNext, Book

\* Orders fit or not whatever the step: that depends on the levels only.
LEMMA FitsStay ==
    ASSUME beg' = beg, end' = end
    PROVE  /\ \A e : ElemFits(e)' <=> ElemFits(e)
           /\ \A c, p1, p2 : CondFits(c, p1, p2)' <=> CondFits(c, p1, p2)
           /\ \A p, l : TargetFits(p, l)' <=> TargetFits(p, l)
           /\ \A s : NullLow(s)' = NullLow(s) /\ NullHigh(s)' = NullHigh(s)
BY DEF ElemFits, CondFits, OcoFits, TargetFits, InBook, Book, NullLow, NullHigh

LEMMA CurFacts ==
    ASSUME AdvIInv, pc \notin Between \cup {"pull_linked"}
    PROVE  /\ cur # NoOrder
           /\ cur \in AdvElem
           /\ cur.side \in Sides /\ Opp(cur.side) \in Sides
           /\ cur.sz \in Nat /\ cur.of \in Nat /\ cur.sz <= cur.of
           /\ ElemFits(cur)
<1>1. cur # NoOrder /\ cur \in AdvElem /\ ElemFits(cur)
  BY DEF AdvIInv, AdvControl, AdvTypes, OrdersFit, Between
<1> QED
  BY <1>1 DEF AdvElem, ElemFits, Opp, Sides

LEMMA CurLevel ==
    ASSUME AdvIInv, pc \notin Between \cup {"pull_linked"}, cur.type # "stop"
    PROVE  PLevel(cur) \in Book
BY CurFacts, BookFacts DEF AdvIInv, AdvTypes, ElemFits, PLevel, Book, AdvElem

\* The chain that cur trades with.
LEMMA FrontFacts ==
    ASSUME AdvIInv, pc \in {"matched", "reduce"} \/ (pc = "trade" /\ KeepsTrading(cur)),
           NEW r, r = Opp(cur.side)
    PROVE  /\ r \in Sides
           /\ best[r] \in Book /\ best[r] \in Levels
           /\ limits[best[r]] \in Seq(LimitBndl)
           /\ limits[best[r]] # <<>>
           /\ 1 \in 1 .. Len(limits[best[r]])
           /\ FrontOrder = Head(limits[best[r]])
           /\ FrontOrder = limits[best[r]][1]
           /\ FrontOrder \in LimitBndl
           /\ FrontOrder \in ToSet(limits[best[r]])
           /\ Cached(FrontOrder.id, "limit", best[r])
<1>1. BookTypeOK /\ LimitWindows /\ pc \in Trading
  BY DEF AdvIInv, AdvTypes, BookInv, Trading
<1>2. cur.side \in Sides /\ r \in Sides /\ cur.type # "stop"
  <2>1. pc \notin Between \cup {"pull_linked"}
    BY DEF Between
  <2> QED
    BY <1>1, <2>1, CurFacts DEF AdvIInv, AdvControl
<1>3. best[r] \in Book
  <2>1. CASE pc \in {"matched", "reduce"}
    BY <2>1 DEF AdvIInv, FrontMatches
  <2>2. CASE pc = "trade" /\ KeepsTrading(cur)
    <3>1. PLevel(cur) \in Book
      BY <1>2, <2>2, CurLevel DEF Between
    <3>2. best[r] # NullLow(r)
      BY <1>1, <1>2, <2>2, <3>1, BookFacts DEF KeepsTrading, Geq, NullLow, Sides
    <3> QED
      BY <1>1, <1>2, <3>2 DEF LimitWindows
  <2> QED
    BY <2>1, <2>2
<1>4. best[r] \in Levels /\ limits[best[r]] \in Seq(LimitBndl)
  BY <1>1, <1>3, BookFacts DEF BookTypeOK
<1>5. limits[best[r]] # <<>>
  BY <1>1, <1>2, <1>3, BookFacts DEF LimitWindows, NullLow, Sides
<1>6. /\ 1 \in 1 .. Len(limits[best[r]])
      /\ Head(limits[best[r]]) = limits[best[r]][1]
  BY <1>4, <1>5, HeadTailProperties, EmptySeq, LenProperties
<1>7. limits[best[r]][1] \in ToSet(limits[best[r]]) /\ limits[best[r]][1] \in LimitBndl
  BY <1>4, <1>6, ElementAt
<1>8. Cached(limits[best[r]][1].id, "limit", best[r])
  BY <1>4, <1>7 DEF AdvIInv, Placed, ChainsAreCached
<1> QED
  BY <1>2, <1>3, <1>4, <1>5, <1>6, <1>7, <1>8, Zenon DEF FrontOrder

LEMMA LastIdFacts ==
    ASSUME AdvIInv
    PROVE  /\ BookTypeOK
           /\ last_id \in Nat /\ last_id + 1 \in Nat \ {0} /\ last_id + 2 \in Nat \ {0}
           /\ \A id \in Known : id <= last_id
           /\ cur # NoOrder => cur.id <= last_id
BY DEF AdvIInv, AdvTypes, Fresh, CurIsFresh

\* The orders that become cur.
LEMMA ClientCur ==
    ASSUME AdvIInv, NEW e \in AdvOrders, Accepted(e)
    PROVE  LET c == [WithParams(e) EXCEPT !.id = last_id + 1]
           IN  /\ Good(c) /\ c \in AdvElem /\ c.id = last_id + 1 /\ c.parent = 0
               /\ c.cond \in Conditions
               /\ c # NoOrder
<1> DEFINE c == [WithParams(e) EXCEPT !.id = last_id + 1]
<1>1. Good(c) /\ c.id = last_id + 1 /\ c.parent = 0 /\ c.cond \in Conditions
  BY LastIdFacts, ClientOrderIsGood
<1> HIDE DEF c
<1>2. c # NoOrder
  BY <1>1, LastIdFacts DEF NoOrder
<1> QED
  BY <1>1, <1>2 DEF c, Good

LEMMA SecondCur ==
    ASSUME AdvIInv, pc = "condition", cur.cond = "oco"
    PROVE  LET c == Elem(cur.p1, last_id + 1, "oco_second", cur.trig, NoParam,
                         NoParam, cur.id)
           IN  /\ c \in AdvElem /\ ElemFits(c) /\ c.sz > 0
               /\ c.id = last_id + 1 /\ c.parent = cur.id /\ c.cond = "oco_second"
               /\ c # NoOrder
<1> DEFINE c == Elem(cur.p1, last_id + 1, "oco_second", cur.trig, NoParam, NoParam, cur.id)
<1>1. cur \in AdvElem /\ ElemFits(cur) /\ OcoFits(cur)
  BY CurFacts DEF ElemFits, Between
<1>2. /\ cur.p1 \in ParamsLeft /\ cur.trig \in Triggering /\ cur.id \in Nat
      /\ InBook(cur.p1) /\ OrderType(cur.p1) # "market" /\ cur.p1.sz > 0
  BY <1>1 DEF AdvElem, OcoFits
<1>3. /\ cur.p1.limit \in 0 .. MaxLevel /\ cur.p1.stop \in 0 .. MaxLevel
      /\ cur.p1.sz \in Nat \ {0} /\ cur.p1.side \in Sides
      /\ cur.p1.limit \in Book \cup {0} /\ cur.p1.stop \in Book \cup {0}
  <2>1. \A l \in Book \cup {0} : l \in 0 .. MaxLevel
    BY LastIdFacts, BookFacts
  <2> QED
    BY <1>2, <2>1 DEF InBook, ParamsLeft
<1>4. c = [id |-> last_id + 1, type |-> OrderType(cur.p1), side |-> cur.p1.side,
           limit |-> cur.p1.limit, stop |-> cur.p1.stop, sz |-> cur.p1.sz,
           of |-> cur.p1.sz, cond |-> "oco_second", trig |-> cur.trig,
           p1 |-> NoParam, p2 |-> NoParam, parent |-> cur.id]
  BY DEF c, Elem
<1> HIDE DEF c
<1>5. OrderType(cur.p1) \in {"limit", "stop"}
  BY <1>2 DEF OrderType
<1>6. c \in AdvElem
  BY <1>2, <1>3, <1>4, <1>5, LastIdFacts, ParamFacts DEF AdvElem
<1>7. ElemFits(c)
  <2>1. /\ OrderType(cur.p1) = "limit" => cur.p1.limit \in Book
        /\ OrderType(cur.p1) = "stop" => cur.p1.stop \in Book
    BY <1>3 DEF OrderType
  <2> QED
    BY <1>3, <1>4, <1>5, <2>1 DEF ElemFits, CondFits, Exit, ActiveStop
<1>8. c.id = last_id + 1 /\ c.parent = cur.id /\ c.cond = "oco_second" /\ c.sz > 0
  BY <1>3, <1>4
<1>9. c # NoOrder
  BY <1>8, LastIdFacts DEF NoOrder
<1> QED
  BY <1>6, <1>7, <1>8, <1>9 DEF c

LEMMA NextCur ==
    ASSUME AdvIInv, internal_queue # <<>>
    PROVE  /\ Head(internal_queue) \in AdvElem /\ ElemFits(Head(internal_queue))
           /\ Head(internal_queue).sz > 0
           /\ Head(internal_queue) # NoOrder
           /\ Head(internal_queue) = internal_queue[1]
           /\ 1 \in 1 .. Len(internal_queue)
           /\ Tail(internal_queue) \in Seq(AdvElem)
           /\ Len(Tail(internal_queue)) = Len(internal_queue) - 1
           /\ \A i \in 1 .. Len(Tail(internal_queue)) :
                  /\ i + 1 \in 1 .. Len(internal_queue)
                  /\ Tail(internal_queue)[i] = internal_queue[i + 1]
<1>1. internal_queue \in Seq(AdvElem)
  BY DEF AdvIInv, AdvTypes
<1>2. /\ 1 \in 1 .. Len(internal_queue)
      /\ Head(internal_queue) = internal_queue[1]
      /\ Head(internal_queue) \in AdvElem
      /\ Tail(internal_queue) \in Seq(AdvElem)
      /\ Len(Tail(internal_queue)) = Len(internal_queue) - 1
      /\ \A i \in 1 .. Len(Tail(internal_queue)) :
             Tail(internal_queue)[i] = internal_queue[i + 1]
  BY <1>1, HeadTailProperties, EmptySeq, LenProperties
<1>3. ElemFits(internal_queue[1]) /\ internal_queue[1].sz > 0
  BY <1>2 DEF AdvIInv, OrdersFit
<1>4. Head(internal_queue) # NoOrder
  BY <1>2 DEF AdvElem, NoOrder
<1> QED
  BY <1>1, <1>2, <1>3, <1>4, LenProperties

\* The orders that are pushed to the queue.
Issuable(es) ==
    /\ es \in Seq(AdvElem)
    /\ \A i \in 1 .. Len(es) : /\ Good(es[i])
                               /\ es[i].id = last_id + i
                               /\ es[i].parent <= last_id

LEMMA OneIsIssuable ==
    ASSUME NEW e, Good(e), e.id = last_id + 1, e.parent <= last_id
    PROVE  Issuable(<<e>>)
BY DEF Issuable, Good

LEMMA TwoAreIssuable ==
    ASSUME NEW e, NEW f, Good(e), Good(f), e.id = last_id + 1, f.id = last_id + 2,
           e.parent <= last_id, f.parent <= last_id
    PROVE  Issuable(<<e>> \o <<f>>)
<1>1. /\ <<e>> \o <<f>> \in Seq(AdvElem)
      /\ Len(<<e>> \o <<f>>) = 2
      /\ (<<e>> \o <<f>>)[1] = e /\ (<<e>> \o <<f>>)[2] = f
  <2>1. /\ <<e>> \in Seq(AdvElem) /\ <<f>> \in Seq(AdvElem)
        /\ Len(<<e>>) = 1 /\ Len(<<f>>) = 1 /\ <<e>>[1] = e /\ <<f>>[1] = f
    BY DEF Good
  <2> QED
    BY <2>1, ConcatProperties
<1> QED
  BY <1>1 DEF Issuable

LEMMA OtoIsIssuable ==
    ASSUME AdvIInv, NEW p \in ParamsLeft, InBook(p), p.sz > 0
    PROVE  Issuable(<<OtoOrder(p, last_id + 1)>>)
BY LastIdFacts, OtoIsGood, OneIsIssuable

LEMMA CondFacts ==
    ASSUME AdvIInv, NEW x, AdvOf(x).cond # "none"
    PROVE  /\ x \in DOMAIN adv /\ AdvOf(x) = adv[x] /\ adv[x] \in CondElem
           /\ adv[x].p1 \in ParamsLeft /\ adv[x].p2 \in ParamsLeft
           /\ CondFits(adv[x].cond, adv[x].p1, adv[x].p2)
           /\ Exit(adv[x].cond) => adv[x].trig = "partial"
<1>1. x \in DOMAIN adv /\ AdvOf(x) = adv[x]
  BY DEF AdvOf, NoCondition, Condition
<1> QED
  BY <1>1 DEF AdvIInv, AdvTypes, CondTypes, CondElem, CondsFit

LEMMA FrontIssuesOto ==
    ASSUME AdvIInv, pc = "matched", AdvOf(FrontOrder.id).cond = "oto"
    PROVE  Issuable(<<OtoOrder(adv[FrontOrder.id].p1, last_id + 1)>>)
BY CondFacts, OtoIsIssuable DEF CondFits

LEMMA ContingentIsIssuable ==
    ASSUME AdvIInv, NEW a, Entry(a.cond), a.p1 \in ParamsLeft, a.p2 \in ParamsLeft,
           CondFits(a.cond, a.p1, a.p2), NEW n \in Nat \ {0}, NEW parent \in Nat,
           parent <= last_id,
           a.cond = "trailing_bracket" => TargetLevel(a.cond, a.p2) \in Book
    PROVE  Issuable(<<ContingentOrder(a, n, last_id + 1, parent)>>)
<1>1. CASE a.cond = "trailing_stop"
  <2>1. LET e == TrailingStopOrder(a.p1, n, last_id + 1, parent)
        IN  Good(e) /\ e.id = last_id + 1 /\ e.parent = parent
    BY LastIdFacts, ActiveStopIsGood
  <2> QED
    BY <1>1, <2>1, OneIsIssuable DEF ContingentOrder
<1>2. CASE a.cond # "trailing_stop"
  <2>1. a.cond \in {"bracket", "trailing_bracket"}
    BY <1>2 DEF Entry
  <2>2. TargetLevel(a.cond, a.p2) \in Book
    BY <2>1 DEF CondFits, TargetLevel
  <2>3. LET e == BracketOrder(a.cond, a.p1, a.p2, n, last_id + 1, parent)
        IN  Good(e) /\ e.id = last_id + 1 /\ e.parent = parent
    BY <2>1, <2>2, LastIdFacts, TargetIsGood
  <2> QED
    BY <1>2, <2>3, OneIsIssuable DEF ContingentOrder
<1> QED
  BY <1>1, <1>2

LEMMA FrontIssuesExits ==
    ASSUME AdvIInv, pc = "matched", Entry(AdvOf(FrontOrder.id).cond)
    PROVE  Issuable(<<ContingentOrder(AdvOf(FrontOrder.id), hit, last_id + 1,
                                      FrontOrder.id)>>)
<1> DEFINE x == FrontOrder.id
           a == AdvOf(x)
           r == Opp(cur.side)
<1>1. /\ x \in DOMAIN adv /\ a = adv[x] /\ a.p1 \in ParamsLeft /\ a.p2 \in ParamsLeft
      /\ CondFits(a.cond, a.p1, a.p2)
  BY CondFacts DEF Entry
<1>2. Cached(x, "limit", best[r]) /\ FrontOrder \in LimitBndl
  BY FrontFacts
<1>3. last = best[r] /\ hit \in 1 .. FrontOrder.sz
  BY DEF AdvIInv, FrontMatches
<1>4. hit \in Nat \ {0} /\ x \in Nat
  BY <1>2, <1>3 DEF LimitBndl
<1>5. x <= last_id
  BY <1>2, LastIdFacts DEF Known, Cached
<1>6. ASSUME a.cond = "trailing_bracket"
      PROVE  TargetLevel(a.cond, a.p2) \in Book
  <2>1. x \in DOMAIN id_cache /\ id_cache[x].type = "limit" /\ id_cache[x].p = best[r]
    BY <1>2 DEF Cached
  <2>2. TargetFits(adv[x].p2, id_cache[x].p)
    BY <1>1, <1>6, <2>1 DEF AdvIInv, CondsFit
  <2> QED
    BY <1>1, <1>3, <1>6, <2>1, <2>2 DEF TargetFits, TargetLevel
<1> QED
  BY <1>1, <1>4, <1>5, <1>6, ContingentIsIssuable

\* The stop order at the head of a triggered chain.
LEMMA TakenFacts ==
    ASSUME AdvIInv, cchain # <<>>
    PROVE  /\ pc \in {"chain_buy", "chain_sell"}
           /\ held = NoHold
           /\ cchain \in Seq(StopBndl)
           /\ Head(cchain) = cchain[1] /\ 1 \in 1 .. Len(cchain)
           /\ Head(cchain) \in StopBndl
           /\ Head(cchain) \in ToSet(cchain)
           /\ Head(cchain) \in StopOrders
           /\ Head(cchain).limit \in Book \cup {0}
           /\ Head(cchain).id \in DOMAIN id_cache
           /\ id_cache[Head(cchain).id].type = "stop"
           /\ Head(cchain).id <= last_id
<1>1. cchain \in Seq(StopBndl)
  BY DEF AdvIInv, AdvTypes
<1>2. /\ Head(cchain) = cchain[1] /\ 1 \in 1 .. Len(cchain)
  BY <1>1, HeadTailProperties, EmptySeq, LenProperties
<1>3. Head(cchain) \in StopBndl /\ Head(cchain) \in ToSet(cchain)
  BY <1>1, <1>2, ElementAt
<1>4. Head(cchain) \in StopOrders
  BY <1>3 DEF StopOrders
<1>5. Head(cchain).limit \in Book \cup {0}
  BY <1>4 DEF AdvIInv, CondsFit
<1>6. Head(cchain).id \in DOMAIN id_cache /\ id_cache[Head(cchain).id].type = "stop"
  BY <1>3 DEF AdvIInv, Placed, TakenAreCached
<1>7. Head(cchain).id <= last_id
  BY <1>6, LastIdFacts DEF Known
<1>8. pc \in {"chain_buy", "chain_sell"} /\ held = NoHold
  BY DEF AdvIInv, AdvControl
<1> QED
  BY <1>1, <1>2, <1>3, <1>4, <1>5, <1>6, <1>7, <1>8

LEMMA HeadIssues ==
    ASSUME AdvIInv, cchain # <<>>
    PROVE  Issuable(Issued(Head(cchain), AdvOf(Head(cchain).id)))
<1> DEFINE b == Head(cchain)
           a == AdvOf(b.id)
           carried == IF Trailing(a.cond) THEN a ELSE NoCondition
           entry == [Elem(Param(b.side, b.limit, 0, b.sz), last_id + 1, carried.cond,
                          carried.trig, carried.p1, carried.p2, b.id)
                     EXCEPT !.type = IF b.limit # 0 THEN "limit" ELSE "market"]
<1>1. /\ b \in StopBndl /\ b \in StopOrders /\ b.limit \in Book \cup {0} /\ b.id <= last_id
  BY TakenFacts
<1>2. /\ b.id \in Nat /\ b.sz \in Nat \ {0} /\ b.side \in Sides
      /\ b.limit \in 0 .. MaxLevel
  BY <1>1 DEF StopBndl
<1>3. a.cond # "none" => /\ a \in CondElem /\ a = adv[b.id]
                         /\ a.p1 \in ParamsLeft /\ a.p2 \in ParamsLeft
                         /\ CondFits(a.cond, a.p1, a.p2)
  BY CondFacts
<1>4. b.limit # 0 /\ a.cond = "trailing_bracket" => TargetFits(a.p2, b.limit)
  BY <1>1, <1>3 DEF AdvIInv, CondsFit
<1> HIDE DEF a, b
<1>5. /\ carried.cond \in {"none", "trailing_stop", "trailing_bracket"}
      /\ carried.cond # "none" => carried.cond = a.cond
      /\ carried.trig \in Triggering
      /\ carried.p1 \in ParamsLeft /\ carried.p2 \in ParamsLeft
      /\ carried.cond = "trailing_bracket" => carried.p2 = a.p2
  <2>1. CASE Trailing(a.cond)
    BY <2>1, <1>3 DEF Trailing, CondElem
  <2>2. CASE ~ Trailing(a.cond)
    BY <2>2, ParamFacts DEF NoCondition, Condition, Triggering
  <2> QED
    BY <2>1, <2>2
<1> HIDE DEF carried
<1>6. entry = [id |-> last_id + 1, type |-> IF b.limit # 0 THEN "limit" ELSE "market",
               side |-> b.side, limit |-> b.limit, stop |-> 0, sz |-> b.sz, of |-> b.sz,
               cond |-> carried.cond, trig |-> carried.trig, p1 |-> carried.p1,
               p2 |-> carried.p2, parent |-> b.id]
  BY DEF entry, Elem, Param
<1> HIDE DEF entry
<1>7. entry \in AdvElem
  <2>1. /\ (IF b.limit # 0 THEN "limit" ELSE "market") \in {"limit", "market", "stop"}
        /\ carried.cond \in Conditions \cup ActiveConditions \cup {"oco_second"}
        /\ 0 \in 0 .. MaxLevel
    BY <1>5, LastIdFacts, BookFacts DEF Conditions
  <2> QED
    BY <1>2, <1>5, <1>6, <2>1, LastIdFacts DEF AdvElem
<1>8. ElemFits(entry)
  <2>1. /\ entry.type = "limit" => b.limit # 0
        /\ entry.limit = b.limit
        /\ entry.cond = carried.cond /\ entry.p2 = carried.p2
    BY <1>2, <1>6
  <2>5. entry.type # "stop" /\ entry.sz <= entry.of
    BY <1>2, <1>6
  <2>2. entry.cond = "trailing_bracket" /\ entry.limit # 0 => TargetFits(entry.p2, entry.limit)
    BY <1>4, <1>5, <2>1
  <2>3. entry.cond \in {"none", "trailing_stop", "trailing_bracket"}
    BY <2>1, <1>5
  <2>4. entry.type = "limit" => entry.limit \in Book
    BY <1>1, <2>1, <1>6
  <2> QED
    BY <2>2, <2>3, <2>4, <2>5 DEF ElemFits, CondFits, Exit, ActiveStop
<1>9. Good(entry) /\ entry.id = last_id + 1 /\ entry.parent <= last_id
  BY <1>1, <1>2, <1>5, <1>6, <1>7, <1>8 DEF Good
<1>10. CASE a.cond = "oto"
  <2> DEFINE f == OtoOrder(a.p1, last_id + 2)
  <2>1. Good(f) /\ f.id = last_id + 2 /\ f.parent = 0
    BY <1>3, <1>10, LastIdFacts, OtoIsGood DEF CondFits
  <2>2. Issued(b, a) = <<entry>> \o <<f>>
    BY <1>10 DEF Issued, entry, carried
  <2> HIDE DEF f
  <2>3. f.parent <= last_id
    BY <2>1, LastIdFacts
  <2> QED
    BY <1>9, <2>1, <2>2, <2>3, TwoAreIssuable DEF a, b
<1>11. CASE a.cond = "bracket"
  <2> DEFINE f == BracketOrder(a.cond, a.p1, a.p2, b.sz, last_id + 2, b.id)
  <2>1. TargetLevel(a.cond, a.p2) \in Book
    BY <1>3, <1>11 DEF TargetLevel, CondFits
  <2>2. Good(f) /\ f.id = last_id + 2 /\ f.parent = b.id
    <3>1. /\ a.cond \in {"bracket", "trailing_bracket"} /\ a.p1 \in ParamsLeft
          /\ a.p2 \in ParamsLeft /\ CondFits(a.cond, a.p1, a.p2)
      BY <1>3, <1>11
    <3>2. BookTypeOK /\ last_id + 2 \in Nat \ {0} /\ b.sz \in Nat \ {0} /\ b.id \in Nat
      BY <1>2, LastIdFacts
    <3>3. LET e == BracketOrder(a.cond, a.p1, a.p2, b.sz, last_id + 2, b.id)
          IN  Good(e) /\ e.id = last_id + 2 /\ e.parent = b.id
      <4> HIDE DEF f
      <4> QED
        BY ONLY <2>1, <3>1, <3>2, TargetIsGood
    <3> QED
      BY <3>3
  <2>3. Issued(b, a) = <<entry>> \o <<f>>
    BY <1>11 DEF Issued, entry, carried
  <2> HIDE DEF f
  <2> QED
    BY <1>1, <1>9, <2>2, <2>3, TwoAreIssuable DEF a, b
<1>12. CASE a.cond \notin {"oto", "bracket"}
  <2>1. Issued(b, a) = <<entry>> \o << >>
    BY <1>12 DEF Issued, entry, carried
  <2>2. <<entry>> \in Seq(AdvElem)
    BY <1>7
  <2>3. <<entry>> \o << >> = <<entry>>
    BY <2>2, ConcatEmptySeq
  <2> QED
    BY <1>9, <2>1, <2>3, OneIsIssuable DEF a, b
<1> QED
  BY <1>10, <1>11, <1>12

LEMMA OwnFacts ==
    ASSUME AdvIInv, pc = "condition", cur.cond \in Conditions \ {"none"}
    PROVE  /\ Own \in CondElem
           /\ Own.cond = cur.cond /\ Own.p1 = cur.p1 /\ Own.p2 = cur.p2
           /\ Own.link = 0 /\ Own.active = <<0, 0>> /\ Own.nticks = 0
           /\ Own.trig = cur.trig
           /\ cur.p1 \in ParamsLeft /\ cur.p2 \in ParamsLeft
           /\ CondFits(cur.cond, cur.p1, cur.p2)
           /\ FilledSize \in Nat
           /\ Fills => FilledSize > 0
           /\ cur.id \in Nat \ {0} /\ cur.id <= last_id
<1>1. cur \in AdvElem /\ ElemFits(cur) /\ cur # NoOrder
  BY CurFacts DEF Between
<1>2. /\ cur.p1 \in ParamsLeft /\ cur.p2 \in ParamsLeft /\ cur.trig \in Triggering
      /\ CondFits(cur.cond, cur.p1, cur.p2) /\ cur.sz \in Nat /\ cur.of \in Nat \ {0}
      /\ cur.sz <= cur.of /\ cur.id \in Nat \ {0}
  BY <1>1 DEF AdvElem, ElemFits
<1>3. FilledSize \in Nat /\ (Fills => FilledSize > 0)
  BY <1>2 DEF FilledSize, Fills
<1>4. cur.id <= last_id
  BY <1>1, LastIdFacts
<1> QED
  BY <1>2, <1>3, <1>4 DEF Own, Condition, CondElem

LEMMA CurIssuesOto ==
    ASSUME AdvIInv, pc = "condition", cur.cond = "oto"
    PROVE  Issuable(<<OtoOrder(cur.p1, last_id + 1)>>)
BY OwnFacts, OtoIsIssuable DEF CondFits, Conditions

LEMMA CurIssuesExits ==
    ASSUME AdvIInv, pc = "condition", Entry(cur.cond), Fills,
           cur.cond = "trailing_bracket" => TargetLevel(cur.cond, cur.p2) \in Book
    PROVE  Issuable(<<ContingentOrder(Own, FilledSize, last_id + 1, cur.id)>>)
<1>1. cur.cond \in Conditions \ {"none"}
  BY DEF Entry, Conditions
<1>2. FilledSize \in Nat \ {0}
  BY <1>1, OwnFacts
<1> QED
  BY <1>1, <1>2, OwnFacts, ContingentIsIssuable

\* One step keeps what holds at each place.
LEMMA ControlStep ==
    ASSUME AdvIInv, WholeNext
    PROVE  AdvControl'
<1> USE DEF AdvPlaces, Between, Trading, Scanning
<1>1. AdvControl /\ BookTypeOK
  BY DEF AdvIInv, AdvTypes
<1>2. Book' = Book
  BY BookStays
<1>3. ASSUME NEW e \in AdvOrders, InsertAdvOrder(e)
      PROVE  AdvControl'
  <2>1. cur' # NoOrder /\ cur'.sz > 0
    BY <1>3, ClientCur DEF InsertAdvOrder, StartOrder, Good
  <2> QED
    BY <1>1, <1>2, <1>3, <2>1 DEF AdvControl, InsertAdvOrder, StartOrder, adv_vars
<1>4. ASSUME NEW id \in DOMAIN id_cache, PullAdvOrder(id)
      PROVE  AdvControl'
  BY <1>1, <1>2, <1>4 DEF AdvControl, PullAdvOrder
<1>5. ASSUME NEW id \in DOMAIN id_cache, NEW e \in AdvOrders, ReplaceAdvOrder(id, e)
      PROVE  AdvControl'
  <2>1. cur' # NoOrder /\ cur'.sz > 0 /\ cur'.cond # "trailing_stop_active"
    BY <1>5, ClientCur DEF ReplaceAdvOrder, Good, Conditions
  <2> QED
    BY <1>1, <1>2, <1>5, <2>1 DEF AdvControl, ReplaceAdvOrder
<1>6. CASE PullLinkedOrder
  BY <1>1, <1>2, <1>6 DEF AdvControl, PullLinkedOrder
<1>7. CASE RouteToBook \/ RouteToStops
  <2>1. ElemFits(cur)
    BY <1>7, CurFacts DEF RouteToBook, RouteToStops
  <2> QED
    BY <1>1, <1>2, <1>7, <2>1
    DEF AdvControl, RouteToBook, RouteToStops, ElemFits, ActiveStop, adv_vars
<1>8. CASE Match
  <2>1. best[Opp(cur.side)] \in Book
    BY <1>8, FrontFacts DEF Match
  <2>2. cur \in AdvElem
    BY <1>8, CurFacts DEF Match
  <2>3. cur' # NoOrder /\ cur'.type = cur.type /\ cur'.cond = cur.cond
    BY <1>8, <2>2 DEF Match, TradeHasOccured, AdvElem, NoOrder
  <2> QED
    BY <1>1, <1>2, <1>8, <2>1, <2>3 DEF AdvControl, Match, TradeHasOccured
<1>9. CASE CancelOther \/ TriggerOther \/ GrowExits \/ IssueExits \/ ShrinkOtherExit \/ Reduce
  BY <1>1, <1>2, <1>9
  DEF AdvControl, CancelOther, TriggerOther, GrowExits, IssueExits, ShrinkOtherExit, Reduce,
      adv_vars
<1>10. CASE LeaveLoop \/ LeaveTrade
  BY <1>1, <1>2, <1>10 DEF AdvControl, LeaveLoop, LeaveTrade, adv_vars
<1>18. CASE LiftTrailingStop
  BY <1>1, <1>2, <1>18 DEF AdvControl, LiftTrailingStop, Abort
<1>19. CASE PlaceTrailingStop
  BY <1>1, <1>2, <1>19 DEF AdvControl, PlaceTrailingStop, Abort
<1>11. CASE TakeBuyChain \/ TakeSellChain \/ EndChain
  BY <1>1, <1>2, <1>11
  DEF AdvControl, TakeBuyChain, TakeSellChain, TakeChain, EndChain, adv_vars
<1>12. CASE CancelForStop \/ TriggerHead
  BY <1>1, <1>2, <1>12
  DEF AdvControl, CancelForStop, TriggerHead, Handling
<1>13. CASE (EndBuyScan \/ EndSellScan) /\ UNCHANGED adv_vars
  BY <1>1, <1>2, <1>13 DEF AdvControl, EndBuyScan, EndSellScan, adv_vars
<1>14. CASE Settle \/ ThrowUnfilled
  <2>1. pc = "settle" => cur.sz \in Nat
    BY CurFacts
  <2> QED
    BY <1>1, <1>2, <1>14, <2>1 DEF AdvControl, Settle, ThrowUnfilled, Abort, adv_vars
<1>15. CASE ConcludeBasic \/ ConcludeOto \/ ConcludeTarget \/ ConcludeTargetAlone
  BY <1>1, <1>2, <1>15
  DEF AdvControl, ConcludeBasic, ConcludeOto, ConcludeTarget, ConcludeTargetAlone, Done,
      Abort, adv_vars
<1>22. CASE InsertTrailingStop
  BY <1>1, <1>2, <1>22 DEF AdvControl, InsertTrailingStop, Done, Abort
<1>20. CASE ConcludeOco
  BY <1>1, <1>2, <1>20 DEF AdvControl, ConcludeOco, Done, Abort
<1>21. CASE ConcludeEntry
  BY <1>1, <1>2, <1>21 DEF AdvControl, ConcludeEntry, Done, Abort
<1>16. CASE InjectSecond
  <2>1. (cur'.cond = "oco_second" /\ cur' # NoOrder /\ cur'.sz > 0) \/ Done
    BY <1>16, SecondCur DEF InjectSecond
  <2> QED
    BY <1>1, <1>2, <1>16, <2>1 DEF AdvControl, InjectSecond, Done, adv_vars
<1>17. CASE (NextInternal \/ CloseWindow) /\ UNCHANGED adv_vars
  BY <1>1, <1>2, <1>17, NextCur DEF AdvControl, NextInternal, CloseWindow, adv_vars
<1> QED
  BY <1>3, <1>4, <1>5, <1>6, <1>7, <1>8, <1>9, <1>10, <1>11, <1>12, <1>13, <1>14, <1>15,
     <1>16, <1>17, <1>18, <1>19, <1>20, <1>21, <1>22 DEF WholeNext, AdvClient, WholeWindow

\* What a step does to the queue and to the order being executed.
QueueSteps ==
    \/ UNCHANGED <<internal_queue, last_id>>
    \/ internal_queue' = <<>> /\ UNCHANGED last_id
    \/ UNCHANGED internal_queue /\ last_id' = last_id + 1
    \/ \E es : Issuable(es) /\ Push(es)
    \/ NextInternal /\ UNCHANGED adv_vars

CurSteps ==
    \/ cur' = cur
    \/ cur' = NoOrder
    \/ /\ Match
       /\ cur' = [cur EXCEPT !.sz = @ - hit']
       /\ hit' \in 1 .. cur.sz
    \/ /\ pc = "idle"
       /\ last_id' = last_id + 1
       /\ \E e \in AdvOrders : /\ Accepted(e)
                               /\ cur' = [WithParams(e) EXCEPT !.id = last_id + 1]
    \/ /\ InjectSecond
       /\ last_id' = last_id + 1
       /\ cur' = Elem(cur.p1, last_id + 1, "oco_second", cur.trig, NoParam, NoParam,
                      cur.id)
    \/ NextInternal /\ UNCHANGED adv_vars

LEMMA QueueChanges ==
    ASSUME AdvIInv, WholeNext
    PROVE  QueueSteps
<1>1. CASE TriggerOther
  BY <1>1, FrontIssuesOto DEF TriggerOther, QueueSteps
<1>2. CASE IssueExits
  <2>1. Entry(AdvOf(FrontOrder.id).cond)
    BY <1>2 DEF IssueExits, Entry
  <2> QED
    BY <1>2, <2>1, FrontIssuesExits DEF IssueExits, QueueSteps
<1>3. CASE TriggerHead
  BY <1>3, HeadIssues DEF TriggerHead, Handling, QueueSteps
<1>4. CASE ConcludeOto
  BY <1>4, CurIssuesOto DEF ConcludeOto, QueueSteps
<1>5. CASE ConcludeEntry
  <2>1. Entry(cur.cond) /\ pc = "condition"
    BY <1>5 DEF ConcludeEntry, Entry
  <2>2. CASE Fills /\ cur.cond = "trailing_bracket"
                   /\ TargetLevel(cur.cond, cur.p2) \notin Book
    BY <1>5, <2>2 DEF ConcludeEntry, Abort, QueueSteps
  <2>3. CASE ~ (Fills /\ cur.cond = "trailing_bracket"
                      /\ TargetLevel(cur.cond, cur.p2) \notin Book)
    BY <1>5, <2>1, <2>3, CurIssuesExits DEF ConcludeEntry, QueueSteps
  <2> QED
    BY <2>2, <2>3
<1>6. ASSUME AdvClient
      PROVE  QueueSteps
  BY <1>6 DEF AdvClient, InsertAdvOrder, PullAdvOrder, ReplaceAdvOrder, StartOrder, QueueSteps
<1>7. CASE LiftTrailingStop
  BY <1>7 DEF LiftTrailingStop, Abort, QueueSteps
<1>8. CASE PlaceTrailingStop
  BY <1>8 DEF PlaceTrailingStop, Abort, QueueSteps
<1>9. CASE ThrowUnfilled
  BY <1>9 DEF ThrowUnfilled, Abort, QueueSteps
<1>10. CASE ConcludeOco
  BY <1>10 DEF ConcludeOco, Abort, QueueSteps
<1>11. CASE ConcludeTarget
  BY <1>11 DEF ConcludeTarget, QueueSteps
<1>12. CASE ConcludeTargetAlone
  BY <1>12 DEF ConcludeTargetAlone, Abort, QueueSteps
<1>13. CASE InsertTrailingStop
  BY <1>13 DEF InsertTrailingStop, Abort, QueueSteps
<1>14. CASE InjectSecond
  BY <1>14 DEF InjectSecond, QueueSteps
<1>15. CASE PullLinkedOrder \/ RouteToBook \/ RouteToStops \/ Match \/ CancelOther
            \/ GrowExits \/ ShrinkOtherExit \/ Reduce \/ LeaveLoop \/ LeaveTrade
            \/ TakeBuyChain \/ TakeSellChain \/ CancelForStop \/ EndChain \/ Settle
            \/ ConcludeBasic \/ CloseWindow \/ EndBuyScan \/ EndSellScan
  BY <1>15 DEF PullLinkedOrder, RouteToBook, RouteToStops, Match, CancelOther, GrowExits,
     ShrinkOtherExit, Reduce, LeaveLoop, LeaveTrade, TakeBuyChain, TakeSellChain, TakeChain,
     CancelForStop, EndChain, Settle, ConcludeBasic, CloseWindow, EndBuyScan, EndSellScan,
     QueueSteps
<1>16. CASE NextInternal /\ UNCHANGED adv_vars
  BY <1>16 DEF QueueSteps
<1> QED
  BY <1>1, <1>2, <1>3, <1>4, <1>5, <1>6, <1>7, <1>8, <1>9, <1>10, <1>11, <1>12, <1>13,
     <1>14, <1>15, <1>16 DEF WholeNext, WholeWindow

\* A match takes at least one off both orders.
LEMMA MatchFacts ==
    ASSUME AdvIInv, Match, NEW r, r = Opp(cur.side)
    PROVE  /\ hit' \in 1 .. cur.sz /\ hit' \in 1 .. FrontOrder.sz
           /\ hit' = cur.sz \/ hit' = FrontOrder.sz
           /\ cur' = [cur EXCEPT !.sz = @ - hit']
           /\ cur' \in AdvElem
           /\ last' = best[r] /\ best[r] \in Book
           /\ total_volume' \in Nat
<1>1. /\ FrontOrder = Head(limits[best[r]]) /\ FrontOrder \in LimitBndl /\ best[r] \in Book
  BY FrontFacts DEF Match
<1>2. cur \in AdvElem /\ cur.sz \in Nat
  BY CurFacts DEF Match, Between
<1>3. cur.sz > 0 /\ FrontOrder.sz \in Nat \ {0}
  BY <1>1 DEF Match, KeepsTrading, LimitBndl
<1>4. hit' = Min({cur.sz, FrontOrder.sz})
  BY <1>1 DEF Match
<1>5. /\ hit' \in {cur.sz, FrontOrder.sz}
      /\ hit' <= cur.sz /\ hit' <= FrontOrder.sz
  <2> DEFINE m == IF cur.sz <= FrontOrder.sz THEN cur.sz ELSE FrontOrder.sz
  <2>1. /\ m \in {cur.sz, FrontOrder.sz}
        /\ \A y \in {cur.sz, FrontOrder.sz} : m <= y
    BY <1>2, <1>3
  <2> HIDE DEF m
  <2>2. Min({cur.sz, FrontOrder.sz}) \in {cur.sz, FrontOrder.sz}
        /\ \A y \in {cur.sz, FrontOrder.sz} : Min({cur.sz, FrontOrder.sz}) <= y
    BY <2>1, Zenon DEF Min
  <2> QED
    BY <1>4, <2>2
<1>6. hit' \in 1 .. cur.sz /\ hit' \in 1 .. FrontOrder.sz
  BY <1>2, <1>3, <1>5
<1>7. cur' = [cur EXCEPT !.sz = @ - hit']
  BY <1>1, <1>4 DEF Match, TradeHasOccured
<1>8. cur' \in AdvElem
  <2>1. cur.sz - hit' \in Nat
    BY <1>2, <1>6
  <2> QED
    BY <1>2, <1>7, <2>1 DEF AdvElem
<1>9. last' = best[r] /\ total_volume' = total_volume + hit'
  BY <1>1, <1>4 DEF Match, TradeHasOccured
<1>10. total_volume' \in Nat
  <2>1. hit' \in Nat /\ total_volume \in Nat
    BY <1>2, <1>6 DEF AdvIInv, AdvTypes
  <2>2. \A v, n \in Nat : v + n \in Nat
    OBVIOUS
  <2> QED
    BY <1>9, <2>1, <2>2, Zenon
<1> QED
  BY <1>1, <1>5, <1>6, <1>7, <1>8, <1>9, <1>10

LEMMA CurChanges ==
    ASSUME AdvIInv, WholeNext
    PROVE  CurSteps
<1>1. ASSUME AdvClient
      PROVE  CurSteps
  BY <1>1 DEF AdvClient, InsertAdvOrder, PullAdvOrder, ReplaceAdvOrder, StartOrder, CurSteps
<1>2. CASE Match
  BY <1>2, MatchFacts DEF CurSteps
<1>3. CASE InjectSecond
  BY <1>3 DEF InjectSecond, Done, CurSteps
<1>4. CASE LiftTrailingStop
  BY <1>4 DEF LiftTrailingStop, Abort, CurSteps
<1>5. CASE PlaceTrailingStop
  BY <1>5 DEF PlaceTrailingStop, Abort, CurSteps
<1>6. CASE ThrowUnfilled \/ ConcludeTargetAlone
  BY <1>6 DEF ThrowUnfilled, ConcludeTargetAlone, Done, Abort, CurSteps
<1>7. CASE ConcludeOco
  BY <1>7 DEF ConcludeOco, Done, Abort, CurSteps
<1>8. CASE ConcludeEntry
  BY <1>8 DEF ConcludeEntry, Done, Abort, CurSteps
<1>9. CASE ConcludeTarget
  BY <1>9 DEF ConcludeTarget, Done, CurSteps
<1>10. CASE InsertTrailingStop
  BY <1>10 DEF InsertTrailingStop, Done, Abort, CurSteps
<1>11. CASE PullLinkedOrder \/ RouteToBook \/ RouteToStops \/ CancelOther \/ TriggerOther
            \/ GrowExits \/ IssueExits \/ ShrinkOtherExit \/ Reduce \/ LeaveLoop
            \/ LeaveTrade \/ TakeBuyChain \/ TakeSellChain \/ CancelForStop \/ TriggerHead
            \/ EndChain \/ Settle \/ CloseWindow \/ EndBuyScan \/ EndSellScan
  BY <1>11 DEF PullLinkedOrder, RouteToBook, RouteToStops, CancelOther, TriggerOther,
     GrowExits, IssueExits, ShrinkOtherExit, Reduce, LeaveLoop, LeaveTrade, TakeBuyChain,
     TakeSellChain, TakeChain, CancelForStop, TriggerHead, EndChain, Settle, CloseWindow,
     EndBuyScan, EndSellScan, CurSteps
<1>12. CASE ConcludeBasic \/ ConcludeOto
  BY <1>12 DEF ConcludeBasic, ConcludeOto, Done, CurSteps
<1>13. CASE NextInternal /\ UNCHANGED adv_vars
  BY <1>13 DEF CurSteps
<1> QED
  BY <1>1, <1>2, <1>3, <1>4, <1>5, <1>6, <1>7, <1>8, <1>9, <1>10, <1>11, <1>12, <1>13
  DEF WholeNext, WholeWindow

\* Prices and sizes of the orders that are executed and that wait.
LEMMA OrdersFitStep ==
    ASSUME AdvIInv, WholeNext
    PROVE  /\ OrdersFit'
           /\ internal_queue' \in Seq(AdvElem)
           /\ cur' \in AdvElem \cup {NoOrder}
           /\ last_id' \in Nat /\ last_id' >= last_id
<1>1. \A e : ElemFits(e)' <=> ElemFits(e)
  BY BookStays, FitsStay
<1>2. /\ internal_queue \in Seq(AdvElem) /\ cur \in AdvElem \cup {NoOrder} /\ last_id \in Nat
      /\ cur # NoOrder => ElemFits(cur)
      /\ \A i \in 1 .. Len(internal_queue) :
             ElemFits(internal_queue[i]) /\ internal_queue[i].sz > 0
  BY DEF AdvIInv, AdvTypes, OrdersFit
<1>3. /\ internal_queue' \in Seq(AdvElem)
      /\ \A i \in 1 .. Len(internal_queue') :
             ElemFits(internal_queue'[i]) /\ internal_queue'[i].sz > 0
      /\ last_id' \in Nat /\ last_id' >= last_id
  <2>1. CASE UNCHANGED <<internal_queue, last_id>>
    BY <2>1, <1>2
  <2>2. CASE internal_queue' = <<>> /\ UNCHANGED last_id
    BY <2>2, <1>2
  <2>3. CASE UNCHANGED internal_queue /\ last_id' = last_id + 1
    BY <2>3, <1>2
  <2>4. CASE \E es : Issuable(es) /\ Push(es)
    <3>1. PICK es : Issuable(es) /\ Push(es)
      BY <2>4
    <3>2. /\ es \in Seq(AdvElem) /\ Len(es) \in Nat
          /\ \A i \in 1 .. Len(es) : ElemFits(es[i]) /\ es[i].sz > 0
          /\ internal_queue' = internal_queue \o es
          /\ last_id' = last_id + Len(es)
      BY <3>1, LenProperties DEF Issuable, Good, Push
    <3>3. /\ internal_queue \o es \in Seq(AdvElem)
          /\ Len(internal_queue \o es) = Len(internal_queue) + Len(es)
          /\ \A i \in 1 .. Len(internal_queue) + Len(es) : (internal_queue \o es)[i] =
                 IF i <= Len(internal_queue) THEN internal_queue[i]
                 ELSE es[i - Len(internal_queue)]
      BY <1>2, <3>2, ConcatProperties
    <3>4. ASSUME NEW i \in 1 .. Len(internal_queue \o es)
          PROVE  LET e == (internal_queue \o es)[i] IN ElemFits(e) /\ e.sz > 0
      <4>1. CASE i <= Len(internal_queue)
        BY <4>1, <3>3, <1>2
      <4>2. CASE ~ (i <= Len(internal_queue))
        <5>1. i - Len(internal_queue) \in 1 .. Len(es)
          BY <4>2, <3>3, <3>2, <1>2, LenProperties
        <5> QED
          BY <5>1, <4>2, <3>3, <3>2
      <4> QED
        BY <4>1, <4>2
    <3> QED
      BY <1>2, <3>2, <3>3, <3>4
  <2>5. CASE NextInternal
    BY <2>5, <1>2, NextCur DEF NextInternal
  <2> QED
    BY QueueChanges, <2>1, <2>2, <2>3, <2>4, <2>5 DEF QueueSteps
<1>4. cur' \in AdvElem \cup {NoOrder} /\ (cur' # NoOrder => ElemFits(cur'))
  <2>1. CASE cur' = cur \/ cur' = NoOrder
    BY <2>1, <1>2
  <2>2. CASE Match
    <3>1. cur' \in AdvElem /\ cur' = [cur EXCEPT !.sz = @ - hit'] /\ hit' \in 1 .. cur.sz
      BY <2>2, MatchFacts
    <3>2. cur \in AdvElem /\ ElemFits(cur) /\ cur.sz \in Nat /\ cur.of \in Nat
      BY <2>2, CurFacts DEF Match, Between
    <3>3. PICK c \in AdvElem : c = cur'
      BY <3>1
    <3>4. /\ c.id = cur.id /\ c.type = cur.type /\ c.side = cur.side /\ c.limit = cur.limit
          /\ c.stop = cur.stop /\ c.of = cur.of /\ c.cond = cur.cond /\ c.trig = cur.trig
          /\ c.p1 = cur.p1 /\ c.p2 = cur.p2 /\ c.sz <= cur.sz
      BY <3>1, <3>2, <3>3 DEF AdvElem
    <3>5. c.sz <= c.of /\ (c.cond = "oco" => OcoFits(c))
      BY <3>2, <3>3, <3>4 DEF ElemFits, OcoFits, AdvElem
    <3>6. ElemFits(c)
      BY <3>2, <3>4, <3>5 DEF ElemFits, ActiveStop
    <3> QED
      BY <3>3, <3>6
  <2>3. CASE \E e \in AdvOrders : /\ Accepted(e)
                                  /\ cur' = [WithParams(e) EXCEPT !.id = last_id + 1]
    BY <2>3, ClientCur DEF Good
  <2>4. CASE InjectSecond
             /\ cur' = Elem(cur.p1, last_id + 1, "oco_second", cur.trig, NoParam, NoParam,
                            cur.id)
    BY <2>4, SecondCur DEF InjectSecond
  <2>5. CASE NextInternal
    BY <2>5, NextCur DEF NextInternal
  <2> QED
    BY CurChanges, <2>1, <2>2, <2>3, <2>4, <2>5 DEF CurSteps
<1> QED
  BY <1>1, <1>3, <1>4 DEF OrdersFit

-----------------------------------------------------------------------------
(* Taking orders out of the book and putting them in.                       *)

LEMMA CacheFacts ==
    ASSUME AdvIInv
    PROVE  /\ BookTypeOK /\ BookInv
           /\ DOMAIN id_cache \subseteq Nat
           /\ \A id \in DOMAIN id_cache : /\ id_cache[id].type \in {"limit", "stop"}
                                          /\ id_cache[id].p \in Levels
           /\ \A l \in Levels : /\ limits[l] \in Seq(LimitBndl)
                                /\ stops[l] \in Seq(StopBndl)
                                /\ Unlike(limits[l]) /\ Unlike(stops[l])
           /\ cchain \in Seq(StopBndl) /\ Unlike(cchain)
BY DEF AdvIInv, AdvTypes, BookTypeOK, CacheElem, Placed, ChainsAreCached, TakenAreCached

\* The order that a pull takes is on one chain, and on no other.
LeftOut(c, d, id) == ToSet(d) = {b \in ToSet(c) : b.id # id} /\ Unlike(d)

Forgets(id) ==
    /\ DOMAIN id_cache' = DOMAIN id_cache \ {id}
    /\ \A i \in DOMAIN id_cache' : id_cache'[i] = id_cache[i]

Leaves(id) ==
    /\ Forgets(id)
    /\ \A l \in Levels : /\ LeftOut(limits[l], limits'[l], id)
                         /\ LeftOut(stops[l], stops'[l], id)
    /\ LeftOut(cchain, cchain', id)

LEMMA NotThere ==
    ASSUME NEW c, NEW id, Unlike(c), \A b \in ToSet(c) : b.id # id
    PROVE  LeftOut(c, c, id)
BY DEF LeftOut

LEMMA OnlyOnItsChain ==
    ASSUME AdvIInv, NEW id, NEW type, NEW l \in Levels, Cached(id, type, l)
    PROVE  /\ \A k \in Levels : k # l \/ type # "limit" =>
                  \A b \in ToSet(limits[k]) : b.id # id
           /\ \A k \in Levels : k # l \/ type # "stop" =>
                  \A b \in ToSet(stops[k]) : b.id # id
<1>1. ChainsAreCached
  BY DEF AdvIInv, Placed
<1>2. ASSUME NEW k \in Levels, NEW b \in ToSet(limits[k]), b.id = id
      PROVE  k = l /\ type = "limit"
  <2>1. Cached(b.id, "limit", k)
    BY <1>1 DEF ChainsAreCached
  <2> QED
    BY <1>2, <2>1 DEF Cached
<1>3. ASSUME NEW k \in Levels, NEW b \in ToSet(stops[k]), b.id = id
      PROVE  k = l /\ type = "stop"
  <2>1. Cached(b.id, "stop", k)
    BY <1>1 DEF ChainsAreCached
  <2> QED
    BY <1>3, <2>1 DEF Cached
<1> QED
  BY <1>2, <1>3

LEMMA PopLimitLeaves ==
    ASSUME AdvIInv, NEW id \in DOMAIN id_cache, id_cache[id].type = "limit",
           PopLimit(id), UNCHANGED cchain
    PROVE  Leaves(id)
<1> DEFINE p == id_cache[id].p
<1>1. PICK i \in 1 .. Len(limits[p]) : /\ limits[p][i].id = id
                                       /\ limits' = [limits EXCEPT ![p] = RemoveAt(@, i)]
                                       /\ Erase({id})
                                       /\ UNCHANGED stops
  BY DEF PopLimit
<1>2. p \in Levels /\ id_cache[id].type = "limit"
  BY CacheFacts
<1>3. id_cache[id] = [type |-> "limit", p |-> p]
  BY <1>2 DEF AdvIInv, AdvTypes, BookTypeOK, CacheElem
<1>4. Cached(id, "limit", p)
  BY <1>3 DEF Cached
<1> HIDE DEF p
<1>5. /\ \A k \in Levels : k # p => \A b \in ToSet(limits[k]) : b.id # id
      /\ \A k \in Levels : \A b \in ToSet(stops[k]) : b.id # id
  BY <1>2, <1>4, OnlyOnItsChain
<1>6. \A l \in Levels : LeftOut(limits[l], limits'[l], id)
  <2>1. /\ \A l \in Levels : l # p => limits'[l] = limits[l]
        /\ limits'[p] = RemoveAt(limits[p], i)
    BY <1>1, <1>2 DEF AdvIInv, AdvTypes, BookTypeOK
  <2>2. LeftOut(limits[p], limits'[p], id)
    BY <1>1, <1>2, <2>1, CacheFacts, RemovedElements DEF LeftOut
  <2>3. ASSUME NEW l \in Levels, l # p
        PROVE  LeftOut(limits[l], limits'[l], id)
    BY <2>1, <2>3, <1>5, CacheFacts, NotThere
  <2> QED
    BY <2>2, <2>3
<1>7. \A l \in Levels : LeftOut(stops[l], stops'[l], id)
  BY <1>1, <1>5, CacheFacts, NotThere
<1>8. LeftOut(cchain, cchain', id)
  <2>1. \A b \in ToSet(cchain) : b.id # id
    BY <1>2 DEF AdvIInv, Placed, TakenAreCached
  <2> QED
    BY <2>1, CacheFacts, NotThere
<1> QED
  BY <1>1, <1>6, <1>7, <1>8 DEF Leaves, Forgets, Erase

LEMMA PopStopLeaves ==
    ASSUME AdvIInv, NEW id \in DOMAIN id_cache, id_cache[id].type = "stop",
           PopStop(id), UNCHANGED cchain
    PROVE  /\ Leaves(id)
           /\ \E i \in 1 .. Len(stops[id_cache[id].p]) : stops[id_cache[id].p][i].id = id
           /\ \A b \in ToSet(cchain) : b.id # id
<1> DEFINE p == id_cache[id].p
<1>1. PICK i \in 1 .. Len(stops[p]) : /\ stops[p][i].id = id
                                      /\ stops' = [stops EXCEPT ![p] = RemoveAt(@, i)]
                                      /\ Erase({id})
                                      /\ UNCHANGED limits
  BY DEF PopStop
<1>2. p \in Levels /\ id_cache[id].type = "stop"
  BY CacheFacts
<1>3. id_cache[id] = [type |-> "stop", p |-> p]
  BY <1>2 DEF AdvIInv, AdvTypes, BookTypeOK, CacheElem
<1>4. Cached(id, "stop", p)
  BY <1>3 DEF Cached
<1>10. \E j \in 1 .. Len(stops[p]) : stops[p][j].id = id
  BY <1>1
<1> HIDE DEF p
<1>5. /\ \A k \in Levels : \A b \in ToSet(limits[k]) : b.id # id
      /\ \A k \in Levels : k # p => \A b \in ToSet(stops[k]) : b.id # id
  BY <1>2, <1>4, OnlyOnItsChain
<1>6. \A l \in Levels : LeftOut(stops[l], stops'[l], id)
  <2>1. /\ \A l \in Levels : l # p => stops'[l] = stops[l]
        /\ stops'[p] = RemoveAt(stops[p], i)
    BY <1>1, <1>2 DEF AdvIInv, AdvTypes, BookTypeOK
  <2>2. LeftOut(stops[p], stops'[p], id)
    BY <1>1, <1>2, <2>1, CacheFacts, RemovedElements DEF LeftOut
  <2>3. ASSUME NEW l \in Levels, l # p
        PROVE  LeftOut(stops[l], stops'[l], id)
    BY <2>1, <2>3, <1>5, CacheFacts, NotThere
  <2> QED
    BY <2>2, <2>3
<1>7. \A l \in Levels : LeftOut(limits[l], limits'[l], id)
  BY <1>1, <1>5, CacheFacts, NotThere
<1>8. stops[p][i] \in ToSet(stops[p])
  BY <1>1, <1>2, CacheFacts, ElementAt
<1>9. \A b \in ToSet(cchain) : b.id # id
  BY <1>1, <1>2, <1>8 DEF AdvIInv, Placed, TakenAreCached
<1>11. LeftOut(cchain, cchain', id)
  BY <1>9, CacheFacts, NotThere
<1> QED
  BY <1>1, <1>6, <1>7, <1>9, <1>10, <1>11 DEF Leaves, Forgets, Erase, p

LEMMA PullLeaves ==
    ASSUME AdvIInv, NEW id, Pull(id), UNCHANGED cchain
    PROVE  Leaves(id)
BY PopLimitLeaves, PopStopLeaves DEF Pull

\* The front order of the best chain leaves when it is filled.
LEMMA FrontLeaves ==
    ASSUME AdvIInv, pc \in {"matched", "reduce"}, NEW r, r = Opp(cur.side),
           limits' = [limits EXCEPT ![best[r]] = Tail(@)],
           Erase({FrontOrder.id}), UNCHANGED <<stops, cchain>>
    PROVE  Leaves(FrontOrder.id)
<1> DEFINE p == best[r]
           id == FrontOrder.id
<1>1. /\ p \in Levels /\ Cached(id, "limit", p) /\ limits[p] # <<>>
      /\ FrontOrder = Head(limits[p])
  BY FrontFacts
<1>2. limits' = [limits EXCEPT ![p] = Tail(@)] /\ Erase({id})
  OBVIOUS
<1> HIDE DEF p, id
<1>5. /\ \A k \in Levels : k # p => \A b \in ToSet(limits[k]) : b.id # id
      /\ \A k \in Levels : \A b \in ToSet(stops[k]) : b.id # id
  BY <1>1, OnlyOnItsChain
<1>6. \A l \in Levels : LeftOut(limits[l], limits'[l], id)
  <2>1. /\ \A l \in Levels : l # p => limits'[l] = limits[l]
        /\ limits'[p] = Tail(limits[p])
    BY <1>1, <1>2 DEF AdvIInv, AdvTypes, BookTypeOK
  <2>2. LeftOut(limits[p], limits'[p], id)
    BY <1>1, <2>1, CacheFacts, TailElements DEF LeftOut, id
  <2>3. ASSUME NEW l \in Levels, l # p
        PROVE  LeftOut(limits[l], limits'[l], id)
    BY <2>1, <2>3, <1>5, CacheFacts, NotThere
  <2> QED
    BY <2>2, <2>3
<1>7. \A l \in Levels : LeftOut(stops[l], stops'[l], id)
  BY <1>5, CacheFacts, NotThere
<1>8. LeftOut(cchain, cchain', id)
  <2>1. cchain = <<>>
    BY DEF AdvIInv, AdvControl
  <2>2. ToSet(cchain) = {}
    BY <2>1 DEF ToSet
  <2> QED
    BY <2>2, CacheFacts, NotThere
<1> QED
  BY <1>2, <1>6, <1>7, <1>8 DEF Leaves, Forgets, Erase, id

\* The stop at the head of a triggered chain leaves when it is handled.
LEMMA HeadLeaves ==
    ASSUME AdvIInv, cchain # <<>>, cchain' = Tail(cchain), Erase({Head(cchain).id}),
           UNCHANGED <<limits, stops>>
    PROVE  Leaves(Head(cchain).id)
<1> DEFINE id == Head(cchain).id
<1>1. /\ Head(cchain) \in ToSet(cchain) /\ id \in DOMAIN id_cache
      /\ id_cache[id].type = "stop"
  BY TakenFacts
<1>2. Erase({id})
  OBVIOUS
<1>3. LeftOut(cchain, cchain', id)
  BY CacheFacts, TailElements DEF LeftOut
<1>4. \A l \in Levels : \A b \in ToSet(stops[l]) : b.id # id
  BY <1>1 DEF AdvIInv, Placed, TakenAreCached
<1> HIDE DEF id
<1>5. ASSUME NEW l \in Levels, NEW b \in ToSet(limits[l]), b.id = id
      PROVE  FALSE
  <2>1. Cached(b.id, "limit", l)
    BY DEF AdvIInv, Placed, ChainsAreCached
  <2> QED
    BY <1>1, <1>5, <2>1 DEF Cached
<1>6. \A l \in Levels : LeftOut(limits[l], limits'[l], id) /\ LeftOut(stops[l], stops'[l], id)
  BY <1>4, <1>5, CacheFacts, NotThere
<1> QED
  BY <1>2, <1>3, <1>6 DEF Leaves, Forgets, Erase, id

\* The other ways in which the chains change.
JoinsLimit(b, p) ==
    /\ limits' = ChainEmplace(limits, p, b)
    /\ Emplace(b.id, [type |-> "limit", p |-> p])
    /\ UNCHANGED <<stops, cchain>>

JoinsStop(b, p) ==
    /\ stops' = ChainEmplace(stops, p, b)
    /\ Emplace(b.id, [type |-> "stop", p |-> p])
    /\ UNCHANGED <<limits, cchain>>

Changes(ids, n) ==
    /\ \A l \in Levels : /\ limits'[l] = Resize(limits[l], ids, n)
                         /\ stops'[l] = Resize(stops[l], ids, n)
                         /\ \A b \in ToSet(limits[l]) : Sized(b, ids, n) \in LimitBndl
                         /\ \A b \in ToSet(stops[l]) : Sized(b, ids, n) \in StopBndl
    /\ UNCHANGED <<id_cache, cchain>>

Takes(p) ==
    /\ cchain = <<>>
    /\ cchain' = stops[p]
    /\ stops' = [stops EXCEPT ![p] = <<>>]
    /\ UNCHANGED <<limits, id_cache>>

\* the order between two chains is not cached
HeldIsAway == held # NoHold => held.id \notin DOMAIN id_cache

LEMMA LeavesPlaced ==
    ASSUME AdvIInv, NEW id, Leaves(id), HeldIsAway'
    PROVE  Placed'
<1>1. /\ DOMAIN id_cache' = DOMAIN id_cache \ {id}
      /\ \A i \in DOMAIN id_cache' : id_cache'[i] = id_cache[i]
  BY DEF Leaves, Forgets
<1>2. /\ \A l \in Levels : /\ ToSet(limits'[l]) = {b \in ToSet(limits[l]) : b.id # id}
                           /\ ToSet(stops'[l]) = {b \in ToSet(stops[l]) : b.id # id}
                           /\ Unlike(limits'[l]) /\ Unlike(stops'[l])
      /\ ToSet(cchain') = {b \in ToSet(cchain) : b.id # id} /\ Unlike(cchain')
  BY DEF Leaves, LeftOut
<1>3. ChainsAreCached'
  <2>1. ASSUME NEW l \in Levels
        PROVE  /\ \A b \in ToSet(limits'[l]) : Cached(b.id, "limit", l)'
               /\ \A b \in ToSet(stops'[l]) : Cached(b.id, "stop", l)'
    BY <1>1, <1>2 DEF AdvIInv, Placed, ChainsAreCached, Cached
  <2> QED
    BY <2>1, <1>2 DEF ChainsAreCached
<1>4. TakenAreCached'
  <2>1. ASSUME NEW b \in ToSet(cchain')
        PROVE  /\ b.id \in DOMAIN id_cache'
               /\ id_cache'[b.id].type = "stop"
               /\ \A l \in Levels : \A d \in ToSet(stops'[l]) : d.id # b.id
    BY <1>1, <1>2 DEF AdvIInv, Placed, TakenAreCached
  <2> QED
    BY <2>1, <1>2 DEF TakenAreCached, HeldIsAway
<1>5. CachedStand'
  <2>1. ASSUME NEW i \in DOMAIN id_cache'
        PROVE  \E b \in ToSet(ChainOf(i)') \cup ToSet(cchain') : b.id = i
    <3>1. i \in DOMAIN id_cache /\ i # id /\ id_cache'[i] = id_cache[i]
      BY <1>1
    <3>2. id_cache[i].p \in Levels
      BY <3>1, CacheFacts
    <3>3. PICK b \in ToSet(ChainOf(i)) \cup ToSet(cchain) : b.id = i
      BY <3>1 DEF AdvIInv, Placed, CachedStand
    <3>4. CASE b \in ToSet(cchain)
      BY <3>1, <3>3, <3>4, <1>2
    <3>5. CASE b \in ToSet(ChainOf(i))
      <4>1. b \in ToSet(ChainOf(i)')
        BY <3>1, <3>2, <3>3, <3>5, <1>2 DEF ChainOf
      <4> QED
        BY <4>1, <3>3
    <3> QED
      BY <3>3, <3>4, <3>5
  <2> QED
    BY <2>1 DEF CachedStand
<1> QED
  BY <1>3, <1>4, <1>5 DEF Placed

LEMMA SamePlaced ==
    ASSUME AdvIInv, UNCHANGED <<limits, stops, id_cache, cchain>>, HeldIsAway'
    PROVE  Placed'
BY DEF AdvIInv, Placed, ChainsAreCached, TakenAreCached, CachedStand, Cached, ChainOf,
       HeldIsAway

LEMMA TakesPlaced ==
    ASSUME AdvIInv, NEW p \in Levels, Takes(p), HeldIsAway'
    PROVE  Placed'
<1>1. /\ \A l \in Levels : l # p => stops'[l] = stops[l]
      /\ stops'[p] = <<>>
  BY DEF Takes, AdvIInv, AdvTypes, BookTypeOK
<1>2. ToSet(stops'[p]) = {} /\ Unlike(stops'[p]) /\ ToSet(cchain) = {}
  BY <1>1 DEF ToSet, Unlike, Takes
<1>3. ChainsAreCached'
  <2>1. ASSUME NEW l \in Levels
        PROVE  /\ \A b \in ToSet(limits'[l]) : Cached(b.id, "limit", l)'
               /\ \A b \in ToSet(stops'[l]) : Cached(b.id, "stop", l)'
               /\ Unlike(limits'[l])
               /\ Unlike(stops'[l])
    BY <1>1, <1>2 DEF AdvIInv, Placed, ChainsAreCached, Cached, Takes
  <2> QED
    BY <2>1 DEF ChainsAreCached
<1>4. TakenAreCached'
  <2>1. ASSUME NEW b \in ToSet(stops[p])
        PROVE  /\ b.id \in DOMAIN id_cache
               /\ id_cache[b.id].type = "stop"
               /\ \A l \in Levels : \A d \in ToSet(stops'[l]) : d.id # b.id
    <3>1. Cached(b.id, "stop", p)
      BY DEF AdvIInv, Placed, ChainsAreCached
    <3>2. ASSUME NEW l \in Levels, NEW d \in ToSet(stops'[l]), d.id = b.id
          PROVE  FALSE
      <4>1. l # p /\ d \in ToSet(stops[l])
        BY <1>1, <1>2
      <4>2. Cached(d.id, "stop", l)
        BY <4>1 DEF AdvIInv, Placed, ChainsAreCached
      <4> QED
        BY <3>1, <3>2, <4>1, <4>2 DEF Cached
    <3> QED
      BY <3>1, <3>2 DEF Cached
  <2>2. Unlike(cchain')
    BY CacheFacts DEF Takes
  <2> QED
    BY <2>1, <2>2 DEF TakenAreCached, HeldIsAway, Takes
<1>5. CachedStand'
  <2>1. ASSUME NEW i \in DOMAIN id_cache
        PROVE  \E b \in ToSet(ChainOf(i)') \cup ToSet(stops[p]) : b.id = i
    <3>1. PICK b \in ToSet(ChainOf(i)) : b.id = i
      BY <1>2 DEF AdvIInv, Placed, CachedStand
    <3>2. b \in ToSet(ChainOf(i)') \/ b \in ToSet(stops[p])
      BY <1>1, <3>1, CacheFacts DEF ChainOf, Takes
    <3> QED
      BY <3>1, <3>2
  <2> QED
    BY <2>1 DEF CachedStand, Takes
<1> QED
  BY <1>3, <1>4, <1>5 DEF Placed

LEMMA SizedElements ==
    ASSUME AdvIInv, NEW ids, NEW n \in Int, Changes(ids, n), NEW l \in Levels
    PROVE  /\ ToSet(limits'[l]) = SizedOf(ToSet(limits[l]), ids, n)
           /\ ToSet(stops'[l]) = SizedOf(ToSet(stops[l]), ids, n)
           /\ Unlike(limits'[l]) /\ Unlike(stops'[l])
           /\ limits'[l] \in Seq(LimitBndl) /\ stops'[l] \in Seq(StopBndl)
           /\ Len(limits'[l]) = Len(limits[l]) /\ Len(stops'[l]) = Len(stops[l])
           /\ \A i \in 1 .. Len(limits[l]) : limits'[l][i] = Sized(limits[l][i], ids, n)
           /\ \A i \in 1 .. Len(stops[l]) : stops'[l][i] = Sized(stops[l][i], ids, n)
<1>1. /\ limits'[l] = Resize(limits[l], ids, n)
      /\ stops'[l] = Resize(stops[l], ids, n)
      /\ \A b \in ToSet(limits[l]) : Sized(b, ids, n) \in LimitBndl
      /\ \A b \in ToSet(stops[l]) : Sized(b, ids, n) \in StopBndl
  BY DEF Changes
<1>2. /\ limits[l] \in Seq(LimitBndl) /\ Unlike(limits[l])
      /\ stops[l] \in Seq(StopBndl) /\ Unlike(stops[l])
  BY CacheFacts
<1>3. /\ Resize(limits[l], ids, n) \in Seq(LimitBndl)
      /\ Len(Resize(limits[l], ids, n)) = Len(limits[l])
      /\ \A i \in 1 .. Len(limits[l]) :
             Resize(limits[l], ids, n)[i] = Sized(limits[l][i], ids, n)
      /\ ToSet(Resize(limits[l], ids, n)) = SizedOf(ToSet(limits[l]), ids, n)
      /\ Unlike(Resize(limits[l], ids, n))
  BY <1>1, <1>2, ResizedElements
<1>4. /\ Resize(stops[l], ids, n) \in Seq(StopBndl)
      /\ Len(Resize(stops[l], ids, n)) = Len(stops[l])
      /\ \A i \in 1 .. Len(stops[l]) :
             Resize(stops[l], ids, n)[i] = Sized(stops[l][i], ids, n)
      /\ ToSet(Resize(stops[l], ids, n)) = SizedOf(ToSet(stops[l]), ids, n)
      /\ Unlike(Resize(stops[l], ids, n))
  BY <1>1, <1>2, ResizedElements
<1> QED
  BY <1>1, <1>3, <1>4, Zenon

LEMMA SizedFields ==
    ASSUME NEW b \in LimitBndl \cup StopBndl, NEW ids, NEW n \in Int
    PROVE  /\ Sized(b, ids, n).id = b.id
           /\ Sized(b, ids, n).side = b.side
           /\ b \in StopBndl => Sized(b, ids, n).limit = b.limit
           /\ b.id \in ids => Sized(b, ids, n).sz = b.sz + n
           /\ b.id \notin ids => Sized(b, ids, n) = b
BY DEF Sized, LimitBndl, StopBndl

LEMMA ChangesPlaced ==
    ASSUME AdvIInv, NEW ids, NEW n \in Int, Changes(ids, n), HeldIsAway'
    PROVE  Placed'
<1>1. ASSUME NEW l \in Levels
      PROVE  /\ \A b \in ToSet(limits'[l]) : \E d \in ToSet(limits[l]) : d.id = b.id
             /\ \A b \in ToSet(stops'[l]) : \E d \in ToSet(stops[l]) : d.id = b.id
             /\ \A d \in ToSet(limits[l]) : \E b \in ToSet(limits'[l]) : d.id = b.id
             /\ \A d \in ToSet(stops[l]) : \E b \in ToSet(stops'[l]) : d.id = b.id
  <2>1. \A d \in ToSet(limits[l]) \cup ToSet(stops[l]) : Sized(d, ids, n).id = d.id
    <3>1. ToSet(limits[l]) \subseteq LimitBndl /\ ToSet(stops[l]) \subseteq StopBndl
      BY CacheFacts, ElementsOf
    <3> QED
      BY <3>1, SizedFields
  <2>2. /\ ToSet(limits'[l]) = SizedOf(ToSet(limits[l]), ids, n)
        /\ ToSet(stops'[l]) = SizedOf(ToSet(stops[l]), ids, n)
    BY SizedElements, Zenon
  <2> QED
    BY <2>1, <2>2 DEF SizedOf
<1>2. UNCHANGED <<id_cache, cchain>>
  BY DEF Changes
<1>3. ChainsAreCached'
  <2>1. ASSUME NEW l \in Levels
        PROVE  /\ \A b \in ToSet(limits'[l]) : Cached(b.id, "limit", l)'
               /\ \A b \in ToSet(stops'[l]) : Cached(b.id, "stop", l)'
               /\ Unlike(limits'[l])
               /\ Unlike(stops'[l])
    <3>1. /\ \A d \in ToSet(limits[l]) : Cached(d.id, "limit", l)
          /\ \A d \in ToSet(stops[l]) : Cached(d.id, "stop", l)
      BY DEF AdvIInv, Placed, ChainsAreCached
    <3>2. /\ \A b \in ToSet(limits'[l]) : Cached(b.id, "limit", l)
          /\ \A b \in ToSet(stops'[l]) : Cached(b.id, "stop", l)
      BY <1>1, <3>1
    <3> QED
      BY <1>2, <3>2, SizedElements DEF Cached
  <2> QED
    BY <2>1 DEF ChainsAreCached
<1>4. TakenAreCached'
  <2>1. ASSUME NEW b \in ToSet(cchain), NEW l \in Levels, NEW d \in ToSet(stops'[l])
        PROVE  d.id # b.id
    BY <1>1 DEF AdvIInv, Placed, TakenAreCached
  <2>2. \A b \in ToSet(cchain) : b.id \in DOMAIN id_cache /\ id_cache[b.id].type = "stop"
    BY DEF AdvIInv, Placed, TakenAreCached
  <2> QED
    BY <1>2, <2>1, <2>2, CacheFacts DEF TakenAreCached, HeldIsAway
<1>5. CachedStand'
  <2>1. ASSUME NEW i \in DOMAIN id_cache
        PROVE  \E b \in ToSet(ChainOf(i)') \cup ToSet(cchain) : b.id = i
    <3>1. PICK b \in ToSet(ChainOf(i)) \cup ToSet(cchain) : b.id = i
      BY DEF AdvIInv, Placed, CachedStand
    <3>2. CASE b \in ToSet(ChainOf(i))
      <4>1. \E d \in ToSet(ChainOf(i)') : d.id = b.id
        BY <1>1, <1>2, <3>2, CacheFacts DEF ChainOf
      <4> QED
        BY <4>1, <3>1
    <3> QED
      BY <3>1, <3>2
  <2> QED
    BY <1>2, <2>1 DEF CachedStand
<1> QED
  BY <1>3, <1>4, <1>5 DEF Placed

\* An order with a new id joins a chain.
LEMMA EmplaceFacts ==
    ASSUME NEW id, NEW elem, Emplace(id, elem), id \notin DOMAIN id_cache
    PROVE  /\ DOMAIN id_cache' = DOMAIN id_cache \cup {id}
           /\ id_cache'[id] = elem
           /\ \A i \in DOMAIN id_cache : id_cache'[i] = id_cache[i]
BY DEF Emplace

LEMMA NewIsNowhere ==
    ASSUME AdvIInv, NEW id, id \notin DOMAIN id_cache
    PROVE  /\ \A l \in Levels : /\ \A d \in ToSet(limits[l]) : d.id # id
                                /\ \A d \in ToSet(stops[l]) : d.id # id
           /\ \A d \in ToSet(cchain) : d.id # id
BY DEF AdvIInv, Placed, ChainsAreCached, TakenAreCached, Cached

JoinedTo(c, d, p, b) ==
    /\ \A l \in Levels : ToSet(d[l]) = ToSet(c[l]) \cup (IF l = p THEN {b} ELSE {})
    /\ \A l \in Levels : Unlike(c[l]) /\ (\A e \in ToSet(c[l]) : e.id # b.id)
                         => Unlike(d[l])

LEMMA JoinedElements ==
    ASSUME NEW S, NEW c \in [Levels -> Seq(S)], NEW d, NEW p \in Levels, NEW b \in S,
           d = ChainEmplace(c, p, b)
    PROVE  /\ d \in [Levels -> Seq(S)]
           /\ JoinedTo(c, d, p, b)
<1>1. Append(c[p], b) \in Seq(S)
  BY AppendProperties
<1>2. /\ d \in [Levels -> Seq(S)]
      /\ \A l \in Levels : d[l] = IF l = p THEN Append(c[p], b) ELSE c[l]
  BY <1>1 DEF ChainEmplace
<1>3. ASSUME NEW l \in Levels
      PROVE  /\ ToSet(d[l]) = ToSet(c[l]) \cup (IF l = p THEN {b} ELSE {})
             /\ Unlike(c[l]) /\ (\A e \in ToSet(c[l]) : e.id # b.id) => Unlike(d[l])
  <2>1. CASE l = p
    <3>1. c[p] \in Seq(S) /\ d[l] = Append(c[p], b)
      BY <1>2, <2>1
    <3>2. ToSet(Append(c[p], b)) = ToSet(c[p]) \cup {b}
      BY <3>1, AppendedElements
    <3>3. Unlike(c[p]) /\ (\A e \in ToSet(c[p]) : e.id # b.id) => Unlike(Append(c[p], b))
      BY <3>1, AppendedElements
    <3> QED
      BY <2>1, <3>1, <3>2, <3>3
  <2>2. CASE l # p
    BY <1>2, <2>2
  <2> QED
    BY <2>1, <2>2
<1> QED
  BY <1>2, <1>3 DEF JoinedTo

LEMMA JoinsLimitPlaced ==
    ASSUME AdvIInv, NEW p \in Levels, NEW b \in LimitBndl, b.id \notin DOMAIN id_cache,
           JoinsLimit(b, p), HeldIsAway'
    PROVE  Placed'
<1>1. /\ DOMAIN id_cache' = DOMAIN id_cache \cup {b.id}
      /\ id_cache'[b.id] = [type |-> "limit", p |-> p]
      /\ \A i \in DOMAIN id_cache : id_cache'[i] = id_cache[i]
  BY EmplaceFacts DEF JoinsLimit
<1>2. /\ \A l \in Levels : ToSet(limits'[l]) = ToSet(limits[l]) \cup (IF l = p THEN {b} ELSE {})
      /\ \A l \in Levels : Unlike(limits'[l])
  <2>1. /\ limits \in [Levels -> Seq(LimitBndl)]
        /\ limits' = ChainEmplace(limits, p, b)
    BY DEF AdvIInv, AdvTypes, BookTypeOK, JoinsLimit
  <2>2. \A l \in Levels : Unlike(limits[l]) /\ \A d \in ToSet(limits[l]) : d.id # b.id
    BY CacheFacts, NewIsNowhere
  <2>3. JoinedTo(limits, limits', p, b)
    BY <2>1, JoinedElements, Zenon
  <2> QED
    BY <2>2, <2>3 DEF JoinedTo
<1>3. UNCHANGED <<stops, cchain>>
  BY DEF JoinsLimit
<1>4. ChainsAreCached'
  <2>1. ASSUME NEW l \in Levels
        PROVE  /\ \A d \in ToSet(limits'[l]) : Cached(d.id, "limit", l)'
               /\ \A d \in ToSet(stops'[l]) : Cached(d.id, "stop", l)'
    <3>1. /\ \A d \in ToSet(limits[l]) : Cached(d.id, "limit", l)
          /\ \A d \in ToSet(stops[l]) : Cached(d.id, "stop", l)
      BY DEF AdvIInv, Placed, ChainsAreCached
    <3> QED
      BY <1>1, <1>2, <1>3, <3>1 DEF Cached
  <2> QED
    BY <1>2, <1>3, <2>1, CacheFacts DEF ChainsAreCached
<1>5. TakenAreCached'
  <2>1. ASSUME NEW d \in ToSet(cchain)
        PROVE  /\ d.id \in DOMAIN id_cache'
               /\ id_cache'[d.id].type = "stop"
               /\ \A l \in Levels : \A e \in ToSet(stops[l]) : e.id # d.id
    BY <1>1 DEF AdvIInv, Placed, TakenAreCached
  <2> QED
    BY <1>3, <2>1, CacheFacts DEF TakenAreCached, HeldIsAway
<1>6. CachedStand'
  <2>1. ASSUME NEW i \in DOMAIN id_cache'
        PROVE  \E d \in ToSet(ChainOf(i)') \cup ToSet(cchain) : d.id = i
    <3>1. CASE i = b.id
      BY <3>1, <1>1, <1>2 DEF ChainOf
    <3>2. CASE i \in DOMAIN id_cache
      <4>1. PICK d \in ToSet(ChainOf(i)) \cup ToSet(cchain) : d.id = i
        BY <3>2 DEF AdvIInv, Placed, CachedStand
      <4>2. ToSet(ChainOf(i)) \subseteq ToSet(ChainOf(i)')
        BY <3>2, <1>1, <1>2, <1>3, CacheFacts DEF ChainOf
      <4> QED
        BY <4>1, <4>2
    <3> QED
      BY <1>1, <3>1, <3>2
  <2> QED
    BY <1>3, <2>1 DEF CachedStand
<1> QED
  BY <1>4, <1>5, <1>6 DEF Placed

LEMMA JoinsStopPlaced ==
    ASSUME AdvIInv, NEW p \in Levels, NEW b \in StopBndl, b.id \notin DOMAIN id_cache,
           JoinsStop(b, p), HeldIsAway'
    PROVE  Placed'
<1>1. /\ DOMAIN id_cache' = DOMAIN id_cache \cup {b.id}
      /\ id_cache'[b.id] = [type |-> "stop", p |-> p]
      /\ \A i \in DOMAIN id_cache : id_cache'[i] = id_cache[i]
  BY EmplaceFacts DEF JoinsStop
<1>2. /\ \A l \in Levels : ToSet(stops'[l]) = ToSet(stops[l]) \cup (IF l = p THEN {b} ELSE {})
      /\ \A l \in Levels : Unlike(stops'[l])
  <2>1. /\ stops \in [Levels -> Seq(StopBndl)]
        /\ stops' = ChainEmplace(stops, p, b)
    BY DEF AdvIInv, AdvTypes, BookTypeOK, JoinsStop
  <2>2. \A l \in Levels : Unlike(stops[l]) /\ \A d \in ToSet(stops[l]) : d.id # b.id
    BY CacheFacts, NewIsNowhere
  <2>3. JoinedTo(stops, stops', p, b)
    BY <2>1, JoinedElements, Zenon
  <2> QED
    BY <2>2, <2>3 DEF JoinedTo
<1>3. UNCHANGED <<limits, cchain>>
  BY DEF JoinsStop
<1>4. ChainsAreCached'
  <2>1. ASSUME NEW l \in Levels
        PROVE  /\ \A d \in ToSet(limits'[l]) : Cached(d.id, "limit", l)'
               /\ \A d \in ToSet(stops'[l]) : Cached(d.id, "stop", l)'
    <3>1. /\ \A d \in ToSet(limits[l]) : Cached(d.id, "limit", l)
          /\ \A d \in ToSet(stops[l]) : Cached(d.id, "stop", l)
      BY DEF AdvIInv, Placed, ChainsAreCached
    <3> QED
      BY <1>1, <1>2, <1>3, <3>1 DEF Cached
  <2> QED
    BY <1>2, <1>3, <2>1, CacheFacts DEF ChainsAreCached
<1>5. TakenAreCached'
  <2>1. ASSUME NEW d \in ToSet(cchain)
        PROVE  /\ d.id \in DOMAIN id_cache'
               /\ id_cache'[d.id].type = "stop"
               /\ \A l \in Levels : \A e \in ToSet(stops'[l]) : e.id # d.id
    <3>1. d.id # b.id
      BY NewIsNowhere
    <3> QED
      BY <1>1, <1>2, <3>1 DEF AdvIInv, Placed, TakenAreCached
  <2> QED
    BY <1>3, <2>1, CacheFacts DEF TakenAreCached, HeldIsAway
<1>6. CachedStand'
  <2>1. ASSUME NEW i \in DOMAIN id_cache'
        PROVE  \E d \in ToSet(ChainOf(i)') \cup ToSet(cchain) : d.id = i
    <3>1. CASE i = b.id
      BY <3>1, <1>1, <1>2 DEF ChainOf
    <3>2. CASE i \in DOMAIN id_cache
      <4>1. PICK d \in ToSet(ChainOf(i)) \cup ToSet(cchain) : d.id = i
        BY <3>2 DEF AdvIInv, Placed, CachedStand
      <4>2. ToSet(ChainOf(i)) \subseteq ToSet(ChainOf(i)')
        BY <3>2, <1>1, <1>2, <1>3, CacheFacts DEF ChainOf
      <4> QED
        BY <4>1, <4>2
    <3> QED
      BY <1>1, <3>1, <3>2
  <2> QED
    BY <1>3, <2>1 DEF CachedStand
<1> QED
  BY <1>4, <1>5, <1>6 DEF Placed

\* What these changes do to the pointers: the windows hold.
LEMMA SameBook ==
    ASSUME AdvIInv, UNCHANGED <<book, pointers, beg, end>>
    PROVE  BookInv'
<1>1. BookTypeOK' /\ LimitWindows' /\ Uncrossed' /\ StopWindows'
  BY LimitFrame, StopFrame DEF AdvIInv, BookInv, BookTypeOK, book, pointers
<1> QED
  BY <1>1 DEF BookInv

LEMMA PullBook ==
    ASSUME AdvIInv, NEW id, Pull(id), UNCHANGED <<beg, end>>
    PROVE  /\ BookInv'
           /\ \A s \in Sides : Geq(s, near'[s], near[s])
<1>1. BookInv /\ BookTypeOK /\ id \in DOMAIN id_cache /\ LimitWindows /\ Uncrossed /\ StopWindows
  BY DEF AdvIInv, AdvTypes, BookInv, Pull
<1>2. BookTypeOK'
  BY <1>1, PullType DEF BookTypeOK
<1>3. CASE PopLimit(id)
  <2>1. LimitWindows' /\ Uncrossed'
    BY <1>1, <1>2, <1>3, PullLimitWindows DEF BookTypeOK
  <2>2. UNCHANGED <<stops, near, far>>
    BY <1>3 DEF PopLimit
  <2>3. StopWindows'
    BY <1>1, <2>2, StopFrame
  <2>4. \A s \in Sides : Geq(s, near'[s], near[s])
    BY <1>1, <2>2, BookFacts DEF BookTypeOK, Geq, Pointers, Sides
  <2> QED
    BY <1>2, <2>1, <2>3, <2>4 DEF BookInv
<1>4. CASE PopStop(id)
  <2>1. StopWindows'
    BY <1>1, <1>2, <1>4, PullStopWindows DEF BookTypeOK
  <2>2. UNCHANGED <<limits, best, worst>>
    BY <1>4 DEF PopStop
  <2>3. LimitWindows' /\ Uncrossed'
    BY <1>1, <2>2, LimitFrame
  <2>4. \A s \in Sides : Geq(s, near'[s], near[s])
    <3> DEFINE p == id_cache[id].p
    <3>1. PICK i \in 1 .. Len(stops[p]) :
              StopAfterPull(stops[p][i].side, p) \/ UNCHANGED <<near, far>>
      BY <1>4 DEF PopStop
    <3>2. p \in Levels /\ stops[p][i].side \in Sides
      <4>1. p \in Levels /\ stops[p] \in Seq(StopBndl)
        BY <1>4, CacheFacts DEF PopStop, Pull
      <4>2. stops[p][i] \in StopBndl
        BY <4>1, ElementOfSeq
      <4> QED
        BY <4>1, <4>2 DEF StopBndl
    <3> DEFINE t == stops[p][i].side
    <3> HIDE DEF p, t
    <3>3. ASSUME NEW s \in Sides
          PROVE  Geq(s, near'[s], near[s])
      <4>1. /\ near[s] \in Book \cup {NullHigh(s)} /\ near[s] \in Int
            /\ \A q \in Book : Geq(s, NullHigh(s), q)
            /\ NullHigh(s) \in Int
        BY <1>1, BookFacts DEF StopWindows, NullHigh, Geq, Sides
      <4>2. CASE UNCHANGED <<near, far>>
        BY <4>1, <4>2 DEF Geq, Sides
      <4>3. CASE StopAfterPull(t, p)
        <5>1. near'[s] \in {near[s], NullHigh(s)} \/ near'[s] = Inc(s, near[s])
          BY <1>1, <3>2, <4>3 DEF StopAfterPull, BookTypeOK, t
        <5> QED
          BY <4>1, <5>1 DEF Geq, Inc, Sides
      <4> QED
        BY <3>1, <4>2, <4>3 DEF t
    <3> QED
      BY <3>3
  <2> QED
    BY <1>2, <2>1, <2>3, <2>4 DEF BookInv
<1> QED
  BY <1>3, <1>4 DEF Pull

LEMMA FrontBook ==
    ASSUME AdvIInv, pc \in {"matched", "reduce"}, NEW r, r = Opp(cur.side),
           limits' = [limits EXCEPT ![best[r]] = Tail(@)],
           Erase({FrontOrder.id}),
           IF limits'[best[r]] = <<>>
           THEN FindNewBestInside(r, limits', worst[r])
           ELSE UNCHANGED <<best, worst>>,
           UNCHANGED <<stops, near, far, beg, end>>
    PROVE  BookInv'
<1>1. BookInv /\ BookTypeOK /\ StopWindows
  BY DEF AdvIInv, AdvTypes, BookInv
<1>2. /\ r \in Sides /\ best[r] \in Book /\ best[r] \in Levels
      /\ limits[best[r]] \in Seq(LimitBndl) /\ limits[best[r]] # <<>>
  BY FrontFacts
<1>3. Tail(limits[best[r]]) \in Seq(LimitBndl)
  BY <1>2, HeadTailProperties
<1>4. limits' \in [Levels -> Seq(LimitBndl)]
  BY <1>1, <1>2, <1>3 DEF BookTypeOK
<1>5. best' \in [Sides -> Pointers] /\ worst' \in [Sides -> Pointers]
  <2>1. worst[r] \in Pointers
    BY <1>1, <1>2 DEF BookTypeOK
  <2>2. CASE limits'[best[r]] = <<>>
    BY <1>1, <1>2, <2>1, <2>2, FindNewBestType
  <2>3. CASE limits'[best[r]] # <<>>
    BY <1>1, <2>3 DEF BookTypeOK
  <2> QED
    BY <2>2, <2>3
<1>6. /\ DOMAIN id_cache' \subseteq Nat
      /\ \A i \in DOMAIN id_cache' : id_cache'[i] \in CacheElem
  BY <1>1, EraseType
<1>7. BookTypeOK'
  BY <1>1, <1>4, <1>5, <1>6 DEF BookTypeOK
<1>8. LimitWindows' /\ Uncrossed'
  BY <1>1, <1>2, <1>4, FrontLimitWindows
<1>9. StopWindows'
  BY <1>1, StopFrame
<1> QED
  BY <1>7, <1>8, <1>9 DEF BookInv

LEMMA ChangesBook ==
    ASSUME AdvIInv, NEW ids, NEW n \in Int, Changes(ids, n), UNCHANGED <<pointers, beg, end>>,
           limits' = [l \in Levels |-> limits'[l]], stops' = [l \in Levels |-> stops'[l]]
    PROVE  BookInv'
<1>1. BookInv /\ BookTypeOK
  BY DEF AdvIInv, AdvTypes, BookInv
<1>2. limits' \in [Levels -> Seq(LimitBndl)] /\ stops' \in [Levels -> Seq(StopBndl)]
  <2>1. \A l \in Levels : limits'[l] \in Seq(LimitBndl) /\ stops'[l] \in Seq(StopBndl)
    BY SizedElements
  <2> QED
    BY <2>1
<1>3. BookTypeOK'
  BY <1>1, <1>2 DEF BookTypeOK, Changes, pointers
<1>4. ASSUME NEW l \in Levels
      PROVE  /\ Len(limits'[l]) = Len(limits[l]) /\ Len(stops'[l]) = Len(stops[l])
             /\ \A i \in 1 .. Len(limits[l]) : limits'[l][i].side = limits[l][i].side
             /\ \A i \in 1 .. Len(stops[l]) : stops'[l][i].side = stops[l][i].side
  <2>1. /\ \A i \in 1 .. Len(limits[l]) : limits[l][i] \in LimitBndl
        /\ \A i \in 1 .. Len(stops[l]) : stops[l][i] \in StopBndl
    BY CacheFacts, ElementAt
  <2>2. /\ Len(limits'[l]) = Len(limits[l]) /\ Len(stops'[l]) = Len(stops[l])
        /\ \A i \in 1 .. Len(limits[l]) : limits'[l][i] = Sized(limits[l][i], ids, n)
        /\ \A i \in 1 .. Len(stops[l]) : stops'[l][i] = Sized(stops[l][i], ids, n)
    BY SizedElements
  <2> QED
    BY <2>1, <2>2, SizedFields
<1>5. SameSides(limits, limits') /\ SameSides(stops, stops')
  BY <1>4 DEF SameSides
<1>6. LimitWindows' /\ Uncrossed'
  BY <1>1, <1>2, <1>5, ResizedLimitWindows DEF pointers
<1>7. StopWindows'
  BY <1>1, <1>5, ResizedStopWindows DEF pointers
<1> QED
  BY <1>3, <1>6, <1>7 DEF BookInv

LEMMA JoinsLimitBook ==
    ASSUME AdvIInv, NEW p \in Book, NEW b \in LimitBndl, JoinsLimit(b, p),
           LimitAfterInsert(b.side, p), ~ Geq(b.side, p, best[Opp(b.side)]),
           UNCHANGED <<near, far, beg, end>>
    PROVE  BookInv'
<1>1. BookInv /\ BookTypeOK /\ StopWindows /\ p \in Levels /\ b.side \in Sides
  BY BookFacts DEF AdvIInv, AdvTypes, BookInv, LimitBndl
<1>2. limits' \in [Levels -> Seq(LimitBndl)]
  BY <1>1, JoinedElements DEF BookTypeOK, JoinsLimit
<1>3. best' \in [Sides -> Pointers] /\ worst' \in [Sides -> Pointers]
  <2>1. p \in Pointers
    BY <1>1, BookFacts, PointerFacts
  <2> QED
    BY <1>1, <2>1 DEF LimitAfterInsert, BookTypeOK
<1>4. /\ DOMAIN id_cache' \subseteq Nat
      /\ \A i \in DOMAIN id_cache' : id_cache'[i] \in CacheElem
  <2>1. b.id \in Nat /\ [type |-> "limit", p |-> p] \in CacheElem
    BY <1>1 DEF LimitBndl, CacheElem
  <2> QED
    BY <1>1, <2>1, EmplaceType DEF JoinsLimit
<1>5. BookTypeOK'
  BY <1>1, <1>2, <1>3, <1>4 DEF BookTypeOK, JoinsLimit
<1>6. LimitWindows' /\ Uncrossed'
  BY <1>1, NewLimitWindows DEF JoinsLimit
<1>7. StopWindows'
  BY <1>1, StopFrame DEF JoinsLimit
<1> QED
  BY <1>5, <1>6, <1>7 DEF BookInv

LEMMA JoinsStopBook ==
    ASSUME AdvIInv, NEW p \in Book, NEW b \in StopBndl, JoinsStop(b, p),
           StopAfterInsert(b.side, p), UNCHANGED <<best, worst, beg, end>>
    PROVE  BookInv'
<1>1. /\ BookInv /\ BookTypeOK /\ LimitWindows /\ Uncrossed /\ p \in Levels
      /\ b.side \in Sides
  BY BookFacts DEF AdvIInv, AdvTypes, BookInv, StopBndl
<1>2. stops' \in [Levels -> Seq(StopBndl)]
  BY <1>1, JoinedElements DEF BookTypeOK, JoinsStop
<1>3. near' \in [Sides -> Pointers] /\ far' \in [Sides -> Pointers]
  <2>1. p \in Pointers
    BY <1>1, BookFacts, PointerFacts
  <2> QED
    BY <1>1, <2>1 DEF StopAfterInsert, BookTypeOK
<1>4. /\ DOMAIN id_cache' \subseteq Nat
      /\ \A i \in DOMAIN id_cache' : id_cache'[i] \in CacheElem
  <2>1. b.id \in Nat /\ [type |-> "stop", p |-> p] \in CacheElem
    BY <1>1 DEF StopBndl, CacheElem
  <2> QED
    BY <1>1, <2>1, EmplaceType DEF JoinsStop
<1>5. BookTypeOK'
  BY <1>1, <1>2, <1>3, <1>4 DEF BookTypeOK, JoinsStop
<1>6. StopWindows'
  BY <1>1, NewStopWindows DEF JoinsStop
<1>7. LimitWindows' /\ Uncrossed'
  BY <1>1, LimitFrame DEF JoinsStop
<1> QED
  BY <1>5, <1>6, <1>7 DEF BookInv

LEMMA TakesBook ==
    ASSUME AdvIInv, NEW s \in Sides, NEW p \in Book, Takes(p), Geq(s, near[s], p),
           StopAfterTrigger(s, p), UNCHANGED <<best, worst, beg, end>>
    PROVE  /\ BookInv'
           /\ Inc(s, p) \in Book \cup {NullHigh(s)}
           /\ near'[s] \in {Inc(s, p), NullHigh(s)}
<1>1. /\ BookInv /\ BookTypeOK /\ LimitWindows /\ Uncrossed /\ p \in Levels
  BY BookFacts DEF AdvIInv, AdvTypes, BookInv
<1>2. stops' = [stops EXCEPT ![p] = <<>>] /\ UNCHANGED <<limits, id_cache>>
  BY DEF Takes
<1>3. stops' \in [Levels -> Seq(StopBndl)]
  BY <1>1, <1>2 DEF BookTypeOK
<1>4. near' \in [Sides -> Pointers] /\ far' \in [Sides -> Pointers]
  <2>1. /\ Inc(s, p) \in Pointers /\ NullHigh(s) \in Pointers /\ NullLow(s) \in Pointers
    BY <1>1, PointerFacts
  <2> QED
    BY <1>1, <2>1 DEF StopAfterTrigger, BookTypeOK
<1>5. BookTypeOK'
  BY <1>1, <1>2, <1>3, <1>4 DEF BookTypeOK
<1>6. /\ StopWindows'
      /\ Inc(s, p) \in Book \cup {NullHigh(s)}
      /\ near'[s] \in {Inc(s, p), NullHigh(s)}
  BY <1>1, <1>2, <1>5, TriggerStopWindows
<1>7. LimitWindows' /\ Uncrossed'
  BY <1>1, <1>2, LimitFrame
<1> QED
  BY <1>5, <1>6, <1>7 DEF BookInv

-----------------------------------------------------------------------------
(* What each action does to the book.                                       *)

\* The orders that leave, or are added, keep what the properties of the book say.
LEMMA NothingHeld ==
    ASSUME AdvIInv, pc # "adjust"
    PROVE  held = NoHold /\ HeldOrders = {} /\ HeldIds = {} /\ adjusting = {}
BY DEF AdvIInv, AdvControl, HeldOrders, HeldIds

LEMMA PullAndFacts ==
    ASSUME AdvIInv, pc # "adjust", NEW id, NEW drop, PullAnd(id, drop),
           UNCHANGED <<cchain, held, beg, end>>
    PROVE  /\ BookInv' /\ Placed' /\ held' = NoHold
           /\ Leaves(id)
           /\ \A s \in Sides : Geq(s, near'[s], near[s])
<1>1. held = NoHold
  BY NothingHeld
<1>2. CASE id \in DOMAIN id_cache
  <2>1. Pull(id) /\ UNCHANGED cchain
    BY <1>2 DEF PullAnd
  <2>2. Leaves(id)
    BY <2>1, PullLeaves
  <2> QED
    BY <2>1, <2>2, <1>1, PullBook, LeavesPlaced DEF HeldIsAway
<1>3. CASE id \notin DOMAIN id_cache
  <2>1. UNCHANGED <<book, pointers>>
    BY <1>3 DEF PullAnd
  <2>2. BookInv' /\ Placed'
    BY <2>1, <1>1, SameBook, SamePlaced DEF HeldIsAway, book
  <2>4. Forgets(id)
    BY <1>3, <2>1 DEF Forgets, book
  <2>5. Leaves(id)
    BY <1>3, <2>1, <2>4, CacheFacts, NewIsNowhere, NotThere DEF Leaves, book
  <2>6. \A s \in Sides : Geq(s, near'[s], near[s])
    BY <2>1, CacheFacts DEF BookTypeOK, Geq, Pointers, Sides, pointers
  <2> QED
    BY <1>1, <2>2, <2>5, <2>6
<1> QED
  BY <1>2, <1>3

LEMMA LiftFacts ==
    ASSUME AdvIInv, LiftTrailingStop
    PROVE  /\ BookInv' /\ Placed'
           /\ \/ UNCHANGED <<book, pointers, held>> /\ Abort /\ held = NoHold
              \/ \E m \in adjusting :
                     /\ NextMove(m)
                     /\ Leaves(m.id)
                     /\ m.id \in DOMAIN id_cache
                     /\ held' \in ToSet(stops[id_cache[m.id].p])
                     /\ id_cache[m.id].p \in Levels
                     /\ held' \in StopBndl
                     /\ held'.id = m.id
                     /\ held = NoHold
                     /\ UNCHANGED <<internal_queue, cur, hit, adjusting, cchain, swing, scan, pc>>
<1>1. PICK m \in adjusting :
          /\ pc = "adjust" /\ held = NoHold /\ NextMove(m)
          /\ IF m.id \in DOMAIN id_cache
             THEN /\ held' = RestingStop(m.id)
                  /\ PopStop(m.id)
                  /\ UNCHANGED <<internal_queue, cur, hit, adjusting, cchain, swing, scan, pc>>
             ELSE Abort /\ UNCHANGED <<book, pointers>>
  BY DEF LiftTrailingStop
<1>2. UNCHANGED <<beg, end>>
  BY DEF LiftTrailingStop
<1>3. CASE m.id \notin DOMAIN id_cache
  <2>1. Abort /\ UNCHANGED <<book, pointers>> /\ held' = NoHold
    BY <1>1, <1>3 DEF Abort
  <2>2. UNCHANGED <<limits, stops, id_cache>> /\ cchain = <<>> /\ cchain' = <<>>
    BY <1>1, <2>1 DEF book, Abort, AdvIInv, AdvControl
  <2> QED
    BY <1>1, <1>2, <2>1, <2>2, SameBook, SamePlaced DEF HeldIsAway
<1>4. CASE m.id \in DOMAIN id_cache
  <2> DEFINE p == id_cache[m.id].p
  <2>1. /\ PopStop(m.id) /\ held' = RestingStop(m.id) /\ UNCHANGED cchain
        /\ UNCHANGED <<internal_queue, cur, hit, adjusting, cchain, swing, scan, pc>>
    BY <1>1, <1>4
  <2>2. p \in Levels /\ stops[p] \in Seq(StopBndl)
    BY <1>4, CacheFacts
  <2>3. \E i \in 1 .. Len(stops[p]) : stops[p][i].id = m.id
    BY <2>1 DEF PopStop
  <2>4. PICK i \in 1 .. Len(stops[p]) : stops[p][i].id = m.id /\ held' = stops[p][i]
    BY <2>1, <2>3 DEF RestingStop
  <2>5. held' \in ToSet(stops[p]) /\ held' \in StopBndl
    BY <2>2, <2>4, ElementAt
  <2>6. id_cache[m.id].type = "stop"
    <3>1. Cached(held'.id, "stop", p)
      BY <2>2, <2>5 DEF AdvIInv, Placed, ChainsAreCached
    <3> QED
      BY <2>4, <3>1 DEF Cached
  <2>7. Leaves(m.id) /\ Pull(m.id)
    BY <1>4, <2>1, <2>6, PopStopLeaves DEF Pull
  <2>8. HeldIsAway'
    BY <2>4, <2>7 DEF HeldIsAway, Leaves, Forgets
  <2> QED
    BY <1>1, <1>2, <1>4, <2>1, <2>2, <2>4, <2>5, <2>7, <2>8, PullBook, LeavesPlaced
<1> QED
  BY <1>3, <1>4

LEMMA TradeFacts ==
    ASSUME AdvIInv, pc \in {"matched", "reduce"}
    PROVE  /\ held = NoHold /\ cchain = <<>>
           /\ hit \in 1 .. FrontOrder.sz
           /\ FrontOrder.sz \in Nat \ {0} /\ FrontOrder.id \in Nat
           /\ hit \in Nat \ {0}
<1>1. FrontOrder \in LimitBndl
  BY FrontFacts
<1>2. hit \in 1 .. FrontOrder.sz
  BY DEF AdvIInv, FrontMatches
<1>3. held = NoHold /\ cchain = <<>>
  BY DEF AdvIInv, AdvControl
<1> QED
  BY <1>1, <1>2, <1>3 DEF LimitBndl

LEMMA ChangeSizesFacts ==
    ASSUME AdvIInv, held = NoHold, NEW ids, NEW n \in Int, ChangeSizes(ids, n),
           \A l \in Levels : /\ \A b \in ToSet(limits[l]) : Sized(b, ids, n) \in LimitBndl
                             /\ \A b \in ToSet(stops[l]) : Sized(b, ids, n) \in StopBndl,
           UNCHANGED <<id_cache, cchain, held, pointers, beg, end>>
    PROVE  Changes(ids, n) /\ BookInv' /\ Placed'
<1> DEFINE cached(type, l) ==
               {id \in ids \cap DOMAIN id_cache : id_cache[id] = [type |-> type, p |-> l]}
<1>1. /\ limits' = [l \in Levels |-> Resize(limits[l], cached("limit", l), n)]
      /\ stops' = [l \in Levels |-> Resize(stops[l], cached("stop", l), n)]
  BY DEF ChangeSizes
<1>2. ASSUME NEW l \in Levels
      PROVE  /\ Resize(limits[l], cached("limit", l), n) = Resize(limits[l], ids, n)
             /\ Resize(stops[l], cached("stop", l), n) = Resize(stops[l], ids, n)
  <2>1. /\ \A i \in DOMAIN limits[l] : limits[l][i].id \in cached("limit", l)
                                       <=> limits[l][i].id \in ids
        /\ \A i \in DOMAIN stops[l] : stops[l][i].id \in cached("stop", l)
                                      <=> stops[l][i].id \in ids
    <3>1. /\ \A b \in ToSet(limits[l]) : Cached(b.id, "limit", l)
          /\ \A b \in ToSet(stops[l]) : Cached(b.id, "stop", l)
      BY DEF AdvIInv, Placed, ChainsAreCached
    <3> QED
      BY <3>1 DEF Cached, ToSet
  <2> QED
    BY <2>1 DEF Resize
<1> HIDE DEF cached
<1>3. /\ \A l \in Levels : /\ limits'[l] = Resize(limits[l], ids, n)
                           /\ stops'[l] = Resize(stops[l], ids, n)
      /\ limits' = [l \in Levels |-> limits'[l]] /\ stops' = [l \in Levels |-> stops'[l]]
  BY <1>1, <1>2
<1>4. Changes(ids, n)
  BY <1>3 DEF Changes
<1> QED
  BY <1>3, <1>4, ChangesBook, ChangesPlaced DEF HeldIsAway

LEMMA GrowFacts ==
    ASSUME AdvIInv, GrowExits
    PROVE  /\ Changes(ActiveExits(AdvOf(FrontOrder.id)), hit)
           /\ BookInv' /\ Placed'
<1> DEFINE ids == ActiveExits(AdvOf(FrontOrder.id))
<1>1. /\ pc = "matched" /\ ChangeSizes(ids, hit)
      /\ UNCHANGED <<id_cache, cchain, held, pointers, beg, end>>
  BY DEF GrowExits, adv_vars
<1>2. held = NoHold /\ hit \in Nat \ {0}
  BY <1>1, TradeFacts
<1> HIDE DEF ids
<1>3. /\ \A b \in LimitBndl : Sized(b, ids, hit) \in LimitBndl
      /\ \A b \in StopBndl : Sized(b, ids, hit) \in StopBndl
  BY <1>2 DEF Sized, LimitBndl, StopBndl
<1>4. \A l \in Levels : /\ \A b \in ToSet(limits[l]) : b \in LimitBndl
                        /\ \A b \in ToSet(stops[l]) : b \in StopBndl
  BY CacheFacts, ElementsOf
<1>5. Changes(ids, hit) /\ BookInv' /\ Placed'
  BY <1>1, <1>2, <1>3, <1>4, ChangeSizesFacts
<1> QED
  BY <1>5 DEF ids

\* the exit that is linked with the order in front has the size of that one
LEMMA LinkedSize ==
    ASSUME AdvIInv, pc = "matched", Exit(AdvOf(FrontOrder.id).cond),
           NEW d \in Standing, d.id = adv[FrontOrder.id].link, d.id \in DOMAIN id_cache
    PROVE  d.sz = FrontOrder.sz
<1> DEFINE x == FrontOrder.id
<1>1. x \in DOMAIN adv /\ AdvOf(x) = adv[x]
  BY DEF AdvOf, Exit, NoCondition, Condition
<1>2. adv[x].link \in DOMAIN adv
  <2>1. Linked(adv[x].cond)
    BY <1>1 DEF Exit, Linked
  <2>2. adv[x].link \notin Gone
    BY DEF Gone
  <2> QED
    BY <1>1, <2>1, <2>2 DEF AdvIInv, Links, LinksHold, Mutual
<1>3. FrontOrder \in Standing
  <2>1. best[Opp(cur.side)] \in Levels /\ FrontOrder \in ToSet(limits[best[Opp(cur.side)]])
    BY FrontFacts
  <2> QED
    BY <2>1 DEF Standing, LimitOrders
<1>4. FrontOrder.sz - Owed(x) = d.sz - Owed(d.id)
  BY <1>1, <1>2, <1>3 DEF AdvIInv, OneSize
<1>5. Owed(x) = 0 /\ Owed(d.id) = 0
  BY DEF Owed
<1>6. FrontOrder.sz \in Nat
  BY TradeFacts
<1>7. d.sz \in Nat
  <2>1. \A l \in Levels : ToSet(limits[l]) \subseteq LimitBndl /\ ToSet(stops[l]) \subseteq StopBndl
    BY CacheFacts, ElementsOf
  <2>2. ToSet(cchain) \subseteq StopBndl
    BY CacheFacts, ElementsOf
  <2>3. HeldOrders = {}
    BY NothingHeld
  <2> QED
    BY <2>1, <2>2, <2>3 DEF Standing, LimitOrders, StopOrders, LimitBndl, StopBndl
<1> QED
  BY <1>4, <1>5, <1>6, <1>7

LEMMA ShrinkFacts ==
    ASSUME AdvIInv, ShrinkOtherExit
    PROVE  /\ Changes({AdvOf(FrontOrder.id).link}, - hit)
           /\ BookInv' /\ Placed'
           /\ Exit(AdvOf(FrontOrder.id).cond) /\ hit < FrontOrder.sz
<1> DEFINE y == AdvOf(FrontOrder.id).link
           ids == {y}
<1>1. /\ pc = "matched" /\ ChangeSizes(ids, - hit)
      /\ UNCHANGED <<id_cache, cchain, held, pointers, beg, end>>
      /\ Exit(AdvOf(FrontOrder.id).cond)
      /\ y \in DOMAIN id_cache
      /\ hit # FrontOrder.sz
  BY DEF ShrinkOtherExit, adv_vars, Cancels, Exit, Linked
<1>2. held = NoHold /\ hit \in Nat \ {0} /\ - hit \in Int /\ hit < FrontOrder.sz
  BY <1>1, TradeFacts
<1>3. y = adv[FrontOrder.id].link
  BY <1>1 DEF AdvOf, Exit, NoCondition, Condition
<1> HIDE DEF y
<1>4. \A d \in Standing : d.id = y => d.sz = FrontOrder.sz
  BY <1>1, <1>3, LinkedSize
<1>5. /\ \A b \in LimitBndl : (b.id = y => b.sz > hit) => Sized(b, ids, - hit) \in LimitBndl
      /\ \A b \in StopBndl : (b.id = y => b.sz > hit) => Sized(b, ids, - hit) \in StopBndl
  BY <1>2 DEF Sized, LimitBndl, StopBndl
<1>6. \A l \in Levels : /\ \A b \in ToSet(limits[l]) : b \in LimitBndl /\ b \in Standing
                        /\ \A b \in ToSet(stops[l]) : b \in StopBndl /\ b \in Standing
  BY CacheFacts, ElementsOf DEF Standing, LimitOrders, StopOrders
<1>7. \A l \in Levels : /\ \A b \in ToSet(limits[l]) : Sized(b, ids, - hit) \in LimitBndl
                        /\ \A b \in ToSet(stops[l]) : Sized(b, ids, - hit) \in StopBndl
  BY <1>2, <1>4, <1>5, <1>6
<1> HIDE DEF ids
<1>8. Changes(ids, - hit) /\ BookInv' /\ Placed'
  BY <1>1, <1>2, <1>7, ChangeSizesFacts
<1> QED
  BY <1>1, <1>2, <1>8 DEF ids, y

LEMMA ReduceFacts ==
    ASSUME AdvIInv, Reduce
    PROVE  /\ BookInv' /\ Placed'
           /\ \/ /\ hit = FrontOrder.sz
                 /\ Leaves(FrontOrder.id)
                 /\ DropAdv({FrontOrder.id})
              \/ /\ hit < FrontOrder.sz
                 /\ Changes({FrontOrder.id}, - hit)
                 /\ UNCHANGED adv
<1> DEFINE r == Opp(cur.side)
           p == best[r]
           id == FrontOrder.id
<1>1. /\ pc \in {"matched", "reduce"}
      /\ UNCHANGED <<stops, near, far, cchain, held, beg, end>>
  BY DEF Reduce
<1>2. /\ held = NoHold /\ HeldIsAway' /\ hit \in Nat \ {0} /\ hit <= FrontOrder.sz
      /\ FrontOrder.sz \in Nat
  BY <1>1, TradeFacts DEF HeldIsAway
<1>3. CASE hit = FrontOrder.sz
  <2>1. /\ limits' = [limits EXCEPT ![p] = Tail(@)]
        /\ Erase({id})
        /\ DropAdv({id})
        /\ IF limits'[p] = <<>> THEN FindNewBestInside(r, limits', worst[r])
           ELSE UNCHANGED <<best, worst>>
    BY <1>3 DEF Reduce
  <2>2. Leaves(id)
    BY <1>1, <2>1, FrontLeaves
  <2>3. BookInv'
    BY <1>1, <2>1, FrontBook
  <2>4. Placed'
    BY <1>2, <2>2, LeavesPlaced
  <2> QED
    BY <1>3, <2>1, <2>2, <2>3, <2>4
<1>4. CASE hit # FrontOrder.sz
  <2>1. /\ limits' = [limits EXCEPT ![p][1].sz = @ - hit]
        /\ UNCHANGED <<id_cache, best, worst, adv>>
    BY <1>4 DEF Reduce
  <2>2. /\ p \in Levels /\ limits[p] \in Seq(LimitBndl) /\ limits[p] # <<>>
        /\ 1 \in 1 .. Len(limits[p]) /\ limits[p][1] = FrontOrder
        /\ Cached(id, "limit", p) /\ FrontOrder \in LimitBndl
    BY <1>1, FrontFacts
  <2> HIDE DEF p, r, id
  <2>3. limits \in [Levels -> Seq(LimitBndl)] /\ stops \in [Levels -> Seq(StopBndl)]
    BY DEF AdvIInv, AdvTypes, BookTypeOK
  <2>4. /\ \A k \in Levels : k # p => \A b \in ToSet(limits[k]) : b.id # id
        /\ \A k \in Levels : \A b \in ToSet(stops[k]) : b.id # id
    BY <2>2, OnlyOnItsChain
  <2>5. /\ \A k \in Levels : k # p => limits'[k] = limits[k]
        /\ limits'[p] = [limits[p] EXCEPT ![1].sz = @ - hit]
        /\ DOMAIN limits' = Levels
    BY <2>1, <2>2, <2>3
  <2>6. /\ \A S : \A c \in Seq(S) : (\A b \in ToSet(c) : b.id # id) => Resize(c, {id}, - hit) = c
    <3>1. ASSUME NEW S, NEW c \in Seq(S), \A b \in ToSet(c) : b.id # id
          PROVE  Resize(c, {id}, - hit) = c
      <4>1. \A i \in DOMAIN c : c[i].id # id
        BY <3>1 DEF ToSet
      <4>2. Resize(c, {id}, - hit) = [i \in DOMAIN c |-> c[i]]
        BY <4>1 DEF Resize
      <4>3. c = [i \in 1 .. Len(c) |-> c[i]] /\ DOMAIN c = 1 .. Len(c)
        BY <3>1
      <4> QED
        BY <4>2, <4>3
    <3> QED
      BY <3>1
  <2>7. limits'[p] = Resize(limits[p], {id}, - hit)
    <3>1. \A i \in 1 .. Len(limits[p]) : limits[p][i].id = id <=> i = 1
      BY <2>2, CacheFacts DEF Unlike, id
    <3>2. hit \in Int /\ FrontOrder.sz - hit = FrontOrder.sz + (- hit)
      BY <1>2
    <3>3. limits[p] = [i \in 1 .. Len(limits[p]) |-> limits[p][i]]
          /\ DOMAIN limits[p] = 1 .. Len(limits[p])
      BY <2>2
    <3>4. limits'[p] = [i \in 1 .. Len(limits[p]) |->
                           IF i = 1 THEN [limits[p][1] EXCEPT !.sz = FrontOrder.sz - hit]
                           ELSE limits[p][i]]
      BY <2>2, <2>5, <3>3
    <3>5. Resize(limits[p], {id}, - hit) = [i \in 1 .. Len(limits[p]) |->
                           IF i = 1 THEN [limits[p][1] EXCEPT !.sz = FrontOrder.sz + (- hit)]
                           ELSE limits[p][i]]
      BY <2>2, <3>1, <3>3 DEF Resize
    <3> QED
      BY <3>2, <3>4, <3>5
  <2>8. \A l \in Levels : /\ limits'[l] = Resize(limits[l], {id}, - hit)
                          /\ stops'[l] = Resize(stops[l], {id}, - hit)
    BY <1>1, <2>4, <2>5, <2>6, <2>7, CacheFacts
  <2>9. \A l \in Levels : /\ \A b \in ToSet(limits[l]) : Sized(b, {id}, - hit) \in LimitBndl
                          /\ \A b \in ToSet(stops[l]) : Sized(b, {id}, - hit) \in StopBndl
    <3>1. Sized(FrontOrder, {id}, - hit) \in LimitBndl
      BY <1>2, <1>4, <2>2 DEF Sized, LimitBndl
    <3>2. \A b \in ToSet(limits[p]) : b = FrontOrder \/ b.id # id
      <4>1. \A i \in 1 .. Len(limits[p]) : limits[p][i].id = id => i = 1
        BY <2>2, CacheFacts DEF Unlike, id
      <4> QED
        BY <2>2, <4>1, IndexOf
    <3>3. \A b : b.id # id => Sized(b, {id}, - hit) = b
      BY DEF Sized
    <3>4. \A l \in Levels : /\ \A b \in ToSet(limits[l]) : b \in LimitBndl
                            /\ \A b \in ToSet(stops[l]) : b \in StopBndl
      BY CacheFacts, ElementsOf
    <3> QED
      BY <2>4, <3>1, <3>2, <3>3, <3>4
  <2>10. Changes({id}, - hit)
    BY <1>1, <2>1, <2>8, <2>9 DEF Changes
  <2>11. limits' = [l \in Levels |-> limits'[l]] /\ stops' = [l \in Levels |-> stops'[l]]
    BY <1>1, <2>1, <2>3
  <2>12. UNCHANGED <<pointers, beg, end>> /\ - hit \in Int
    BY <1>1, <1>2, <2>1 DEF pointers
  <2>13. BookInv' /\ Placed'
    BY <1>2, <2>10, <2>11, <2>12, ChangesBook, ChangesPlaced
  <2> QED
    BY <1>2, <1>4, <2>1, <2>10, <2>13 DEF id
<1> QED
  BY <1>3, <1>4

LEMMA StopJoins ==
    ASSUME AdvIInv, NEW p \in Book, NEW b \in StopBndl, b.id \notin DOMAIN id_cache,
           PushStop(b, p), held' = NoHold,
           UNCHANGED <<limits, cchain, best, worst, beg, end>>
    PROVE  JoinsStop(b, p) /\ BookInv' /\ Placed'
<1>1. JoinsStop(b, p) /\ StopAfterInsert(b.side, p)
  BY DEF PushStop, JoinsStop
<1>2. p \in Levels /\ HeldIsAway'
  BY CacheFacts, BookFacts DEF HeldIsAway
<1> QED
  BY <1>1, <1>2, JoinsStopBook, JoinsStopPlaced

LEMMA PlaceFacts ==
    ASSUME AdvIInv, PlaceTrailingStop
    PROVE  /\ BookInv' /\ Placed' /\ held' = NoHold
           /\ held \in StopBndl /\ held.id \notin DOMAIN id_cache
           /\ \E m \in adjusting :
                  LET p == Offset(held.side, adv[held.id].nticks, m.from)
                  IN  /\ NextMove(m)
                      /\ \/ /\ p \in Book
                            /\ JoinsStop(held, p)
                            /\ adjusting' = adjusting \ {m}
                            /\ UNCHANGED <<adv, internal_queue, cur, hit, cchain, swing,
                                           scan, pc>>
                         \/ /\ UNCHANGED <<book, pointers>>
                            /\ Abort
                            /\ DropAdv({held.id})
<1>1. PICK m \in adjusting :
          LET p == Offset(held.side, adv[held.id].nticks, m.from)
          IN  /\ pc = "adjust"
              /\ held # NoHold
              /\ NextMove(m)
              /\ IF p \in Book
                 THEN /\ PushStop(held, p)
                      /\ adjusting' = adjusting \ {m}
                      /\ held' = NoHold
                      /\ UNCHANGED <<adv, internal_queue, cur, hit, cchain, swing,
                                     scan, pc>>
                 ELSE /\ Abort
                      /\ DropAdv({held.id})
                      /\ UNCHANGED <<stops, id_cache, near, far>>
              /\ UNCHANGED <<limits, best, worst, last, beg, end, last_id,
                             total_volume, need_check_for_stops, trailing>>
  BY DEF PlaceTrailingStop
<1> DEFINE p == Offset(held.side, adv[held.id].nticks, m.from)
<1>2. held \in StopBndl /\ held.id \notin DOMAIN id_cache
  BY <1>1 DEF AdvIInv, AdvTypes, Placed, TakenAreCached
<1>3. CASE p \in Book
  <2>1. PushStop(held, p) /\ held' = NoHold /\ UNCHANGED <<limits, cchain, best, worst, beg, end>>
    BY <1>1, <1>3
  <2>2. JoinsStop(held, p) /\ BookInv' /\ Placed'
    BY <1>2, <1>3, <2>1, StopJoins
  <2> QED
    BY <1>1, <1>2, <1>3, <2>1, <2>2
<1>4. CASE p \notin Book
  <2>1. Abort /\ DropAdv({held.id}) /\ UNCHANGED <<book, pointers, beg, end>>
    BY <1>1, <1>4 DEF book, pointers
  <2>2. held' = NoHold /\ cchain' = <<>> /\ cchain = <<>>
    BY <1>1, <2>1 DEF Abort, AdvIInv, AdvControl
  <2>3. BookInv' /\ Placed'
    BY <2>1, <2>2, SameBook, SamePlaced DEF HeldIsAway, book
  <2> QED
    BY <1>1, <1>2, <2>1, <2>2, <2>3
<1> QED
  BY <1>3, <1>4

\* cur as it rests
RestBndl == [id |-> cur.id, sz |-> cur.sz, side |-> cur.side]
StopBndlOfCur == [id |-> cur.id, sz |-> cur.sz, side |-> cur.side, limit |-> cur.limit]

LEMMA CurIsNew ==
    ASSUME AdvIInv, pc \in {"route", "settle"}
    PROVE  cur.id \notin DOMAIN id_cache /\ held = NoHold
BY CurFacts, NothingHeld DEF AdvIInv, Fresh, CurIsFresh, Between

LEMMA SettleFacts ==
    ASSUME AdvIInv, Settle
    PROVE  /\ BookInv' /\ Placed'
           /\ \/ cur.sz = 0 /\ UNCHANGED <<book, pointers>>
              \/ /\ cur.type = "limit" /\ cur.sz > 0
                 /\ RestBndl \in LimitBndl
                 /\ cur.limit \in Book
                 /\ cur.id \notin DOMAIN id_cache
                 /\ JoinsLimit(RestBndl, cur.limit)
<1>1. /\ pc = "settle" /\ held = NoHold /\ HeldIsAway' /\ cur.id \notin DOMAIN id_cache
      /\ UNCHANGED <<stops, cchain, near, far, beg, end>>
  BY CurIsNew DEF Settle, HeldIsAway, adv_vars
<1>2. CASE cur.sz = 0
  <2>1. UNCHANGED <<book, pointers>>
    BY <1>1, <1>2 DEF Settle, book, pointers
  <2> QED
    BY <1>1, <1>2, <2>1, SameBook, SamePlaced DEF book
<1>3. CASE cur.sz # 0
  <2>1. cur \in AdvElem /\ cur.sz > 0 /\ ElemFits(cur) /\ cur.side \in Sides
    BY <1>1, <1>3, CurFacts DEF Between
  <2>2. cur.type = "limit"
        /\ JoinsLimit(RestBndl, cur.limit) /\ LimitAfterInsert(cur.side, cur.limit)
    BY <1>1, <1>3 DEF Settle, JoinsLimit, RestBndl
  <2>3. cur.limit \in Book /\ cur.limit \in Levels
    BY <2>1, <2>2, CacheFacts, BookFacts DEF ElemFits
  <2>4. RestBndl \in LimitBndl /\ RestBndl.id = cur.id /\ RestBndl.side = cur.side
    BY <2>1 DEF RestBndl, LimitBndl, AdvElem
  <2>5. ~ Geq(cur.side, cur.limit, best[Opp(cur.side)])
    BY <1>1, <2>1, <2>2 DEF AdvIInv, CurNotTradable, IsTradable, PLevel
  <2>6. BookInv' /\ Placed'
    BY <1>1, <2>2, <2>3, <2>4, <2>5, JoinsLimitBook, JoinsLimitPlaced
  <2> QED
    BY <1>1, <2>1, <2>2, <2>3, <2>4, <2>6
<1> QED
  BY <1>2, <1>3

LEMMA RouteFacts ==
    ASSUME AdvIInv, RouteToStops
    PROVE  /\ BookInv' /\ Placed'
           /\ StopBndlOfCur \in StopBndl
           /\ cur.stop \in Book /\ cur.limit \in Book \cup {0}
           /\ cur.id \notin DOMAIN id_cache
           /\ JoinsStop(StopBndlOfCur, cur.stop)
<1>1. /\ pc = "route" /\ held' = NoHold /\ cur.id \notin DOMAIN id_cache
      /\ UNCHANGED <<limits, cchain, best, worst, beg, end>>
      /\ cur.type = "stop" /\ ~ ActiveStop(cur)
      /\ PushStop(StopBndlOfCur, cur.stop)
  BY CurIsNew DEF RouteToStops, adv_vars, StopBndlOfCur
<1>2. cur \in AdvElem /\ ElemFits(cur) /\ cur.sz > 0
  BY <1>1, CurFacts DEF Between, AdvIInv, AdvControl
<1>3. cur.stop \in Book /\ cur.limit \in Book \cup {0}
  BY <1>1, <1>2 DEF ElemFits
<1>4. StopBndlOfCur \in StopBndl /\ StopBndlOfCur.id = cur.id
  BY <1>2 DEF StopBndlOfCur, StopBndl, AdvElem
<1> QED
  BY <1>1, <1>3, <1>4, StopJoins

\* the stop of a bracket, and the one of a trailing stop order
ExitStop ==
    [id |-> last_id + 1, sz |-> cur.sz, side |-> cur.p1.side,
     limit |-> IF cur.cond = "trailing_bracket_active" THEN 0 ELSE cur.p1.limit]
TrailStop == [id |-> cur.id, sz |-> cur.sz, side |-> cur.side, limit |-> 0]

LEMMA TargetFacts ==
    ASSUME AdvIInv, ConcludeTarget
    PROVE  /\ BookInv' /\ Placed'
           /\ ExitStop \in StopBndl /\ ExitStop.limit \in Book \cup {0}
           /\ last_id + 1 \notin Known
           /\ \E p \in Book : JoinsStop(ExitStop, p)
<1> DEFINE p == StopLevel(cur.p1, cur.cond = "trailing_bracket_active")
<1>1. /\ pc = "condition" /\ p \in Book /\ cur.sz > 0 /\ Exit(cur.cond)
      /\ UNCHANGED <<limits, cchain, best, worst, beg, end, held>>
      /\ PushStop(ExitStop, p)
  BY DEF ConcludeTarget, ExitStop, Exit
<1>2. cur \in AdvElem /\ ElemFits(cur)
  BY <1>1, CurFacts DEF Between
<1>3. held' = NoHold
  BY <1>1, NothingHeld
<1>4. last_id + 1 \in Nat /\ last_id + 1 \notin Known
  <2>1. \A id \in Known : id <= last_id
    BY LastIdFacts
  <2> QED
    BY <2>1, LastIdFacts
<1>5. ExitStop.limit \in Book \cup {0} /\ ExitStop.limit \in 0 .. MaxLevel
  BY <1>1, <1>2, CacheFacts, BookFacts DEF ExitStop, ElemFits, Exit
<1>6. cur.sz \in Nat /\ cur.p1.side \in Sides
  BY <1>2 DEF AdvElem, ParamsLeft
<1>7. ExitStop \in StopBndl /\ ExitStop.id = last_id + 1
  BY <1>1, <1>4, <1>5, <1>6 DEF ExitStop, StopBndl
<1> HIDE DEF p
<1> QED
  BY <1>1, <1>3, <1>4, <1>5, <1>7, StopJoins DEF Known

LEMMA TrailFacts ==
    ASSUME AdvIInv, InsertTrailingStop
    PROVE  /\ BookInv' /\ Placed' /\ held = NoHold /\ held' = NoHold
           /\ TrailStop \in StopBndl
           /\ cur.id \notin DOMAIN id_cache
           /\ IF StopLevel(cur.p1, TRUE) \in Book
              THEN JoinsStop(TrailStop, StopLevel(cur.p1, TRUE))
              ELSE Abort /\ UNCHANGED <<book, pointers, adv, trailing>>
<1> DEFINE p == StopLevel(cur.p1, TRUE)
<1>1. /\ pc = "route" /\ held = NoHold /\ cur.id \notin DOMAIN id_cache /\ cchain = <<>>
      /\ UNCHANGED <<limits, best, worst, beg, end>>
  BY CurIsNew DEF InsertTrailingStop, AdvIInv, AdvControl
<1>2. cur \in AdvElem /\ cur.sz > 0
  BY <1>1, CurFacts DEF Between, AdvIInv, AdvControl
<1>3. TrailStop \in StopBndl /\ TrailStop.id = cur.id
  BY <1>2, CacheFacts, BookFacts DEF TrailStop, StopBndl, AdvElem
<1>4. CASE p \in Book
  <2>1. PushStop(TrailStop, p) /\ UNCHANGED <<cchain, held>>
    BY <1>4 DEF InsertTrailingStop, TrailStop
  <2> HIDE DEF p
  <2>2. JoinsStop(TrailStop, p) /\ BookInv' /\ Placed'
    BY <1>1, <1>3, <1>4, <2>1, StopJoins
  <2> QED
    BY <1>1, <1>3, <1>4, <2>1, <2>2 DEF p
<1>5. CASE p \notin Book
  <2>1. Abort /\ UNCHANGED <<book, pointers, adv, trailing>>
    BY <1>1, <1>5 DEF InsertTrailingStop, book, pointers
  <2>2. held' = NoHold /\ cchain' = <<>>
    BY <2>1 DEF Abort
  <2>3. BookInv' /\ Placed'
    BY <1>1, <2>1, <2>2, SameBook, SamePlaced DEF HeldIsAway, book
  <2> QED
    BY <1>1, <1>3, <1>5, <2>1, <2>2, <2>3
<1> QED
  BY <1>4, <1>5

LEMMA TakeFacts ==
    ASSUME AdvIInv, NEW s, NEW at, NEW handling, TakeChain(s, at, handling),
           \/ s = "buy" /\ at = "scan_buy" /\ handling = "chain_buy"
           \/ s = "sell" /\ at = "scan_sell" /\ handling = "chain_sell"
    PROVE  /\ BookInv' /\ Placed' /\ s \in Sides
           /\ scan \in Book /\ scan' = scan /\ pc' = handling
           /\ Takes(scan)
           /\ Geq(s, near'[s], Inc(s, scan))
<1>1. /\ pc = at /\ Geq(s, last, scan) /\ pc \in Scanning /\ s \in Sides
      /\ UNCHANGED <<best, worst, beg, end, held, limits, id_cache, scan>>
      /\ cchain' = stops[scan] /\ stops' = [stops EXCEPT ![scan] = <<>>]
      /\ StopAfterTrigger(s, scan) /\ pc' = handling
  BY DEF TakeChain, Scanning, Sides
<1>2. /\ cchain = <<>> /\ held = NoHold /\ HeldIsAway' /\ last \in Book
      /\ scan \in Book \cup {NullHigh(s)} /\ Geq(s, near[s], scan)
  BY <1>1 DEF AdvIInv, AdvControl, Scanning, StopScans, ScanAt, HeldIsAway
<1>3. scan \in Book /\ scan \in Levels
  BY <1>1, <1>2, CacheFacts, BookFacts DEF Geq, NullHigh, Sides
<1>4. Takes(scan)
  BY <1>1, <1>2 DEF Takes
<1>5. BookInv'
      /\ Inc(s, scan) \in Book \cup {NullHigh(s)} /\ near'[s] \in {Inc(s, scan), NullHigh(s)}
  BY <1>1, <1>2, <1>3, <1>4, TakesBook
<1>6. Geq(s, near'[s], Inc(s, scan))
  <2>1. \A q \in Book \cup {NullHigh(s)} : Geq(s, NullHigh(s), q) /\ Geq(s, q, q)
    BY <1>1, CacheFacts, BookFacts DEF Geq, NullHigh, Sides
  <2> QED
    BY <1>5, <2>1
<1>7. Placed'
  BY <1>2, <1>3, <1>4, TakesPlaced
<1> QED
  BY <1>1, <1>3, <1>4, <1>5, <1>6, <1>7

LEMMA TriggerFacts ==
    ASSUME AdvIInv, TriggerHead
    PROVE  /\ BookInv' /\ Placed'
           /\ Leaves(Head(cchain).id)
           /\ cchain # <<>> /\ held = NoHold /\ held' = NoHold
<1>1. /\ cchain # <<>> /\ cchain' = Tail(cchain) /\ Erase({Head(cchain).id})
      /\ UNCHANGED <<limits, stops, pointers, beg, end, held>>
  BY DEF TriggerHead, Handling
<1>2. held = NoHold /\ HeldIsAway'
  BY <1>1, TakenFacts DEF HeldIsAway
<1>3. Leaves(Head(cchain).id)
  BY <1>1, HeadLeaves
<1>4. Placed'
  BY <1>2, <1>3, LeavesPlaced
<1>5. BookInv'
  <2>1. BookInv /\ BookTypeOK
    BY CacheFacts
  <2>2. /\ DOMAIN id_cache' \subseteq Nat
        /\ \A i \in DOMAIN id_cache' : id_cache'[i] \in CacheElem
    BY <1>1, <2>1, EraseType DEF BookTypeOK
  <2>3. BookTypeOK'
    BY <1>1, <2>1, <2>2 DEF BookTypeOK, pointers
  <2>4. LimitWindows' /\ Uncrossed' /\ StopWindows'
    BY <1>1, <2>1, LimitFrame, StopFrame DEF BookInv, pointers
  <2> QED
    BY <2>3, <2>4 DEF BookInv
<1> QED
  BY <1>1, <1>2, <1>3, <1>4, <1>5

LEMMA CancelFacts ==
    ASSUME AdvIInv, pc # "adjust", NEW x, CancelLinked(x),
           UNCHANGED <<cchain, held, beg, end>>
    PROVE  /\ BookInv' /\ Placed' /\ held' = NoHold
           /\ Leaves(adv[x].link)
           /\ \A s \in Sides : Geq(s, near'[s], near[s])
           /\ PullAnd(adv[x].link, {x})
BY PullAndFacts DEF CancelLinked

LEMMA BookStep ==
    ASSUME AdvIInv, WholeNext
    PROVE  BookInv' /\ Placed'
<1>1. ASSUME UNCHANGED <<book, pointers, cchain, held, beg, end>>
      PROVE  BookInv' /\ Placed'
  BY <1>1, SameBook, SamePlaced DEF HeldIsAway, AdvIInv, Placed, TakenAreCached, book
<1>2. ASSUME UNCHANGED <<book, pointers, beg, end>>, Abort, pc # "adjust", cchain = <<>>
      PROVE  BookInv' /\ Placed'
  BY <1>1, <1>2, NothingHeld DEF Abort
<1>3. \A x \in {"idle", "pull_linked", "matched", "condition", "chain_buy", "chain_sell"} :
          x # "adjust"
  OBVIOUS
<1>4. ASSUME NEW e \in AdvOrders, InsertAdvOrder(e)
      PROVE  BookInv' /\ Placed'
  BY <1>1, <1>4 DEF InsertAdvOrder, adv_vars
<1>5. ASSUME NEW id \in DOMAIN id_cache, PullAdvOrder(id)
      PROVE  BookInv' /\ Placed'
  BY <1>5, PullAndFacts DEF PullAdvOrder
<1>6. ASSUME NEW id \in DOMAIN id_cache, NEW e \in AdvOrders, ReplaceAdvOrder(id, e)
      PROVE  BookInv' /\ Placed'
  BY <1>6, PullAndFacts DEF ReplaceAdvOrder
<1>7. CASE PullLinkedOrder
  BY <1>7, PullAndFacts DEF PullLinkedOrder
<1>8. CASE RouteToBook \/ Match \/ TriggerOther \/ IssueExits \/ LeaveLoop \/ LeaveTrade \/ EndChain
  BY <1>1, <1>8
  DEF RouteToBook, Match, TriggerOther, IssueExits, LeaveLoop, LeaveTrade, EndChain, adv_vars
<1>9. CASE RouteToStops
  BY <1>9, RouteFacts
<1>10. CASE CancelOther
  BY <1>10, CancelFacts DEF CancelOther
<1>11. CASE GrowExits \/ ShrinkOtherExit \/ Reduce
  BY <1>11, GrowFacts, ShrinkFacts, ReduceFacts
<1>12. CASE LiftTrailingStop \/ PlaceTrailingStop
  BY <1>12, LiftFacts, PlaceFacts
<1>13. CASE TakeBuyChain \/ TakeSellChain
  BY <1>13, TakeFacts DEF TakeBuyChain, TakeSellChain
<1>14. CASE CancelForStop
  BY <1>14, CancelFacts DEF CancelForStop, Handling
<1>15. CASE TriggerHead
  BY <1>15, TriggerFacts
<1>16. CASE (EndBuyScan \/ EndSellScan \/ NextInternal \/ CloseWindow) /\ UNCHANGED adv_vars
  BY <1>1, <1>16 DEF EndBuyScan, EndSellScan, NextInternal, CloseWindow, adv_vars
<1>17. CASE Settle
  BY <1>17, SettleFacts
<1>18. CASE ThrowUnfilled
  BY <1>2, <1>18 DEF ThrowUnfilled, AdvIInv, AdvControl
<1>19. CASE ConcludeBasic \/ ConcludeOto \/ InjectSecond
  BY <1>1, <1>19 DEF ConcludeBasic, ConcludeOto, InjectSecond, adv_vars
<1>20. CASE ConcludeOco
  <2>1. pc = "condition" /\ cchain = <<>> /\ UNCHANGED <<beg, end>>
    BY <1>20 DEF ConcludeOco, AdvIInv, AdvControl
  <2>2. CASE Fills
    BY <1>20, <2>1, <2>2, PullAndFacts DEF ConcludeOco
  <2>3. CASE ~ Fills
    BY <1>1, <1>2, <1>20, <2>1, <2>3 DEF ConcludeOco
  <2> QED
    BY <2>2, <2>3
<1>21. CASE ConcludeEntry
  BY <1>1, <1>2, <1>21 DEF ConcludeEntry, AdvIInv, AdvControl
<1>22. CASE ConcludeTarget
  BY <1>22, TargetFacts
<1>23. CASE ConcludeTargetAlone
  BY <1>1, <1>2, <1>23 DEF ConcludeTargetAlone, AdvIInv, AdvControl
<1>24. CASE InsertTrailingStop
  BY <1>24, TrailFacts
<1> QED
  BY <1>4, <1>5, <1>6, <1>7, <1>8, <1>9, <1>10, <1>11, <1>12, <1>13, <1>14, <1>15, <1>16,
     <1>17, <1>18, <1>19, <1>20, <1>21, <1>22, <1>23, <1>24 DEF WholeNext, AdvClient, WholeWindow

-----------------------------------------------------------------------------
(* The scans for triggered stops.                                           *)

LEMMA IntoScan ==
    ASSUME AdvIInv, WholeNext, pc' \in Scanning
    PROVE  \/ LeaveTrade \/ TakeBuyChain \/ TakeSellChain \/ CancelForStop
           \/ TriggerHead \/ EndChain \/ EndBuyScan
<1> USE DEF Scanning
<1>1. CASE AdvClient
  BY <1>1
  DEF AdvClient, InsertAdvOrder, StartOrder, PullAdvOrder, ReplaceAdvOrder
<1>2. CASE PullLinkedOrder \/ RouteToBook \/ RouteToStops \/ Match \/ CancelOther \/ TriggerOther
           \/ GrowExits \/ IssueExits \/ ShrinkOtherExit \/ Reduce
  BY <1>2
  DEF PullLinkedOrder, RouteToBook, RouteToStops, Match, CancelOther, TriggerOther, GrowExits,
      IssueExits, ShrinkOtherExit, Reduce
<1>3. CASE LeaveLoop \/ LiftTrailingStop \/ PlaceTrailingStop
  BY <1>3 DEF LeaveLoop, LiftTrailingStop, PlaceTrailingStop, Abort
<1>4. CASE EndSellScan \/ Settle \/ ThrowUnfilled \/ ConcludeBasic \/ ConcludeOto \/ InjectSecond
  BY <1>4
  DEF EndSellScan, Settle, ThrowUnfilled, ConcludeBasic, ConcludeOto, InjectSecond, Done, Abort
<1>5. CASE ConcludeOco \/ ConcludeEntry
  BY <1>5 DEF ConcludeOco, ConcludeEntry, Done, Abort
<1>6. CASE ConcludeTarget \/ ConcludeTargetAlone \/ InsertTrailingStop
           \/ NextInternal \/ CloseWindow
  BY <1>6
  DEF ConcludeTarget, ConcludeTargetAlone, InsertTrailingStop, NextInternal, CloseWindow, Done,
      Abort
<1> QED
  BY <1>1, <1>2, <1>3, <1>4, <1>5, <1>6 DEF WholeNext, WholeWindow

LEMMA ScanSteps ==
    ASSUME AdvIInv, WholeNext, pc' \notin Scanning
    PROVE  scan' = scan \/ scan' = 0
<1>1. CASE AdvClient
  BY <1>1 DEF AdvClient, InsertAdvOrder, PullAdvOrder, ReplaceAdvOrder
<1>2. CASE PullLinkedOrder \/ RouteToBook \/ RouteToStops \/ Match \/ CancelOther \/ TriggerOther
           \/ GrowExits \/ IssueExits \/ ShrinkOtherExit \/ Reduce
  BY <1>2
  DEF PullLinkedOrder, RouteToBook, RouteToStops, Match, CancelOther, TriggerOther, GrowExits,
      IssueExits, ShrinkOtherExit, Reduce
<1>3. CASE LeaveLoop \/ LiftTrailingStop \/ PlaceTrailingStop \/ LeaveTrade
  BY <1>3 DEF LeaveLoop, LiftTrailingStop, PlaceTrailingStop, LeaveTrade, Abort, Scanning
<1>4. CASE TakeBuyChain \/ TakeSellChain \/ CancelForStop \/ TriggerHead \/ EndChain \/ EndBuyScan
  BY <1>4
  DEF TakeBuyChain, TakeSellChain, TakeChain, CancelForStop, TriggerHead, EndChain, EndBuyScan,
      Scanning
<1>5. CASE EndSellScan \/ Settle \/ ThrowUnfilled \/ ConcludeBasic \/ ConcludeOto \/ InjectSecond
  BY <1>5
  DEF EndSellScan, Settle, ThrowUnfilled, ConcludeBasic, ConcludeOto, InjectSecond, Abort
<1>6. CASE ConcludeOco \/ ConcludeEntry
  BY <1>6 DEF ConcludeOco, ConcludeEntry, Abort
<1>7. CASE ConcludeTarget \/ ConcludeTargetAlone \/ InsertTrailingStop
           \/ NextInternal \/ CloseWindow
  BY <1>7
  DEF ConcludeTarget, ConcludeTargetAlone, InsertTrailingStop, NextInternal, CloseWindow, Abort
<1> QED
  BY <1>1, <1>2, <1>3, <1>4, <1>5, <1>6, <1>7 DEF WholeNext, WholeWindow

LEMMA ScansStep ==
    ASSUME AdvIInv, WholeNext
    PROVE  StopScans' /\ scan' \in Pointers
<1>0. Book' = Book /\ \A s : NullHigh(s)' = NullHigh(s)
  BY BookStays, FitsStay
<1>1. /\ \A s \in Sides : near[s] \in Book \cup {NullHigh(s)}
      /\ BookTypeOK /\ StopScans /\ scan \in Pointers
  BY CacheFacts DEF AdvIInv, AdvTypes, BookInv, StopWindows
<1>2. /\ Book \subseteq Int /\ Book \subseteq Pointers
      /\ \A s \in Sides : /\ NullHigh(s) \in Int /\ NullHigh(s) \in Pointers
                          /\ near[s] \in Int
                          /\ Geq(s, near[s], near[s])
                          /\ \A q \in Book : Inc(s, q) \in Book \cup {NullHigh(s)}
      /\ "buy" \in Sides /\ "sell" \in Sides
  <2>1. Book \subseteq Int /\ Book \subseteq Pointers
    BY <1>1, BookFacts DEF Pointers
  <2>2. \A s \in Sides : NullHigh(s) \in Int /\ NullHigh(s) \in Pointers
    BY <1>1, BookFacts DEF NullHigh, Pointers
  <2>3. \A s \in Sides, q \in Book : Inc(s, q) \in Book \cup {NullHigh(s)}
    BY <1>1, BookFacts DEF NullHigh, Inc, Sides
  <2>4. \A s \in Sides : near[s] \in Int /\ Geq(s, near[s], near[s])
    <3>1. \A s \in Sides : near[s] \in Int
      BY <1>1, <2>1, <2>2
    <3>2. \A q \in Int : \A s \in Sides : Geq(s, q, q)
      BY DEF Geq
    <3> QED
      BY <3>1, <3>2
  <2> QED
    BY <2>1, <2>2, <2>3, <2>4 DEF Sides
<1>3. CASE pc' \notin Scanning
  <2>1. StopScans'
    BY <1>3 DEF StopScans, ScanAt, Scanning
  <2>2. scan' \in Pointers
    BY <1>1, <1>3, ScanSteps, BookFacts DEF Pointers
  <2> QED
    BY <2>1, <2>2
<1>4. CASE pc' \in Scanning
  <2>1. CASE LeaveTrade \/ EndBuyScan
    <3>1. /\ UNCHANGED <<near, beg, end>>
          /\ \/ pc' = "scan_buy" /\ scan' = near["buy"]
             \/ pc' = "scan_sell" /\ scan' = near["sell"]
      BY <1>4, <2>1 DEF LeaveTrade, EndBuyScan, Scanning, pointers
    <3> QED
      BY <1>0, <1>1, <1>2, <3>1 DEF StopScans, ScanAt
  <2>2. CASE TakeBuyChain \/ TakeSellChain
    <3>1. PICK s \in Sides : /\ scan \in Book /\ scan' = scan
                             /\ pc' = (IF s = "buy" THEN "chain_buy" ELSE "chain_sell")
                             /\ Geq(s, near'[s], Inc(s, scan))
      BY <2>2, TakeFacts DEF TakeBuyChain, TakeSellChain
    <3> QED
      BY <1>0, <1>2, <3>1 DEF StopScans, ScanAt, Sides
  <2>3. CASE CancelForStop \/ TriggerHead
    <3>1. pc \in {"chain_buy", "chain_sell"} /\ pc' = pc /\ scan' = scan
      BY <2>3 DEF CancelForStop, TriggerHead, Handling
    <3>2. \A s \in Sides : Geq(s, near'[s], near[s])
      <4>1. CASE CancelForStop
        BY <3>1, <4>1, CancelFacts DEF CancelForStop
      <4>2. CASE TriggerHead
        BY <1>2, <4>2 DEF TriggerHead, pointers
      <4> QED
        BY <2>3, <4>1, <4>2
    <3>3. scan \in Book /\ \A s \in Sides : near'[s] \in Int
      <4>1. near' \in [Sides -> Pointers]
        BY BookStep DEF BookInv, BookTypeOK
      <4>2. Pointers \subseteq Int
        BY <1>1, BookFacts DEF Pointers
      <4> QED
        BY <1>1, <3>1, <4>1, <4>2 DEF StopScans, ScanAt
    <3>4. \A s \in Sides : Geq(s, near[s], Inc(s, scan)) => Geq(s, near'[s], Inc(s, scan))
      BY <1>2, <3>2, <3>3 DEF Geq, Inc, Sides
    <3> QED
      BY <1>0, <1>1, <1>2, <3>1, <3>3, <3>4 DEF StopScans, ScanAt
  <2>4. CASE EndChain
    <3>1. /\ UNCHANGED near
          /\ \/ pc = "chain_buy" /\ pc' = "scan_buy" /\ scan' = Inc("buy", scan)
             \/ pc = "chain_sell" /\ pc' = "scan_sell" /\ scan' = Inc("sell", scan)
      BY <2>4 DEF EndChain, ScanSide, pointers
    <3> QED
      BY <1>0, <1>1, <1>2, <3>1 DEF StopScans, ScanAt
  <2> QED
    BY <1>4, <2>1, <2>2, <2>3, <2>4, IntoScan
<1> QED
  BY <1>3, <1>4

-----------------------------------------------------------------------------
(* The order in front, and an order that no longer trades.                  *)

\* which actions lead to which place
LEMMA IntoPlaces ==
    ASSUME AdvIInv, WholeNext
    PROVE  /\ pc' \in {"matched", "reduce"} =>
                  \/ Match \/ CancelOther \/ TriggerOther \/ GrowExits \/ IssueExits
                  \/ ShrinkOtherExit
           /\ pc' \in {"adjust", "settle"} =>
                  \/ RouteToBook \/ LeaveLoop \/ LiftTrailingStop \/ PlaceTrailingStop
                  \/ LeaveTrade \/ EndSellScan
           /\ pc' = "condition" => RouteToStops \/ Settle
           /\ pc' = "pull_linked" =>
                  \/ \E id \in DOMAIN id_cache : PullAdvOrder(id)
                  \/ \E id \in DOMAIN id_cache, e \in AdvOrders : ReplaceAdvOrder(id, e)
<1>1. CASE AdvClient
  <2>1. CASE \E e \in AdvOrders : InsertAdvOrder(e)
    BY <2>1 DEF InsertAdvOrder, StartOrder
  <2>2. CASE \E id \in DOMAIN id_cache : PullAdvOrder(id)
    BY <2>2 DEF PullAdvOrder
  <2>3. CASE \E id \in DOMAIN id_cache, e \in AdvOrders : ReplaceAdvOrder(id, e)
    BY <2>3 DEF ReplaceAdvOrder
  <2> QED
    BY <1>1, <2>1, <2>2, <2>3 DEF AdvClient
<1>2. CASE PullLinkedOrder \/ RouteToBook \/ RouteToStops \/ Match \/ CancelOther \/ TriggerOther
           \/ GrowExits \/ IssueExits \/ ShrinkOtherExit \/ Reduce
  BY <1>2
  DEF PullLinkedOrder, RouteToBook, RouteToStops, Match, CancelOther, TriggerOther, GrowExits,
      IssueExits, ShrinkOtherExit, Reduce
<1>3. CASE LeaveLoop \/ LiftTrailingStop \/ PlaceTrailingStop \/ LeaveTrade
  BY <1>3 DEF LeaveLoop, LiftTrailingStop, PlaceTrailingStop, LeaveTrade, Abort
<1>4. CASE TakeBuyChain \/ TakeSellChain \/ CancelForStop \/ TriggerHead \/ EndChain \/ EndBuyScan
  BY <1>4
  DEF TakeBuyChain, TakeSellChain, TakeChain, CancelForStop, TriggerHead, EndChain, EndBuyScan,
      Handling
<1>5. CASE EndSellScan \/ Settle \/ ThrowUnfilled \/ ConcludeBasic \/ ConcludeOto \/ InjectSecond
  BY <1>5
  DEF EndSellScan, Settle, ThrowUnfilled, ConcludeBasic, ConcludeOto, InjectSecond, Done, Abort
<1>6. CASE ConcludeOco \/ ConcludeEntry
  BY <1>6 DEF ConcludeOco, ConcludeEntry, Done, Abort
<1>7. CASE ConcludeTarget \/ ConcludeTargetAlone \/ InsertTrailingStop
           \/ NextInternal \/ CloseWindow
  BY <1>7
  DEF ConcludeTarget, ConcludeTargetAlone, InsertTrailingStop, NextInternal, CloseWindow, Done,
      Abort
<1> QED
  BY <1>1, <1>2, <1>3, <1>4, <1>5, <1>6, <1>7 DEF WholeNext, WholeWindow

\* a pull never makes the market better
LEMMA PullBest ==
    ASSUME AdvIInv, NEW id, Pull(id), NEW s \in Sides
    PROVE  best[s] \in Int /\ best'[s] \in Int /\ Geq(s, best[s], best'[s])
<1>0. BookTypeOK
  BY CacheFacts
<1>1. BookTypeOK /\ best[s] \in Int
  <2>1. best[s] \in 0 .. MaxLevel + 1 /\ MaxLevel \in Nat
    BY <1>0, PointerFacts DEF BookTypeOK, Pointers
  <2> QED
    BY <1>0, <2>1
<1>2. Geq(s, best[s], best[s])
  <2>1. \A q \in Int : Geq(s, q, q)
    BY DEF Geq
  <2> QED
    BY <1>1, <2>1
<1>3. CASE UNCHANGED best
  BY <1>1, <1>2, <1>3
<1>4. CASE PopStop(id)
  BY <1>3, <1>4 DEF PopStop
<1>5. CASE PopLimit(id)
  <2>1. PICK p, t : UNCHANGED best \/ LimitAfterPull(t, limits', p)
    BY <1>5 DEF PopLimit
  <2>2. CASE ~ UNCHANGED best
    <3>1. PICK low : FindNewBestInside(t, limits', low)
      BY <2>1, <2>2 DEF LimitAfterPull
    <3>2. PICK b \in Book \cup {NullLow(t)} : /\ Geq(t, best[t], b)
                                              /\ best' = [best EXCEPT ![t] = b]
      BY <3>1 DEF FindNewBestInside, IsNewBest
    <3>3. CASE s = t
      <4>1. best'[s] = b
        BY <1>1, <3>2, <3>3 DEF BookTypeOK
      <4>2. b \in Int
        BY <1>1, <3>2, BookFacts DEF NullLow
      <4> QED
        BY <1>1, <3>2, <3>3, <4>1, <4>2
    <3>4. CASE s # t
      BY <1>1, <1>2, <3>2, <3>4 DEF BookTypeOK
    <3> QED
      BY <3>3, <3>4
  <2> QED
    BY <1>3, <2>2
<1> QED
  BY <1>4, <1>5 DEF Pull

\* and pulling another order leaves the one in front where it is
LEMMA PullKeepsFront ==
    ASSUME AdvIInv, pc = "matched", NEW id, Pull(id), id # FrontOrder.id,
           UNCHANGED cur
    PROVE  FrontOrder' = FrontOrder /\ best'[Opp(cur.side)] = best[Opp(cur.side)]
<1> DEFINE r == Opp(cur.side)
           p == best[r]
<1>1. /\ r \in Sides /\ p \in Levels /\ limits[p] \in Seq(LimitBndl) /\ limits[p] # <<>>
      /\ FrontOrder = limits[p][1] /\ 1 \in 1 .. Len(limits[p])
      /\ FrontOrder = Head(limits[p])
  BY FrontFacts
<1>2. /\ limits \in [Levels -> Seq(LimitBndl)] /\ best \in [Sides -> Pointers]
  BY DEF AdvIInv, AdvTypes, BookTypeOK
<1>3. ASSUME UNCHANGED <<limits, best>>
      PROVE  FrontOrder' = FrontOrder /\ best'[r] = best[r]
  BY <1>3 DEF FrontOrder
<1>4. CASE PopStop(id)
  BY <1>3, <1>4 DEF PopStop
<1>5. CASE PopLimit(id)
  <2> DEFINE l == id_cache[id].p
             t == IF l <= best["buy"] THEN "buy" ELSE "sell"
  <2>1. PICK i \in 1 .. Len(limits[l]) :
            /\ limits[l][i].id = id
            /\ limits' = [limits EXCEPT ![l] = RemoveAt(@, i)]
            /\ IF limits'[l] = <<>> THEN LimitAfterPull(t, limits', l)
               ELSE UNCHANGED <<best, worst>>
    BY <1>5 DEF PopLimit
  <2>2. l \in Levels
    BY CacheFacts DEF Pull
  <2>3. Head(limits'[p]) = FrontOrder /\ limits'[p] # <<>>
    <3>1. CASE l # p
      <4>1. limits'[p] = limits[p]
        BY <1>1, <1>2, <2>1, <3>1
      <4> QED
        BY <1>1, <4>1
    <3>2. CASE l = p
      <4>1. i # 1 /\ i \in 1 .. Len(limits[p])
        BY <1>1, <2>1, <3>2
      <4>2. limits'[p] = RemoveAt(limits[p], i)
        BY <1>1, <1>2, <2>1, <3>2
      <4>3. /\ RemoveAt(limits[p], i) \in Seq(LimitBndl)
            /\ Len(RemoveAt(limits[p], i)) = Len(limits[p]) - 1
            /\ \A j \in 1 .. Len(limits[p]) - 1 :
                   RemoveAt(limits[p], i)[j] = IF j < i THEN limits[p][j] ELSE limits[p][j + 1]
        BY <1>1, <4>1, RemoveAtType
      <4>4. 1 \in 1 .. Len(limits[p]) - 1 /\ 1 < i
        BY <1>1, <4>1
      <4>5. RemoveAt(limits[p], i)[1] = limits[p][1] /\ RemoveAt(limits[p], i) # <<>>
        BY <1>1, <4>3, <4>4
      <4> QED
        BY <1>1, <4>2, <4>3, <4>5
    <3> QED
      BY <3>1, <3>2
  <2> HIDE DEF t, l, p, r
  <2>4. best'[r] = best[r]
    <3>1. CASE limits'[l] # <<>>
      BY <2>1, <3>1
    <3>2. CASE limits'[l] = <<>>
      <4>1. l # p
        BY <2>3, <3>2
      <4>2. LimitAfterPull(t, limits', l)
        BY <2>1, <3>2
      <4>3. CASE l # best[t]
        BY <4>2, <4>3 DEF LimitAfterPull
      <4>4. CASE l = best[t]
        <5>1. t # r
          BY <4>1, <4>4 DEF p
        <5>2. PICK b : best' = [best EXCEPT ![t] = b]
          BY <4>2, <4>4 DEF LimitAfterPull, FindNewBestInside
        <5> QED
          BY <1>1, <1>2, <5>1, <5>2 DEF r
      <4> QED
        BY <4>3, <4>4
    <3> QED
      BY <3>1, <3>2
  <2> QED
    BY <2>3, <2>4 DEF FrontOrder, r, p
<1> QED
  BY <1>4, <1>5 DEF Pull

\* the order linked with the one in front is another one
LEMMA FrontLink ==
    ASSUME AdvIInv, pc = "matched", Linked(AdvOf(FrontOrder.id).cond)
    PROVE  /\ FrontOrder.id \in DOMAIN adv /\ AdvOf(FrontOrder.id) = adv[FrontOrder.id]
           /\ adv[FrontOrder.id].link # FrontOrder.id
           /\ \/ Mutual(FrontOrder.id)
              \/ adv[FrontOrder.id].link \in Gone
<1> DEFINE x == FrontOrder.id
<1>1. x \in DOMAIN adv /\ AdvOf(x) = adv[x]
  BY DEF AdvOf, Linked, NoCondition, Condition
<1>2. Mutual(x) \/ adv[x].link \in Gone
  BY <1>1 DEF AdvIInv, Links, LinksHold
<1>3. x \in DOMAIN id_cache
  BY FrontFacts DEF Cached
<1>4. adv[x].link # x
  BY <1>2, <1>3 DEF Mutual, Gone
<1> QED
  BY <1>1, <1>2, <1>4

LEMMA SizedFront ==
    ASSUME AdvIInv, NEW ids, NEW n \in Int, Changes(ids, n), pc = "matched", UNCHANGED <<cur, best>>
    PROVE  FrontOrder' = Sized(FrontOrder, ids, n) /\ FrontOrder \in LimitBndl
<1> DEFINE p == best[Opp(cur.side)]
<1>1. /\ p \in Levels /\ limits[p] # <<>> /\ 1 \in 1 .. Len(limits[p]) /\ FrontOrder = limits[p][1]
      /\ FrontOrder \in LimitBndl
  BY FrontFacts
<1>2. /\ limits'[p] \in Seq(LimitBndl) /\ Len(limits'[p]) = Len(limits[p])
      /\ limits'[p][1] = Sized(limits[p][1], ids, n)
  BY <1>1, SizedElements
<1>3. FrontOrder' = Head(limits'[p])
  BY DEF FrontOrder
<1>4. Len(limits'[p]) # 0
  BY <1>1, <1>2
<1>5. Head(limits'[p]) = limits'[p][1]
  BY <1>2, <1>4
<1> QED
  BY <1>1, <1>2, <1>3, <1>5

LEMMA CancelKeepsFront ==
    ASSUME AdvIInv, CancelOther
    PROVE  /\ pc = "matched" /\ UNCHANGED <<cur, last, hit>>
           /\ FrontOrder' = FrontOrder /\ best'[Opp(cur.side)] = best[Opp(cur.side)]
           /\ FrontOrder.id \notin DOMAIN adv'
<1> DEFINE x == FrontOrder.id
           y == adv[x].link
<1>1. /\ pc = "matched" /\ PullAnd(y, {x}) /\ UNCHANGED <<cur, last, hit>>
      /\ Linked(AdvOf(x).cond)
  BY DEF CancelOther, CancelLinked, Cancels, Linked
<1>2. y # x
  BY <1>1, FrontLink
<1>3. FrontOrder' = FrontOrder /\ best'[Opp(cur.side)] = best[Opp(cur.side)]
  <2>1. CASE y \in DOMAIN id_cache
    <3>1. Pull(y)
      BY <1>1, <2>1 DEF PullAnd
    <3> QED
      BY <1>1, <1>2, <3>1, PullKeepsFront
  <2>2. CASE y \notin DOMAIN id_cache
    BY <1>1, <2>2 DEF PullAnd, FrontOrder, book, pointers
  <2> QED
    BY <2>1, <2>2
<1>4. x \notin DOMAIN adv'
  BY <1>1 DEF PullAnd, DropAdv, Restrict
<1> QED
  BY <1>1, <1>3, <1>4

LEMMA FrontStep ==
    ASSUME AdvIInv, WholeNext
    PROVE  FrontMatches'
<1> SUFFICES ASSUME pc' \in {"matched", "reduce"}
             PROVE  FrontMatches'
  BY DEF FrontMatches
<1>0. Book' = Book
  BY BookStays
<1>1. CASE Match
  <2>1. /\ hit' \in 1 .. FrontOrder.sz /\ last' = best[Opp(cur.side)]
        /\ best[Opp(cur.side)] \in Book
        /\ cur' = [cur EXCEPT !.sz = @ - hit'] /\ cur' \in AdvElem
    BY <1>1, MatchFacts
  <2>2. cur'.side = cur.side /\ UNCHANGED <<limits, best>> /\ pc' = "matched"
    <3>1. cur \in AdvElem
      BY <1>1, CurFacts DEF Match, Between
    <3> QED
      BY <1>1, <2>1, <3>1 DEF Match, AdvElem, book, pointers
  <2>3. FrontOrder' = FrontOrder
    BY <2>2 DEF FrontOrder
  <2> QED
    BY <1>0, <2>1, <2>2, <2>3 DEF FrontMatches
<1>2. ASSUME pc = "matched", UNCHANGED <<cur, last, hit>>,
             best'[Opp(cur.side)] = best[Opp(cur.side)],
             hit \in 1 .. FrontOrder'.sz, FrontOrder'.id = FrontOrder.id,
             hit = FrontOrder'.sz => ~ Linked(AdvOf(FrontOrder.id)'.cond)
      PROVE  FrontMatches'
  <2>1. best[Opp(cur.side)] \in Book /\ last = best[Opp(cur.side)]
    BY <1>2 DEF AdvIInv, FrontMatches
  <2> QED
    BY <1>0, <1>2, <2>1 DEF FrontMatches, AdvOf
<1>3. pc = "matched" => hit \in 1 .. FrontOrder.sz /\ hit \in Nat \ {0} /\ FrontOrder.sz \in Nat
  BY TradeFacts
<1>4. CASE CancelOther
  <2>1. /\ pc = "matched" /\ UNCHANGED <<cur, last, hit>>
        /\ FrontOrder' = FrontOrder /\ best'[Opp(cur.side)] = best[Opp(cur.side)]
        /\ FrontOrder.id \notin DOMAIN adv'
    BY <1>4, CancelKeepsFront
  <2>2. ~ Linked(AdvOf(FrontOrder.id)'.cond)
    BY <2>1 DEF AdvOf, Linked, NoCondition, Condition
  <2> QED
    BY <1>2, <1>3, <2>1, <2>2
<1>5. CASE TriggerOther
  <2>1. /\ pc = "matched" /\ UNCHANGED <<cur, last, hit, limits, best>>
        /\ DropAdv({FrontOrder.id})
    BY <1>5 DEF TriggerOther, book, pointers
  <2>2. FrontOrder' = FrontOrder
    BY <2>1 DEF FrontOrder
  <2>4. FrontOrder.id \notin DOMAIN adv'
    BY <2>1 DEF DropAdv, Restrict
  <2>5. ~ Linked(AdvOf(FrontOrder.id)'.cond)
    BY <2>2, <2>4 DEF AdvOf, Linked, NoCondition, Condition
  <2> QED
    BY <1>2, <1>3, <2>1, <2>2, <2>5
<1>6. CASE IssueExits
  <2>1. /\ pc = "matched" /\ UNCHANGED <<cur, last, hit, limits, best, adv>>
        /\ Entry(AdvOf(FrontOrder.id).cond)
    BY <1>6 DEF IssueExits, book, pointers, adv_vars, Entry
  <2>2. FrontOrder' = FrontOrder
    BY <2>1 DEF FrontOrder
  <2>3. ~ Linked(AdvOf(FrontOrder.id)'.cond)
    BY <2>1, <2>2 DEF AdvOf, Linked, Entry
  <2> QED
    BY <1>2, <1>3, <2>1, <2>2, <2>3
<1>7. CASE GrowExits
  <2> DEFINE ids == ActiveExits(AdvOf(FrontOrder.id))
  <2>1. /\ pc = "matched" /\ UNCHANGED <<cur, last, hit, best, adv>>
        /\ Entry(AdvOf(FrontOrder.id).cond)
    BY <1>7 DEF GrowExits, pointers, adv_vars, Entry
  <2>2. Changes(ids, hit)
    BY <1>7, GrowFacts
  <2> HIDE DEF ids
  <2>3. FrontOrder' = Sized(FrontOrder, ids, hit) /\ FrontOrder \in LimitBndl
    BY <1>3, <2>1, <2>2, SizedFront
  <2>4. FrontOrder'.id = FrontOrder.id /\ FrontOrder'.sz \in {FrontOrder.sz, FrontOrder.sz + hit}
    BY <1>3, <2>1, <2>3, SizedFields
  <2>5. ~ Linked(AdvOf(FrontOrder.id)'.cond)
    BY <2>1, <2>4 DEF AdvOf, Linked, Entry
  <2> QED
    BY <1>2, <1>3, <2>1, <2>4, <2>5
<1>8. CASE ShrinkOtherExit
  <2> DEFINE y == AdvOf(FrontOrder.id).link
  <2>1. /\ pc = "matched" /\ UNCHANGED <<cur, last, hit, best>>
    BY <1>8 DEF ShrinkOtherExit, pointers, adv_vars
  <2>2. Changes({y}, - hit) /\ Exit(AdvOf(FrontOrder.id).cond) /\ hit < FrontOrder.sz
    BY <1>8, ShrinkFacts
  <2>3. y # FrontOrder.id
    BY <2>1, <2>2, FrontLink DEF Exit, Linked
  <2>4. FrontOrder' = Sized(FrontOrder, {y}, - hit) /\ FrontOrder \in LimitBndl
    BY <1>3, <2>1, <2>2, SizedFront
  <2>5. FrontOrder' = FrontOrder
    BY <2>3, <2>4 DEF Sized
  <2> QED
    BY <1>2, <1>3, <2>1, <2>2, <2>5
<1> QED
  BY <1>1, <1>4, <1>5, <1>6, <1>7, <1>8, IntoPlaces

LEMMA NotTradableAfter ==
    ASSUME AdvIInv, WholeNext
    PROVE  CurNotTradable'
<1> SUFFICES ASSUME pc' \in {"adjust", "settle"} \cup Scanning, cur'.sz > 0
             PROVE  ~ IsTradable(cur)'
  BY DEF CurNotTradable
<1>0. UNCHANGED <<beg, end>>
  BY BookStays
<1>1. ASSUME ~ IsTradable(cur), UNCHANGED <<cur, best>>
      PROVE  ~ IsTradable(cur)'
  BY <1>0, <1>1 DEF IsTradable, PLevel
<1>2. CASE RouteToBook
  <2>1. pc' = "settle" /\ UNCHANGED <<cur, best>> /\ ~ IsTradable(cur)
    BY <1>2 DEF RouteToBook, Scanning, pointers
  <2> QED
    BY <1>1, <2>1
<1>3. CASE LeaveLoop
  <2>1. pc = "trade" /\ ~ KeepsTrading(cur) /\ UNCHANGED <<cur, best>>
    BY <1>3 DEF LeaveLoop, pointers
  <2>2. cur.side \in Sides /\ PLevel(cur) \in Book /\ BookInv
    <3>1. cur.type # "stop"
      BY <2>1 DEF AdvIInv, AdvControl, Trading
    <3> QED
      BY <2>1, <3>1, CurFacts, CurLevel, CacheFacts DEF Between
  <2> QED
    BY <1>1, <2>1, <2>2, LoopEnds
<1>4. ASSUME pc \in {"adjust", "settle"} \cup Scanning, UNCHANGED <<cur, best>>
      PROVE  ~ IsTradable(cur)'
  BY <1>1, <1>4 DEF AdvIInv, CurNotTradable
<1>5. CASE LiftTrailingStop \/ PlaceTrailingStop
  <2>1. pc = "adjust" /\ UNCHANGED best /\ (UNCHANGED cur \/ pc' = "idle")
    BY <1>5 DEF LiftTrailingStop, PlaceTrailingStop, PopStop, PushStop, Abort, pointers
  <2> QED
    BY <1>4, <2>1 DEF Scanning
<1>6. CASE LeaveTrade \/ EndSellScan \/ EndBuyScan \/ TakeBuyChain
           \/ TakeSellChain \/ TriggerHead \/ EndChain
  <2>1. UNCHANGED <<cur, best>> /\ pc \in {"adjust"} \cup Scanning
    BY <1>6
    DEF LeaveTrade, EndSellScan, EndBuyScan, TakeBuyChain, TakeSellChain, TakeChain, TriggerHead,
        EndChain, Handling, Scanning, pointers
  <2> QED
    BY <1>4, <2>1
<1>7. CASE CancelForStop
  <2> DEFINE y == adv[Head(cchain).id].link
             r == Opp(cur.side)
  <2>1. pc \in Scanning /\ UNCHANGED cur /\ PullAnd(y, {Head(cchain).id})
    BY <1>7 DEF CancelForStop, CancelLinked, Handling, Scanning
  <2>2. ~ IsTradable(cur) /\ cur.side \in Sides /\ r \in Sides /\ PLevel(cur) \in Book
    <3>1. cur.type # "stop" /\ pc \notin Between \cup {"pull_linked"}
      BY <2>1 DEF AdvIInv, AdvControl, Scanning, Between
    <3> QED
      BY <2>1, <3>1, CurFacts, CurLevel DEF AdvIInv, CurNotTradable
  <2>3. CASE y \in DOMAIN id_cache
    <3>1. best[r] \in Int /\ best'[r] \in Int /\ Geq(r, best[r], best'[r])
      <4>1. Pull(y)
        BY <2>1, <2>3 DEF PullAnd
      <4> QED
        BY <2>2, <4>1, PullBest
    <3>2. PLevel(cur) \in Int
      BY <2>2, CacheFacts, BookFacts
    <3>3. PLevel(cur)' = PLevel(cur)
      BY <1>0, <2>1 DEF PLevel
    <3>4. ~ Geq(cur.side, PLevel(cur), best[r])
      BY <2>2 DEF IsTradable
    <3>5. ~ Geq(cur.side, PLevel(cur), best'[r])
      BY <2>2, <3>1, <3>2, <3>4 DEF Geq, Opp, Sides
    <3> QED
      BY <2>1, <3>3, <3>5 DEF IsTradable
  <2>4. CASE y \notin DOMAIN id_cache
    BY <1>1, <2>1, <2>2, <2>4 DEF PullAnd, pointers
  <2> QED
    BY <2>3, <2>4
<1> QED
  BY <1>2, <1>3, <1>5, <1>6, <1>7, IntoPlaces, IntoScan

-----------------------------------------------------------------------------
(* The high and the low of a trade, and the stops that follow them.         *)

LEMMA OfTwo ==
    ASSUME NEW a \in Int, NEW b \in Int
    PROVE  /\ Max({a, b}) \in {a, b} /\ a <= Max({a, b}) /\ b <= Max({a, b})
           /\ Min({a, b}) \in {a, b} /\ Min({a, b}) <= a /\ Min({a, b}) <= b
<1>1. \E m \in {a, b} : \A y \in {a, b} : m >= y
  OBVIOUS
<1>2. \E m \in {a, b} : \A y \in {a, b} : m <= y
  OBVIOUS
<1>3. Max({a, b}) \in {a, b} /\ \A y \in {a, b} : Max({a, b}) >= y
  BY <1>1, Zenon DEF Max
<1>4. Min({a, b}) \in {a, b} /\ \A y \in {a, b} : Min({a, b}) <= y
  BY <1>2, Zenon DEF Min
<1>5. Max({a, b}) >= a /\ Max({a, b}) >= b
  BY <1>3
<1>6. \A m \in Int : (m >= a => a <= m) /\ (m >= b => b <= m)
  OBVIOUS
<1> QED
  BY <1>3, <1>4, <1>5, <1>6

LEMMA LastFacts ==
    ASSUME AdvIInv
    PROVE  /\ last \in Nat /\ swing.old \in Nat /\ swing.high \in Nat /\ swing.low \in Nat
           /\ swing \in [old : Book \cup {0}, high : Book \cup {0}, low : Book \cup {0}]
           /\ last \in Book \cup {0}
<1>1. last \in Book \cup {0}
      /\ swing \in [old : Book \cup {0}, high : Book \cup {0}, low : Book \cup {0}]
  BY DEF AdvIInv, AdvTypes
<1>2. Book \cup {0} \subseteq Nat
  BY CacheFacts, BookFacts
<1> QED
  BY <1>1, <1>2

LEMMA SwingStep ==
    ASSUME AdvIInv, WholeNext
    PROVE  /\ SwingFits'
           /\ swing' \in [old : Book \cup {0}, high : Book \cup {0}, low : Book \cup {0}]
           /\ last' \in Book \cup {0} /\ total_volume' \in Nat
           /\ need_check_for_stops' \in BOOLEAN
           /\ (UNCHANGED last \/ Match)
<1> DEFINE SwingType(w) == w \in [old : Book \cup {0}, high : Book \cup {0}, low : Book \cup {0}]
           Good5 == /\ SwingFits' /\ SwingType(swing')
                    /\ last' \in Book \cup {0} /\ total_volume' \in Nat
                    /\ need_check_for_stops' \in BOOLEAN
                    /\ (UNCHANGED last \/ Match)
<1>0. /\ last \in Book \cup {0} /\ total_volume \in Nat /\ need_check_for_stops \in BOOLEAN
      /\ SwingType(swing) /\ SwingFits
  BY DEF AdvIInv, AdvTypes
<1>1. ASSUME UNCHANGED <<last, total_volume>>, need_check_for_stops' \in BOOLEAN,
             \/ UNCHANGED swing /\ (pc' \in Trading => pc \in Trading)
             \/ swing' = NoSwing /\ pc' \notin Trading
      PROVE  Good5
  BY <1>0, <1>1 DEF SwingFits, NoSwing
<1>2. CASE RouteToBook
  <2>1. UNCHANGED <<last, total_volume, need_check_for_stops>>
    BY <1>2 DEF RouteToBook
  <2>2. CASE pc' = "trade"
    <3>1. swing' = [old |-> last, high |-> last, low |-> last]
      BY <1>2, <2>2 DEF RouteToBook
    <3>2. last \in Nat
      BY LastFacts
    <3> QED
      BY <1>0, <2>1, <3>1, <3>2 DEF SwingFits
  <2>3. CASE pc' # "trade"
    BY <1>0, <1>1, <1>2, <2>1, <2>3 DEF RouteToBook, Trading
  <2> QED
    BY <2>2, <2>3
<1>3. CASE Match
  <2> DEFINE p == best[Opp(cur.side)]
  <2>1. /\ p \in Book /\ last' = p /\ total_volume' \in Nat
    BY <1>3, MatchFacts
  <2>2. /\ swing' = [swing EXCEPT !.high = Max({@, p}), !.low = Min({@, p})]
        /\ need_check_for_stops' = TRUE /\ pc' = "matched" /\ pc = "trade"
    BY <1>3 DEF Match, TradeHasOccured
  <2>3. p \in Nat /\ p # 0
    BY <2>1, CacheFacts, BookFacts
  <2> HIDE DEF p
  <2>4. PICK h, w : h = Max({swing.high, p}) /\ w = Min({swing.low, p})
    OBVIOUS
  <2>5. /\ h \in {swing.high, p} /\ swing.high <= h /\ p <= h
        /\ w \in {swing.low, p} /\ w <= swing.low /\ w <= p
    BY <2>3, <2>4, LastFacts, OfTwo
  <2>6. swing' = [old |-> swing.old, high |-> h, low |-> w]
    BY <1>0, <2>2, <2>4
  <2>7. /\ h \in Book \cup {0} /\ w \in Book \cup {0}
    BY <1>0, <2>1, <2>5
  <2>8. SwingType(swing')
    BY <1>0, <2>6, <2>7
  <2>9. w = 0 => swing.old = 0
    BY <1>0, <2>3, <2>5 DEF SwingFits
  <2>10. w <= swing.old /\ swing.old <= h
    BY <1>0, <2>2, <2>3, <2>5, LastFacts DEF SwingFits, Trading
  <2>11. SwingFits'
    BY <2>1, <2>5, <2>6, <2>9, <2>10 DEF SwingFits
  <2> QED
    BY <1>3, <2>1, <2>2, <2>8, <2>11
<1>4. CASE AdvClient
  BY <1>0, <1>1, <1>4
  DEF AdvClient, InsertAdvOrder, StartOrder, PullAdvOrder, ReplaceAdvOrder, adv_vars, Trading
<1>5. CASE PullLinkedOrder \/ RouteToStops \/ CancelOther \/ TriggerOther
           \/ GrowExits \/ IssueExits \/ ShrinkOtherExit \/ Reduce
  BY <1>0, <1>1, <1>5
  DEF PullLinkedOrder, RouteToStops, CancelOther, TriggerOther, GrowExits,
      IssueExits, ShrinkOtherExit, Reduce, adv_vars, Trading
<1>6. CASE LeaveLoop \/ LiftTrailingStop \/ PlaceTrailingStop \/ LeaveTrade
  BY <1>0, <1>1, <1>6
  DEF LeaveLoop, LiftTrailingStop, PlaceTrailingStop, LeaveTrade, Abort, adv_vars, Trading
<1>7. CASE TakeBuyChain \/ TakeSellChain \/ CancelForStop \/ TriggerHead \/ EndChain
  BY <1>0, <1>1, <1>7
  DEF TakeBuyChain, TakeSellChain, TakeChain, CancelForStop, TriggerHead, EndChain, adv_vars,
      Handling, Trading
<1>8. CASE (EndBuyScan \/ EndSellScan \/ NextInternal \/ CloseWindow) /\ UNCHANGED adv_vars
  BY <1>0, <1>1, <1>8 DEF EndBuyScan, EndSellScan, NextInternal, CloseWindow, adv_vars, Trading
<1>9. CASE Settle \/ ThrowUnfilled \/ ConcludeBasic \/ ConcludeOto \/ InjectSecond
  BY <1>0, <1>1, <1>9
  DEF Settle, ThrowUnfilled, ConcludeBasic, ConcludeOto, InjectSecond, Done, Abort, adv_vars,
      Trading
<1>10. CASE ConcludeOco \/ ConcludeEntry
  BY <1>0, <1>1, <1>10 DEF ConcludeOco, ConcludeEntry, Done, Abort, Trading
<1>11. CASE ConcludeTarget \/ ConcludeTargetAlone \/ InsertTrailingStop
  BY <1>0, <1>1, <1>11
  DEF ConcludeTarget, ConcludeTargetAlone, InsertTrailingStop, Done, Abort, Trading
<1>12. Good5
  BY <1>2, <1>3, <1>4, <1>5, <1>6, <1>7, <1>8, <1>9, <1>10, <1>11 DEF WholeNext, WholeWindow
<1> QED
  BY <1>12

LEMMA LinkedFacts ==
    ASSUME AdvIInv, NEW x, Linked(AdvOf(x).cond)
    PROVE  x \in DOMAIN adv /\ AdvOf(x) = adv[x] /\ adv[x] \in CondElem /\ adv[x].link \in Nat
<1>1. x \in DOMAIN adv /\ AdvOf(x) = adv[x] /\ adv[x] \in CondElem
  BY CondFacts DEF Linked
<1> QED
  BY <1>1 DEF CondElem

LEMMA MovesFacts ==
    ASSUME AdvIInv
    PROVE  /\ StopsToMove \subseteq [id : Nat, side : Sides, from : Book]
           /\ \A m \in StopsToMove : m.id \in trailing[m.side]
<1>1. trailing \in [Sides -> SUBSET Nat] /\ "buy" \in Sides /\ "sell" \in Sides
  BY DEF AdvIInv, AdvTypes, CondTypes, Sides
<1>2. /\ swing.high > swing.old => swing.high \in Book
      /\ swing.low < swing.old => swing.low \in Book
  BY LastFacts DEF AdvIInv, SwingFits
<1>3. ASSUME NEW s \in Sides, NEW p \in Book, NEW m \in Moves(s, p)
      PROVE  m \in [id : Nat, side : Sides, from : Book] /\ m.id \in trailing[m.side]
  BY <1>1, <1>3 DEF Moves
<1> QED
  BY <1>1, <1>2, <1>3 DEF StopsToMove

LEMMA PlacesStep ==
    ASSUME AdvIInv, WholeNext
    PROVE  /\ hit' \in Nat
           /\ adjusting' \subseteq [id : Nat, side : Sides, from : Book]
           /\ \A m \in adjusting' : m.id \in trailing'[m.side]
           /\ held' \in StopBndl \cup {NoHold}
           /\ held' # held => LiftTrailingStop \/ PlaceTrailingStop
<1> DEFINE Fine ==
               /\ hit' \in Nat
               /\ adjusting' \subseteq [id : Nat, side : Sides, from : Book]
               /\ \A m \in adjusting' : m.id \in trailing'[m.side]
               /\ held' \in StopBndl \cup {NoHold}
               /\ held' # held => LiftTrailingStop \/ PlaceTrailingStop
<1>0. /\ hit \in Nat /\ adjusting \subseteq [id : Nat, side : Sides, from : Book]
      /\ held \in StopBndl \cup {NoHold}
      /\ \A m \in adjusting : m.id \in trailing[m.side]
  BY DEF AdvIInv, AdvTypes, Links
<1>1. ASSUME hit' \in Nat, UNCHANGED <<adjusting, held>>, UNCHANGED trailing \/ adjusting = {}
      PROVE  Fine
  BY <1>0, <1>1
<1>2. ASSUME Abort, pc # "adjust"
      PROVE  Fine
  BY <1>1, <1>2, NothingHeld DEF Abort
<1>3. CASE \E e \in AdvOrders : InsertAdvOrder(e)
  BY <1>0, <1>1, <1>3 DEF InsertAdvOrder, adv_vars
<1>4. ASSUME NEW id \in DOMAIN id_cache, PullAdvOrder(id)
      PROVE  Fine
  BY <1>0, <1>1, <1>4, LinkedFacts, NothingHeld DEF PullAdvOrder
<1>5. ASSUME NEW id \in DOMAIN id_cache, NEW e \in AdvOrders, ReplaceAdvOrder(id, e)
      PROVE  Fine
  BY <1>0, <1>1, <1>5, LinkedFacts, NothingHeld DEF ReplaceAdvOrder
<1>6. CASE PullLinkedOrder \/ RouteToBook \/ RouteToStops \/ CancelOther \/ TriggerOther
           \/ GrowExits \/ IssueExits \/ ShrinkOtherExit \/ Reduce
  <2>1. hit' \in Nat /\ UNCHANGED <<adjusting, held>> /\ pc # "adjust"
    BY <1>0, <1>6
    DEF PullLinkedOrder, RouteToBook, RouteToStops, CancelOther, TriggerOther, GrowExits,
        IssueExits, ShrinkOtherExit, Reduce, adv_vars
  <2> QED
    BY <1>1, <2>1, NothingHeld
<1>7. CASE Match
  <2>1. hit' \in 1 .. FrontOrder.sz /\ UNCHANGED <<adjusting, held, trailing>>
    BY <1>7, MatchFacts DEF Match
  <2> QED
    BY <1>1, <2>1
<1>8. CASE LeaveLoop
  <2>1. UNCHANGED <<trailing, hit, held>> /\ adjusting' = StopsToMove
    BY <1>8 DEF LeaveLoop
  <2> QED
    BY <1>0, <2>1, MovesFacts
<1>9. CASE LiftTrailingStop
  <2>1. UNCHANGED trailing
    BY <1>9 DEF LiftTrailingStop
  <2>2. CASE Abort /\ UNCHANGED held
    BY <1>0, <2>2 DEF Abort
  <2>3. CASE ~ (Abort /\ UNCHANGED held)
    <3>1. held' \in StopBndl /\ UNCHANGED <<hit, adjusting>>
      BY <1>9, <2>3, LiftFacts
    <3> QED
      BY <1>0, <1>9, <2>1, <3>1
  <2> QED
    BY <2>2, <2>3
<1>10. CASE PlaceTrailingStop
  <2>1. UNCHANGED trailing /\ held' = NoHold
    BY <1>10, PlaceFacts DEF PlaceTrailingStop
  <2>2. adjusting' \subseteq adjusting /\ hit' \in Nat
    BY <1>0, <1>10 DEF PlaceTrailingStop, Abort
  <2> QED
    BY <1>0, <1>10, <2>1, <2>2
<1>11. CASE LeaveTrade \/ TakeBuyChain \/ TakeSellChain \/ CancelForStop \/ TriggerHead \/ EndChain
  <2>1. UNCHANGED <<hit, adjusting, held>> /\ (adjusting = {} \/ UNCHANGED trailing)
    BY <1>11
    DEF LeaveTrade, TakeBuyChain, TakeSellChain, TakeChain, CancelForStop, TriggerHead, EndChain,
        Handling, adv_vars, AdvIInv, AdvControl
  <2> QED
    BY <1>0, <1>1, <2>1
<1>12. CASE (EndBuyScan \/ EndSellScan \/ NextInternal \/ CloseWindow) /\ UNCHANGED adv_vars
  BY <1>0, <1>1, <1>12 DEF adv_vars
<1>13. CASE Settle \/ ConcludeBasic \/ ConcludeOto \/ InjectSecond
  BY <1>0, <1>1, <1>13 DEF Settle, ConcludeBasic, ConcludeOto, InjectSecond, adv_vars
<1>14. CASE ThrowUnfilled
  BY <1>2, <1>14 DEF ThrowUnfilled
<1>15. CASE ConcludeOco
  <2>1. Abort \/ (UNCHANGED <<hit, adjusting, held>> /\ adjusting = {})
    BY <1>15, NothingHeld DEF ConcludeOco
  <2> QED
    BY <1>0, <1>1, <1>2, <1>15, <2>1 DEF ConcludeOco
<1>16. CASE ConcludeEntry
  BY <1>0, <1>1, <1>2, <1>16 DEF ConcludeEntry
<1>17. CASE ConcludeTarget
  <2>1. UNCHANGED <<hit, adjusting, held>> /\ adjusting = {}
    BY <1>17, NothingHeld DEF ConcludeTarget
  <2> QED
    BY <1>0, <1>1, <2>1
<1>18. CASE ConcludeTargetAlone
  BY <1>0, <1>1, <1>2, <1>18 DEF ConcludeTargetAlone
<1>19. CASE InsertTrailingStop
  <2>1. Abort \/ (UNCHANGED <<hit, adjusting, held>> /\ adjusting = {})
    BY <1>19, NothingHeld DEF InsertTrailingStop
  <2> QED
    BY <1>0, <1>1, <1>2, <1>19, <2>1 DEF InsertTrailingStop
<1>20. Fine
  BY <1>3, <1>4, <1>5, <1>6, <1>7, <1>8, <1>9, <1>10, <1>11, <1>12, <1>13, <1>14, <1>15,
     <1>16, <1>17, <1>18, <1>19 DEF WholeNext, AdvClient, WholeWindow
<1> QED
  BY <1>20

LEMMA TakenStep ==
    ASSUME AdvIInv, WholeNext
    PROVE  cchain' \in Seq(StopBndl)
<1> DEFINE Fine == cchain' \in Seq(StopBndl)
<1>0. cchain \in Seq(StopBndl) /\ <<>> \in Seq(StopBndl)
  BY CacheFacts
<1>1. CASE TakeBuyChain \/ TakeSellChain
  <2>1. scan \in Book /\ cchain' = stops[scan]
    BY <1>1, TakeFacts DEF TakeBuyChain, TakeSellChain, TakeChain
  <2> QED
    BY <2>1, CacheFacts, BookFacts
<1>2. CASE TriggerHead
  <2>1. cchain # <<>> /\ cchain' = Tail(cchain)
    BY <1>2 DEF TriggerHead, Handling
  <2> QED
    BY <1>0, <2>1
<1>3. CASE AdvClient
  BY <1>0, <1>3 DEF AdvClient, InsertAdvOrder, PullAdvOrder, ReplaceAdvOrder, adv_vars
<1>4. CASE PullLinkedOrder \/ RouteToBook \/ RouteToStops \/ Match \/ CancelOther \/ TriggerOther
           \/ GrowExits \/ IssueExits \/ ShrinkOtherExit \/ Reduce
  BY <1>0, <1>4
  DEF PullLinkedOrder, RouteToBook, RouteToStops, Match, CancelOther, TriggerOther, GrowExits,
      IssueExits, ShrinkOtherExit, Reduce, adv_vars
<1>5. CASE LeaveLoop \/ LiftTrailingStop \/ PlaceTrailingStop
           \/ LeaveTrade \/ CancelForStop \/ EndChain
  BY <1>0, <1>5
  DEF LeaveLoop, LiftTrailingStop, PlaceTrailingStop, LeaveTrade, CancelForStop, EndChain, Abort,
      adv_vars
<1>6. CASE (EndBuyScan \/ EndSellScan \/ NextInternal \/ CloseWindow) /\ UNCHANGED adv_vars
  BY <1>0, <1>6 DEF adv_vars
<1>7. CASE Settle \/ ThrowUnfilled \/ ConcludeBasic \/ ConcludeOto \/ InjectSecond
  BY <1>0, <1>7 DEF Settle, ThrowUnfilled, ConcludeBasic, ConcludeOto, InjectSecond, Abort, adv_vars
<1>8. CASE ConcludeOco \/ ConcludeEntry
  BY <1>0, <1>8 DEF ConcludeOco, ConcludeEntry, Abort
<1>9. CASE ConcludeTarget \/ ConcludeTargetAlone \/ InsertTrailingStop
  BY <1>0, <1>9 DEF ConcludeTarget, ConcludeTargetAlone, InsertTrailingStop, Abort
<1>10. Fine
  BY <1>1, <1>2, <1>3, <1>4, <1>5, <1>6, <1>7, <1>8, <1>9 DEF WholeNext, WholeWindow
<1> QED
  BY <1>10

-----------------------------------------------------------------------------
(* The ids that are cached, and the conditions, from step to step.          *)

CacheSteps ==
    \/ UNCHANGED id_cache
    \/ \E id : Leaves(id)
    \/ /\ Settle
       /\ cur.type = "limit" /\ cur.sz > 0
       /\ Emplace(cur.id, [type |-> "limit", p |-> cur.limit])
    \/ /\ RouteToStops
       /\ Emplace(cur.id, [type |-> "stop", p |-> cur.stop])
    \/ ConcludeTarget /\ \E p : Emplace(last_id + 1, [type |-> "stop", p |-> p])
    \/ InsertTrailingStop /\ \E p : Emplace(cur.id, [type |-> "stop", p |-> p])
    \/ PlaceTrailingStop /\ \E p : Emplace(held.id, [type |-> "stop", p |-> p])

LEMMA CacheChanges ==
    ASSUME AdvIInv, WholeNext
    PROVE  CacheSteps
<1>4. CASE \E e \in AdvOrders : InsertAdvOrder(e)
  BY <1>4 DEF InsertAdvOrder, book, CacheSteps
<1>5. ASSUME NEW id \in DOMAIN id_cache, PullAdvOrder(id)
      PROVE  CacheSteps
  BY <1>5, PullAndFacts DEF PullAdvOrder, CacheSteps
<1>6. ASSUME NEW id \in DOMAIN id_cache, NEW e \in AdvOrders, ReplaceAdvOrder(id, e)
      PROVE  CacheSteps
  BY <1>6, PullAndFacts DEF ReplaceAdvOrder, CacheSteps
<1>7. CASE PullLinkedOrder
  BY <1>7, PullAndFacts DEF PullLinkedOrder, CacheSteps
<1>8. CASE RouteToBook \/ Match \/ TriggerOther \/ IssueExits \/ LeaveLoop \/ LeaveTrade \/ EndChain
  BY <1>8
  DEF RouteToBook, Match, TriggerOther, IssueExits, LeaveLoop, LeaveTrade, EndChain, book,
      CacheSteps
<1>9. CASE RouteToStops
  BY <1>9 DEF RouteToStops, PushStop, CacheSteps
<1>10. CASE CancelOther
  BY <1>10, CancelFacts DEF CancelOther, CacheSteps
<1>11. CASE GrowExits \/ ShrinkOtherExit
  BY <1>11 DEF GrowExits, ShrinkOtherExit, CacheSteps
<1>12. CASE Reduce
  BY <1>12, ReduceFacts DEF Changes, CacheSteps
<1>13. CASE LiftTrailingStop
  BY <1>13, LiftFacts DEF book, CacheSteps
<1>14. CASE PlaceTrailingStop
  BY <1>14, PlaceFacts DEF JoinsStop, book, CacheSteps
<1>15. CASE TakeBuyChain \/ TakeSellChain
  BY <1>15 DEF TakeBuyChain, TakeSellChain, TakeChain, CacheSteps
<1>16. CASE CancelForStop
  BY <1>16, CancelFacts DEF CancelForStop, Handling, CacheSteps
<1>17. CASE TriggerHead
  BY <1>17, TriggerFacts DEF CacheSteps
<1>18. CASE (EndBuyScan \/ EndSellScan \/ NextInternal \/ CloseWindow) /\ UNCHANGED adv_vars
  BY <1>18 DEF EndBuyScan, EndSellScan, NextInternal, CloseWindow, book, CacheSteps
<1>19. CASE Settle
  BY <1>19, SettleFacts DEF JoinsLimit, RestBndl, book, CacheSteps
<1>20. CASE ThrowUnfilled \/ ConcludeBasic \/ ConcludeOto \/ InjectSecond \/ ConcludeEntry
            \/ ConcludeTargetAlone
  BY <1>20
  DEF ThrowUnfilled, ConcludeBasic, ConcludeOto, InjectSecond, ConcludeEntry, ConcludeTargetAlone,
      book, CacheSteps
<1>21. CASE ConcludeOco
  <2>1. CASE Fills
    BY <1>21, <2>1, PullAndFacts DEF ConcludeOco, CacheSteps
  <2>2. CASE ~ Fills
    BY <1>21, <2>2 DEF ConcludeOco, book, CacheSteps
  <2> QED
    BY <2>1, <2>2
<1>22. CASE ConcludeTarget
  BY <1>22, TargetFacts DEF JoinsStop, ExitStop, CacheSteps
<1>23. CASE InsertTrailingStop
  BY <1>23, TrailFacts DEF JoinsStop, TrailStop, book, CacheSteps
<1> QED
  BY <1>4, <1>5, <1>6, <1>7, <1>8, <1>9, <1>10, <1>11, <1>12, <1>13, <1>14, <1>15, <1>16,
     <1>17, <1>18, <1>19, <1>20, <1>21, <1>22, <1>23 DEF WholeNext, AdvClient, WholeWindow

\* What happens to the conditions, and to the sets of trailing stops.
LinkTo(id) == Condition("oco", cur.trig, id, 0, NoParam, NoParam)

AdvSteps ==
    \/ UNCHANGED <<adv, trailing>>
    \/ \E D : DropAdv(D) /\ UNCHANGED trailing
    \/ \E D, s : \E id \in D \cap DOMAIN id_cache :
           DropAdv(D) /\ TrailingErase(id, s) /\ s \in Sides /\ id \notin DOMAIN id_cache'
    \/ /\ ConcludeOto \/ ConcludeEntry
       /\ cur.sz > 0
       /\ \E a \in {Own, [Own EXCEPT !.p1.sz = @ - FilledSize]} :
              SetAdv([x \in {cur.id} |-> a]) /\ (cur.cond = "oto" => a = Own)
       /\ UNCHANGED trailing
    \/ /\ ConcludeOco
       /\ cur.parent \in DOMAIN id_cache /\ cur.sz > 0
       /\ SetAdv([x \in {cur.id, cur.parent} |->
                     LinkTo(IF x = cur.id THEN cur.parent ELSE cur.id)])
       /\ UNCHANGED trailing
    \/ ConcludeTarget
    \/ InsertTrailingStop /\ StopLevel(cur.p1, TRUE) \in Book

LEMMA PullAndAdv ==
    ASSUME AdvIInv, pc # "adjust", NEW id, NEW drop, PullAnd(id, drop),
           UNCHANGED <<cchain, held, beg, end>>
    PROVE  /\ AdvSteps
           /\ IF id \in DOMAIN id_cache THEN DropAdv(drop \cup {id}) ELSE DropAdv(drop)
<1>1. CASE id \notin DOMAIN id_cache
  BY <1>1 DEF PullAnd, AdvSteps
<1>2. CASE id \in DOMAIN id_cache
  <2>1. /\ DropAdv(drop \cup {id})
        /\ IF id_cache[id].type = "stop" THEN TrailingErase(id, StopSide(id))
           ELSE UNCHANGED trailing
    BY <1>2 DEF PullAnd
  <2>2. id \notin DOMAIN id_cache'
    BY PullAndFacts DEF Leaves, Forgets
  <2>3. CASE id_cache[id].type = "stop"
    <3> DEFINE p == id_cache[id].p
    <3>1. p \in Levels /\ stops[p] \in Seq(StopBndl)
      BY <1>2, CacheFacts
    <3>2. PopStop(id)
      BY <1>2, <2>3 DEF PullAnd, Pull
    <3>3. \E i \in 1 .. Len(stops[p]) : stops[p][i].id = id
      BY <3>2 DEF PopStop
    <3>4. PICK i \in 1 .. Len(stops[p]) : RestingStop(id) = stops[p][i]
      BY <3>3 DEF RestingStop
    <3>5. stops[p][i] \in StopBndl
      BY <3>1, ElementOfSeq
    <3>6. StopSide(id) \in Sides
      BY <3>4, <3>5 DEF StopSide, StopBndl
    <3> QED
      BY <1>2, <2>1, <2>2, <3>6 DEF AdvSteps
  <2>4. CASE id_cache[id].type # "stop"
    BY <1>2, <2>1, <2>4 DEF AdvSteps
  <2> QED
    BY <1>2, <2>1, <2>3, <2>4
<1> QED
  BY <1>1, <1>2

LEMMA AdvChanges ==
    ASSUME AdvIInv, WholeNext
    PROVE  AdvSteps
<1>4. CASE \E e \in AdvOrders : InsertAdvOrder(e)
  BY <1>4 DEF InsertAdvOrder, adv_vars, AdvSteps
<1>5. ASSUME NEW id \in DOMAIN id_cache, PullAdvOrder(id)
      PROVE  AdvSteps
  BY <1>5, PullAndAdv DEF PullAdvOrder
<1>6. ASSUME NEW id \in DOMAIN id_cache, NEW e \in AdvOrders, ReplaceAdvOrder(id, e)
      PROVE  AdvSteps
  BY <1>6, PullAndAdv DEF ReplaceAdvOrder
<1>7. CASE PullLinkedOrder
  BY <1>7, PullAndAdv DEF PullLinkedOrder
<1>8. CASE RouteToBook \/ RouteToStops \/ Match \/ GrowExits \/ IssueExits \/ ShrinkOtherExit
           \/ LeaveLoop \/ LeaveTrade \/ EndChain \/ LiftTrailingStop
  BY <1>8
  DEF RouteToBook, RouteToStops, Match, GrowExits, IssueExits, ShrinkOtherExit, LeaveLoop,
      LeaveTrade, EndChain, LiftTrailingStop, adv_vars, AdvSteps
<1>9. CASE TriggerOther
  BY <1>9 DEF TriggerOther, AdvSteps
<1>10. CASE CancelOther
  BY <1>10, PullAndAdv DEF CancelOther, CancelLinked
<1>12. CASE Reduce
  BY <1>12 DEF Reduce, AdvSteps
<1>14. CASE PlaceTrailingStop
  BY <1>14 DEF PlaceTrailingStop, AdvSteps
<1>15. CASE TakeBuyChain \/ TakeSellChain
  BY <1>15 DEF TakeBuyChain, TakeSellChain, TakeChain, AdvSteps
<1>16. CASE CancelForStop
  BY <1>16, PullAndAdv DEF CancelForStop, CancelLinked, Handling
<1>17. CASE TriggerHead
  <2> DEFINE id == Head(cchain).id
  <2>1. DropAdv({id}) /\ TrailingErase(id, ScanSide) /\ ScanSide \in Sides /\ cchain # <<>>
    BY <1>17 DEF TriggerHead, Handling, ScanSide, Sides
  <2>2. id \in DOMAIN id_cache /\ id \notin DOMAIN id_cache'
    BY <1>17, <2>1, TakenFacts, TriggerFacts DEF Leaves, Forgets
  <2> QED
    BY <2>1, <2>2 DEF AdvSteps
<1>18. CASE (EndBuyScan \/ EndSellScan \/ NextInternal \/ CloseWindow) /\ UNCHANGED adv_vars
  BY <1>18 DEF adv_vars, AdvSteps
<1>19. CASE Settle \/ ThrowUnfilled \/ ConcludeBasic \/ InjectSecond \/ ConcludeTargetAlone
  BY <1>19
  DEF Settle, ThrowUnfilled, ConcludeBasic, InjectSecond, ConcludeTargetAlone, adv_vars, AdvSteps
<1>20. ASSUME pc = "condition", ~ Fills
       PROVE  cur.sz > 0
  BY <1>20, CurFacts DEF Fills, FilledSize, Between
<1>21. CASE ConcludeOto
  BY <1>20, <1>21 DEF ConcludeOto, AdvSteps
<1>22. CASE ConcludeEntry
  BY <1>22 DEF ConcludeEntry, AdvSteps
<1>23. CASE ConcludeOco
  <2>1. CASE Fills
    BY <1>23, <2>1, PullAndAdv DEF ConcludeOco
  <2>2. CASE ~ Fills
    BY <1>20, <1>23, <2>2 DEF ConcludeOco, LinkTo, AdvSteps
  <2> QED
    BY <2>1, <2>2
<1>24. CASE ConcludeTarget
  BY <1>24 DEF AdvSteps
<1>25. CASE InsertTrailingStop
  BY <1>25, TrailFacts DEF AdvSteps
<1> QED
  BY <1>4, <1>5, <1>6, <1>7, <1>8, <1>9, <1>10, <1>12, <1>14, <1>15, <1>16,
     <1>17, <1>18, <1>19, <1>21, <1>22, <1>23, <1>24, <1>25 DEF WholeNext, AdvClient, WholeWindow

\* What happens to the orders that stand.
BookClasses ==
    \/ UNCHANGED <<limits, stops, id_cache, cchain>> /\ held' \in {held, NoHold}
    \/ \E id : Leaves(id) /\ held' \in {held, NoHold}
    \/ \E id : Leaves(id) /\ LiftTrailingStop /\ held' \in StopOrders /\ held'.id = id
    \/ GrowExits /\ Changes(ActiveExits(AdvOf(FrontOrder.id)), hit) /\ UNCHANGED held
    \/ ShrinkOtherExit /\ Changes({AdvOf(FrontOrder.id).link}, - hit) /\ UNCHANGED held
    \/ Reduce /\ Changes({FrontOrder.id}, - hit) /\ UNCHANGED held
    \/ Settle /\ cur.sz > 0 /\ cur.type = "limit" /\ UNCHANGED held
       /\ cur.limit \in Levels /\ RestBndl \in LimitBndl /\ JoinsLimit(RestBndl, cur.limit)
    \/ RouteToStops /\ UNCHANGED held /\ StopBndlOfCur \in StopBndl
       /\ cur.stop \in Levels /\ JoinsStop(StopBndlOfCur, cur.stop)
    \/ ConcludeTarget /\ UNCHANGED held /\ ExitStop \in StopBndl
       /\ \E p \in Levels : JoinsStop(ExitStop, p)
    \/ InsertTrailingStop /\ UNCHANGED held /\ TrailStop \in StopBndl
       /\ \E p \in Levels : JoinsStop(TrailStop, p)
    \/ PlaceTrailingStop /\ held' = NoHold /\ held \in StopBndl /\ held # NoHold
       /\ \E p \in Levels : JoinsStop(held, p)
    \/ \E p \in Levels : Takes(p) /\ UNCHANGED held

LEMMA BookChanges ==
    ASSUME AdvIInv, WholeNext
    PROVE  BookClasses
<1> DEFINE Same == UNCHANGED <<limits, stops, id_cache, cchain>> /\ held' \in {held, NoHold}
           Left == \E id : Leaves(id) /\ held' \in {held, NoHold}
<1>1. Same \/ Left => BookClasses
  BY DEF BookClasses
<1>2. Book \subseteq Levels
  BY CacheFacts, BookFacts
<1>3. ASSUME UNCHANGED book, Abort, cchain = <<>>
      PROVE  Same
  BY <1>3 DEF Abort, book
<1>4. CASE \E e \in AdvOrders : InsertAdvOrder(e)
  BY <1>1, <1>4 DEF InsertAdvOrder, book, adv_vars
<1>5. ASSUME NEW id \in DOMAIN id_cache, PullAdvOrder(id)
      PROVE  BookClasses
  BY <1>1, <1>5, PullAndFacts DEF PullAdvOrder
<1>6. ASSUME NEW id \in DOMAIN id_cache, NEW e \in AdvOrders, ReplaceAdvOrder(id, e)
      PROVE  BookClasses
  BY <1>1, <1>6, PullAndFacts DEF ReplaceAdvOrder
<1>7. CASE PullLinkedOrder
  BY <1>1, <1>7, PullAndFacts DEF PullLinkedOrder
<1>8. CASE RouteToBook \/ Match \/ TriggerOther \/ IssueExits \/ LeaveLoop \/ LeaveTrade \/ EndChain
  BY <1>1, <1>8
  DEF RouteToBook, Match, TriggerOther, IssueExits, LeaveLoop, LeaveTrade, EndChain, book, adv_vars
<1>9. CASE RouteToStops
  BY <1>2, <1>9, RouteFacts DEF RouteToStops, adv_vars, BookClasses
<1>10. CASE CancelOther
  BY <1>1, <1>10, CancelFacts DEF CancelOther
<1>11. CASE GrowExits
  BY <1>11, GrowFacts DEF GrowExits, adv_vars, BookClasses
<1>26. CASE ShrinkOtherExit
  BY <1>26, ShrinkFacts DEF ShrinkOtherExit, adv_vars, BookClasses
<1>12. CASE Reduce
  BY <1>12, ReduceFacts DEF Reduce, BookClasses
<1>13. CASE LiftTrailingStop
  <2>1. CASE UNCHANGED <<book, pointers, held>> /\ Abort /\ held = NoHold
    BY <1>1, <1>13, <2>1 DEF Abort, book, AdvIInv, AdvControl, LiftTrailingStop
  <2>2. ASSUME NEW m \in adjusting, Leaves(m.id), NEW l \in Levels,
               held' \in ToSet(stops[l]), held'.id = m.id
        PROVE  BookClasses
    <3>1. held' \in StopOrders
      BY <2>2 DEF StopOrders
    <3> QED
      BY <1>13, <2>2, <3>1 DEF BookClasses
  <2> QED
    BY <1>13, <2>1, <2>2, LiftFacts
<1>14. CASE PlaceTrailingStop
  <2>1. held # NoHold /\ cchain = <<>>
    BY <1>14 DEF PlaceTrailingStop, AdvIInv, AdvControl
  <2>2. CASE UNCHANGED <<book, pointers>> /\ Abort
    BY <1>1, <1>3, <2>1, <2>2
  <2>3. ASSUME NEW p \in Book, JoinsStop(held, p)
        PROVE  BookClasses
    BY <1>2, <1>14, <2>1, <2>3, PlaceFacts DEF BookClasses
  <2> QED
    BY <1>14, <2>2, <2>3, PlaceFacts
<1>15. CASE TakeBuyChain \/ TakeSellChain
  <2>1. scan \in Book /\ Takes(scan) /\ UNCHANGED held
    BY <1>15, TakeFacts DEF TakeBuyChain, TakeSellChain, TakeChain
  <2> QED
    BY <1>2, <2>1 DEF BookClasses
<1>16. CASE CancelForStop
  BY <1>1, <1>16, CancelFacts DEF CancelForStop, Handling
<1>17. CASE TriggerHead
  BY <1>1, <1>17, TriggerFacts
<1>18. CASE (EndBuyScan \/ EndSellScan \/ NextInternal \/ CloseWindow) /\ UNCHANGED adv_vars
  BY <1>1, <1>18 DEF EndBuyScan, EndSellScan, NextInternal, CloseWindow, book, adv_vars
<1>19. CASE Settle
  <2>1. UNCHANGED <<held, cchain>>
    BY <1>19 DEF Settle, adv_vars
  <2>2. CASE cur.sz = 0 /\ UNCHANGED <<book, pointers>>
    BY <1>1, <2>1, <2>2 DEF book
  <2> QED
    BY <1>2, <1>19, <2>1, <2>2, SettleFacts DEF BookClasses
<1>20. CASE ConcludeBasic \/ ConcludeOto \/ InjectSecond
  BY <1>1, <1>20 DEF ConcludeBasic, ConcludeOto, InjectSecond, book, adv_vars
<1>27. pc \in {"settle", "condition", "route"} => cchain = <<>>
  BY DEF AdvIInv, AdvControl
<1>28. CASE ThrowUnfilled \/ ConcludeEntry \/ ConcludeTargetAlone
  BY <1>1, <1>3, <1>27, <1>28 DEF ThrowUnfilled, ConcludeEntry, ConcludeTargetAlone, book
<1>21. CASE ConcludeOco
  <2>1. CASE Fills
    BY <1>1, <1>21, <2>1, PullAndFacts DEF ConcludeOco
  <2>2. CASE ~ Fills
    BY <1>1, <1>3, <1>21, <1>27, <2>2 DEF ConcludeOco, book
  <2> QED
    BY <2>1, <2>2
<1>22. CASE ConcludeTarget
  BY <1>2, <1>22, TargetFacts DEF ConcludeTarget, BookClasses
<1>23. CASE InsertTrailingStop
  <2>1. CASE Abort /\ UNCHANGED <<book, pointers, adv, trailing>>
    BY <1>1, <1>3, <1>23, <1>27, <2>1 DEF InsertTrailingStop
  <2> QED
    BY <1>2, <1>23, <2>1, TrailFacts DEF BookClasses
<1> QED
  BY <1>4, <1>5, <1>6, <1>7, <1>8, <1>9, <1>10, <1>11, <1>12, <1>13, <1>14, <1>15, <1>16, <1>17,
     <1>18, <1>19, <1>20, <1>21, <1>22, <1>23, <1>26, <1>28 DEF WholeNext, AdvClient, WholeWindow

SizedBy(ids, n) ==
    \/ GrowExits /\ ids = ActiveExits(AdvOf(FrontOrder.id)) /\ n = hit
    \/ ShrinkOtherExit /\ ids = {AdvOf(FrontOrder.id).link} /\ n = - hit
    \/ Reduce /\ ids = {FrontOrder.id} /\ n = - hit

StandingClasses ==
    \/ LimitOrders' \subseteq LimitOrders /\ StopOrders' \subseteq StopOrders
    \/ /\ Settle /\ cur.sz > 0 /\ cur.type = "limit"
       /\ LimitOrders' \subseteq LimitOrders \cup {RestBndl} /\ StopOrders' \subseteq StopOrders
    \/ /\ RouteToStops
       /\ LimitOrders' \subseteq LimitOrders
       /\ StopOrders' \subseteq StopOrders \cup {StopBndlOfCur}
    \/ /\ ConcludeTarget
       /\ LimitOrders' \subseteq LimitOrders /\ StopOrders' \subseteq StopOrders \cup {ExitStop}
    \/ /\ InsertTrailingStop
       /\ LimitOrders' \subseteq LimitOrders /\ StopOrders' \subseteq StopOrders \cup {TrailStop}
    \/ \E ids : \E n \in Int :
           /\ SizedBy(ids, n)
           /\ LimitOrders' \subseteq SizedOf(LimitOrders, ids, n)
           /\ StopOrders' \subseteq SizedOf(StopOrders, ids, n)

LEMMA LeavesStanding ==
    ASSUME NEW id, Leaves(id), HeldOrders' \subseteq StopOrders
    PROVE  LimitOrders' \subseteq LimitOrders /\ StopOrders' \subseteq StopOrders
<1>1. \A l \in Levels : /\ ToSet(limits'[l]) \subseteq ToSet(limits[l])
                        /\ ToSet(stops'[l]) \subseteq ToSet(stops[l])
  BY DEF Leaves, LeftOut
<1>2. ToSet(cchain') \subseteq ToSet(cchain)
  BY DEF Leaves, LeftOut
<1> QED
  BY <1>1, <1>2 DEF LimitOrders, StopOrders

LEMMA SizedStanding ==
    ASSUME AdvIInv, pc \in {"matched", "reduce"}, NEW ids, NEW n \in Int, Changes(ids, n),
           UNCHANGED held
    PROVE  /\ LimitOrders' \subseteq SizedOf(LimitOrders, ids, n)
           /\ StopOrders' \subseteq SizedOf(StopOrders, ids, n)
<1>1. \A l \in Levels : /\ ToSet(limits'[l]) = SizedOf(ToSet(limits[l]), ids, n)
                        /\ ToSet(stops'[l]) = SizedOf(ToSet(stops[l]), ids, n)
  BY SizedElements
<1>2. ToSet(cchain') = {} /\ HeldOrders' = {}
  <2>1. cchain' = <<>> /\ held' = NoHold
    BY TradeFacts DEF Changes
  <2> QED
    BY <2>1 DEF HeldOrders, ToSet
<1>3. \A S, T : S \subseteq T => SizedOf(S, ids, n) \subseteq SizedOf(T, ids, n)
  BY DEF SizedOf
<1>4. \A l \in Levels : /\ ToSet(limits[l]) \subseteq LimitOrders
                        /\ ToSet(stops[l]) \subseteq StopOrders
  BY DEF LimitOrders, StopOrders
<1>5. \A l \in Levels : /\ ToSet(limits'[l]) \subseteq SizedOf(LimitOrders, ids, n)
                        /\ ToSet(stops'[l]) \subseteq SizedOf(StopOrders, ids, n)
  BY <1>1, <1>3, <1>4
<1> QED
  BY <1>2, <1>5 DEF LimitOrders, StopOrders

LEMMA JoinedStanding ==
    ASSUME AdvIInv, NEW p \in Levels, HeldOrders' \subseteq StopOrders
    PROVE  /\ \A b \in LimitBndl : JoinsLimit(b, p) =>
                  LimitOrders' \subseteq LimitOrders \cup {b} /\ StopOrders' \subseteq StopOrders
           /\ \A b \in StopBndl : JoinsStop(b, p) =>
                  LimitOrders' \subseteq LimitOrders /\ StopOrders' \subseteq StopOrders \cup {b}
<1>1. limits \in [Levels -> Seq(LimitBndl)] /\ stops \in [Levels -> Seq(StopBndl)]
  BY CacheFacts DEF BookTypeOK
<1>2. ASSUME NEW b \in LimitBndl, JoinsLimit(b, p)
      PROVE  LimitOrders' \subseteq LimitOrders \cup {b} /\ StopOrders' \subseteq StopOrders
  <2>1. JoinedTo(limits, limits', p, b) /\ UNCHANGED <<stops, cchain>>
    BY <1>1, <1>2, JoinedElements DEF JoinsLimit
  <2>2. \A l \in Levels : ToSet(limits'[l]) \subseteq ToSet(limits[l]) \cup {b}
    BY <2>1 DEF JoinedTo
  <2> QED
    BY <2>1, <2>2 DEF LimitOrders, StopOrders
<1>3. ASSUME NEW b \in StopBndl, JoinsStop(b, p)
      PROVE  LimitOrders' \subseteq LimitOrders /\ StopOrders' \subseteq StopOrders \cup {b}
  <2>1. JoinedTo(stops, stops', p, b) /\ UNCHANGED <<limits, cchain>>
    BY <1>1, <1>3, JoinedElements DEF JoinsStop
  <2>2. \A l \in Levels : ToSet(stops'[l]) \subseteq ToSet(stops[l]) \cup {b}
    BY <2>1 DEF JoinedTo
  <2> QED
    BY <2>1, <2>2 DEF LimitOrders, StopOrders
<1> QED
  BY <1>2, <1>3

LEMMA StandingChanges ==
    ASSUME AdvIInv, WholeNext
    PROVE  StandingClasses
<1>1. held' \in {held, NoHold} => HeldOrders' \subseteq StopOrders
  BY DEF HeldOrders, StopOrders
<1>2. CASE UNCHANGED <<limits, stops, id_cache, cchain>> /\ held' \in {held, NoHold}
  <2>1. LimitOrders' \subseteq LimitOrders /\ StopOrders' \subseteq StopOrders
    BY <1>1, <1>2 DEF LimitOrders, StopOrders
  <2> QED
    BY <2>1 DEF StandingClasses
<1>3. ASSUME NEW id, Leaves(id), HeldOrders' \subseteq StopOrders
      PROVE  StandingClasses
  BY <1>3, LeavesStanding DEF StandingClasses
<1>4. ASSUME held' \in StopOrders
      PROVE  HeldOrders' \subseteq StopOrders
  BY <1>4 DEF HeldOrders
<1>5. ASSUME NEW ids, NEW n \in Int, SizedBy(ids, n), Changes(ids, n), UNCHANGED held
      PROVE  StandingClasses
  <2>1. pc \in {"matched", "reduce"}
    BY <1>5 DEF SizedBy, GrowExits, ShrinkOtherExit, Reduce
  <2> QED
    BY <1>5, <2>1, SizedStanding DEF StandingClasses
<1>6. hit \in Int /\ - hit \in Int
  BY DEF AdvIInv, AdvTypes
<1>7. CASE GrowExits /\ Changes(ActiveExits(AdvOf(FrontOrder.id)), hit) /\ UNCHANGED held
  BY <1>5, <1>6, <1>7 DEF SizedBy
<1>8. CASE ShrinkOtherExit /\ Changes({AdvOf(FrontOrder.id).link}, - hit) /\ UNCHANGED held
  BY <1>5, <1>6, <1>8 DEF SizedBy
<1>9. CASE Reduce /\ Changes({FrontOrder.id}, - hit) /\ UNCHANGED held
  BY <1>5, <1>6, <1>9 DEF SizedBy
<1>10. CASE /\ Settle /\ cur.sz > 0 /\ cur.type = "limit" /\ UNCHANGED held
            /\ cur.limit \in Levels /\ RestBndl \in LimitBndl /\ JoinsLimit(RestBndl, cur.limit)
  BY <1>1, <1>10, JoinedStanding DEF StandingClasses
<1>11. CASE /\ RouteToStops /\ UNCHANGED held /\ StopBndlOfCur \in StopBndl
            /\ cur.stop \in Levels /\ JoinsStop(StopBndlOfCur, cur.stop)
  BY <1>1, <1>11, JoinedStanding DEF StandingClasses
<1>12. CASE /\ ConcludeTarget /\ UNCHANGED held /\ ExitStop \in StopBndl
            /\ \E p \in Levels : JoinsStop(ExitStop, p)
  BY <1>1, <1>12, JoinedStanding DEF StandingClasses
<1>13. CASE /\ InsertTrailingStop /\ UNCHANGED held /\ TrailStop \in StopBndl
            /\ \E p \in Levels : JoinsStop(TrailStop, p)
  BY <1>1, <1>13, JoinedStanding DEF StandingClasses
<1>14. CASE /\ PlaceTrailingStop /\ held' = NoHold /\ held \in StopBndl /\ held # NoHold
            /\ \E p \in Levels : JoinsStop(held, p)
  <2>1. LimitOrders' \subseteq LimitOrders /\ StopOrders' \subseteq StopOrders \cup {held}
    BY <1>1, <1>14, JoinedStanding
  <2>2. held \in StopOrders
    BY <1>14 DEF StopOrders, HeldOrders
  <2> QED
    BY <2>1, <2>2 DEF StandingClasses
<1>15. ASSUME NEW p \in Levels, Takes(p), UNCHANGED held
       PROVE  StandingClasses
  <2>1. stops \in [Levels -> Seq(StopBndl)]
    BY CacheFacts DEF BookTypeOK
  <2>2. /\ \A l \in Levels : ToSet(stops'[l]) \subseteq ToSet(stops[l])
        /\ ToSet(cchain') = ToSet(stops[p])
        /\ UNCHANGED limits
    <3>1. ToSet(<<>>) = {}
      BY DEF ToSet
    <3>2. \A l \in Levels : stops'[l] = IF l = p THEN <<>> ELSE stops[l]
      BY <1>15, <2>1 DEF Takes
    <3> QED
      BY <1>15, <3>1, <3>2 DEF Takes
  <2>3. LimitOrders' \subseteq LimitOrders /\ StopOrders' \subseteq StopOrders
    BY <1>1, <1>15, <2>2 DEF LimitOrders, StopOrders
  <2> QED
    BY <2>3 DEF StandingClasses
<1> QED
  BY <1>1, <1>2, <1>3, <1>4, <1>7, <1>8, <1>9, <1>10, <1>11, <1>12, <1>13, <1>14, <1>15,
     BookChanges DEF BookClasses

-----------------------------------------------------------------------------
(* The conditions.  Those that stay are not changed, but for what an entry  *)
(* order knows of its exits.                                                *)

Keeps(x) ==
    /\ adv'[x].cond = adv[x].cond /\ adv'[x].trig = adv[x].trig
    /\ adv'[x].link = adv[x].link /\ adv'[x].nticks = adv[x].nticks
    /\ adv'[x].p1 = adv[x].p1 /\ adv'[x].p2 = adv[x].p2

Dropped == DOMAIN adv' \subseteq DOMAIN adv /\ (\A x \in DOMAIN adv' : adv'[x] = adv[x])

Told(exits) ==
    \A x \in DOMAIN adv : adv'[x] \in {adv[x], [adv[x] EXCEPT !.active = exits]}

ExitTo(id, n) == Condition(cur.cond, cur.trig, id, n, NoParam, NoParam)
Rest == [Own EXCEPT !.p1.sz = @ - FilledSize]
Ticks == IF cur.cond = "trailing_bracket_active" THEN cur.p1.stop ELSE 0

Entries ==
    \/ Dropped
    \/ /\ ConcludeOto \/ ConcludeEntry
       /\ cur.sz > 0
       /\ DOMAIN adv' = DOMAIN adv \cup {cur.id}
       /\ adv'[cur.id] \in {Own, Rest}
       /\ cur.cond = "oto" => adv'[cur.id] = Own
       /\ \A x \in DOMAIN adv : adv'[x] = adv[x]
       /\ UNCHANGED trailing
    \/ /\ ConcludeOco
       /\ cur.parent \in DOMAIN id_cache /\ cur.sz > 0
       /\ DOMAIN adv' = DOMAIN adv \cup {cur.id, cur.parent}
       /\ adv'[cur.id] = LinkTo(cur.parent) /\ adv'[cur.parent] = LinkTo(cur.id)
       /\ \A x \in DOMAIN adv : adv'[x] = adv[x]
       /\ UNCHANGED trailing
    \/ /\ ConcludeTarget
       /\ DOMAIN adv' = DOMAIN adv \cup {cur.id, last_id + 1}
       /\ adv'[cur.id] = ExitTo(last_id + 1, 0)
       /\ adv'[last_id + 1] = ExitTo(cur.id, Ticks)
       /\ Told(<<last_id + 1, cur.id>>)
    \/ /\ InsertTrailingStop
       /\ StopLevel(cur.p1, TRUE) \in Book
       /\ DOMAIN adv' = DOMAIN adv \cup {cur.id}
       /\ adv'[cur.id] = ExitTo(0, cur.p1.stop)
       /\ Told(<<cur.id, 0>>)

LEMMA DropFacts ==
    ASSUME NEW D, DropAdv(D)
    PROVE  Dropped /\ DOMAIN adv' = DOMAIN adv \ D
BY DEF DropAdv, Restrict, Dropped

LEMMA SetFacts ==
    ASSUME NEW new, SetAdv(new), DOMAIN new \cap DOMAIN adv = {}
    PROVE  /\ DOMAIN adv' = DOMAIN adv \cup DOMAIN new
           /\ \A x \in DOMAIN new : adv'[x] = new[x]
           /\ \A x \in DOMAIN adv : adv'[x] = adv[x]
BY DEF SetAdv

LEMMA TellFacts ==
    ASSUME NEW parent, NEW exits, NEW new, Tell(parent, exits, new),
           DOMAIN new \cap DOMAIN adv = {}
    PROVE  /\ DOMAIN adv' = DOMAIN adv \cup DOMAIN new
           /\ \A x \in DOMAIN new : adv'[x] = new[x]
           /\ Told(exits)
BY DEF Tell, Told

LEMMA ToldFacts ==
    ASSUME CondTypes, NEW exits \in Nat \X Nat, Told(exits), NEW x \in DOMAIN adv
    PROVE  /\ Keeps(x)
           /\ adv'[x].active \in {adv[x].active, exits}
           /\ adv'[x] \in CondElem
<1>1. adv[x] \in CondElem
  BY DEF CondTypes
<1>2. adv'[x] = adv[x] \/ adv'[x] = [adv[x] EXCEPT !.active = exits]
  BY DEF Told
<1> QED
  BY <1>1, <1>2 DEF Keeps, CondElem

LEMMA CurIsNotNamed ==
    ASSUME AdvIInv, cur # NoOrder
    PROVE  /\ cur.id \notin Named /\ cur.id \notin DOMAIN adv /\ cur.id \notin Trails
           /\ cur.id <= last_id /\ cur.parent <= last_id
           /\ cur.cond = "oco_second" => cur.parent \notin DOMAIN adv /\ cur.parent # cur.id
           /\ cur \in AdvElem /\ ElemFits(cur)
BY DEF AdvIInv, Fresh, CurIsFresh, Named, AdvTypes, OrdersFit

LEMMA EntryChanges ==
    ASSUME AdvIInv, WholeNext
    PROVE  Entries
<1>1. CASE UNCHANGED <<adv, trailing>>
  BY <1>1 DEF Entries, Dropped
<1>2. ASSUME NEW D, DropAdv(D)
      PROVE  Entries
  BY <1>2, DropFacts DEF Entries
<1>3. pc = "condition" => cur # NoOrder
  BY CurFacts DEF Between
<1>4. ASSUME ConcludeOto \/ ConcludeEntry, cur.sz > 0, UNCHANGED trailing,
             NEW a \in {Own, Rest}, SetAdv([x \in {cur.id} |-> a]),
             cur.cond = "oto" => a = Own
      PROVE  Entries
  <2>1. pc = "condition"
    BY <1>4 DEF ConcludeOto, ConcludeEntry
  <2>2. cur.id \notin DOMAIN adv
    BY <1>3, <2>1, CurIsNotNamed
  <2>3. /\ DOMAIN adv' = DOMAIN adv \cup {cur.id}
        /\ adv'[cur.id] = a
        /\ \A x \in DOMAIN adv : adv'[x] = adv[x]
    BY <1>4, <2>2 DEF SetAdv
  <2> QED
    BY <1>4, <2>3 DEF Entries
<1>5. ASSUME ConcludeOco, cur.parent \in DOMAIN id_cache, cur.sz > 0, UNCHANGED trailing,
             SetAdv([x \in {cur.id, cur.parent} |->
                        LinkTo(IF x = cur.id THEN cur.parent ELSE cur.id)])
      PROVE  Entries
  <2>1. pc = "condition" /\ cur.cond = "oco_second"
    BY <1>5 DEF ConcludeOco
  <2>2. cur.id \notin DOMAIN adv /\ cur.parent \notin DOMAIN adv /\ cur.parent # cur.id
    BY <1>3, <2>1, CurIsNotNamed
  <2>3. /\ DOMAIN adv' = DOMAIN adv \cup {cur.id, cur.parent}
        /\ adv'[cur.id] = LinkTo(cur.parent) /\ adv'[cur.parent] = LinkTo(cur.id)
        /\ \A x \in DOMAIN adv : adv'[x] = adv[x]
    BY <1>5, <2>2 DEF SetAdv
  <2> QED
    BY <1>5, <2>3 DEF Entries
<1>6. CASE ConcludeTarget
  <2>1. pc = "condition" /\ last_id + 1 \notin Known
    BY <1>6, TargetFacts DEF ConcludeTarget
  <2>2. cur.id \notin DOMAIN adv /\ last_id + 1 \notin DOMAIN adv /\ last_id + 1 # cur.id
    BY <1>3, <2>1, CurIsNotNamed, LastIdFacts DEF Known, Named
  <2> DEFINE new == [x \in {cur.id, last_id + 1} |->
                        IF x = cur.id THEN ExitTo(last_id + 1, 0) ELSE ExitTo(cur.id, Ticks)]
  <2>3. Tell(cur.parent, <<last_id + 1, cur.id>>, new)
    BY <1>6 DEF ConcludeTarget, ExitTo, Ticks
  <2>4. DOMAIN new = {cur.id, last_id + 1}
    OBVIOUS
  <2>5. new[cur.id] = ExitTo(last_id + 1, 0) /\ new[last_id + 1] = ExitTo(cur.id, Ticks)
    BY <2>2
  <2> HIDE DEF new
  <2>8. DOMAIN new \cap DOMAIN adv = {}
    BY <2>2, <2>4
  <2>9. /\ DOMAIN adv' = DOMAIN adv \cup DOMAIN new
        /\ \A x \in DOMAIN new : adv'[x] = new[x]
        /\ Told(<<last_id + 1, cur.id>>)
    BY <2>3, <2>8, TellFacts, Zenon
  <2>7. /\ DOMAIN adv' = DOMAIN adv \cup {cur.id, last_id + 1}
        /\ adv'[cur.id] = ExitTo(last_id + 1, 0)
        /\ adv'[last_id + 1] = ExitTo(cur.id, Ticks)
        /\ Told(<<last_id + 1, cur.id>>)
    BY <2>4, <2>9, <2>5
  <2> QED
    BY <1>6, <2>7 DEF Entries
<1>7. CASE InsertTrailingStop /\ StopLevel(cur.p1, TRUE) \in Book
  <2>1. pc = "route" /\ ActiveStop(cur)
    BY <1>7 DEF InsertTrailingStop
  <2>2. cur.id \notin DOMAIN adv
    BY <2>1, CurFacts, CurIsNotNamed DEF Between
  <2> DEFINE new == [x \in {cur.id} |-> ExitTo(0, cur.p1.stop)]
  <2>3. Tell(cur.parent, <<cur.id, 0>>, new)
    BY <1>7 DEF InsertTrailingStop, ExitTo
  <2>4. DOMAIN new = {cur.id} /\ new[cur.id] = ExitTo(0, cur.p1.stop)
    OBVIOUS
  <2> HIDE DEF new
  <2>8. DOMAIN new \cap DOMAIN adv = {}
    BY <2>2, <2>4
  <2>9. /\ DOMAIN adv' = DOMAIN adv \cup DOMAIN new
        /\ \A x \in DOMAIN new : adv'[x] = new[x]
        /\ Told(<<cur.id, 0>>)
    BY <2>3, <2>8, TellFacts, Zenon
  <2>7. /\ DOMAIN adv' = DOMAIN adv \cup {cur.id}
        /\ adv'[cur.id] = ExitTo(0, cur.p1.stop)
        /\ Told(<<cur.id, 0>>)
    BY <2>4, <2>9
  <2> QED
    BY <1>7, <2>7 DEF Entries
<1> QED
  BY <1>1, <1>2, <1>4, <1>5, <1>6, <1>7, AdvChanges DEF AdvSteps, Rest

LEMMA StandingTypes ==
    ASSUME AdvIInv
    PROVE  LimitOrders \subseteq LimitBndl /\ StopOrders \subseteq StopBndl
<1>1. \A l \in Levels : ToSet(limits[l]) \subseteq LimitBndl /\ ToSet(stops[l]) \subseteq StopBndl
  BY CacheFacts, ElementsOf
<1>2. ToSet(cchain) \subseteq StopBndl
  BY CacheFacts, ElementsOf
<1>3. HeldOrders \subseteq StopBndl
  BY DEF AdvIInv, AdvTypes, HeldOrders
<1> QED
  BY <1>1, <1>2, <1>3 DEF LimitOrders, StopOrders

Was(b, S) == \E d \in S : d.id = b.id /\ d.limit = b.limit

LEMMA StopsAfter ==
    ASSUME AdvIInv, WholeNext, NEW b \in StopOrders'
    PROVE  \/ Was(b, StopOrders)
           \/ RouteToStops /\ b = StopBndlOfCur
           \/ ConcludeTarget /\ b = ExitStop
           \/ InsertTrailingStop /\ b = TrailStop
<1>1. CASE StopOrders' \subseteq StopOrders
  BY <1>1 DEF Was
<1>2. ASSUME NEW ids, NEW n \in Int, StopOrders' \subseteq SizedOf(StopOrders, ids, n)
      PROVE  Was(b, StopOrders)
  <2>1. PICK d \in StopOrders : b = Sized(d, ids, n)
    BY <1>2 DEF SizedOf
  <2>2. d \in StopBndl
    BY StandingTypes
  <2> QED
    BY <2>1, <2>2, SizedFields DEF Was
<1> QED
  BY <1>1, <1>2, StandingChanges DEF StandingClasses, Was

LEMMA OwnIsCond ==
    ASSUME AdvIInv, ConcludeOto \/ ConcludeEntry
    PROVE  /\ {Own, Rest} \subseteq CondElem
           /\ \A a \in {Own, Rest} :
                  /\ a.cond = cur.cond /\ a.p2 = cur.p2 /\ a.link = 0 /\ a.active = <<0, 0>>
                  /\ a.nticks = 0
                  /\ ~ Exit(a.cond)
                  /\ (cur.cond = "oto" => a = Own) => CondFits(a.cond, a.p1, a.p2)
<1>1. pc = "condition" /\ cur.cond \in Conditions \ {"none"} /\ ~ Exit(cur.cond)
  BY DEF ConcludeOto, ConcludeEntry, Conditions, Exit
<1>2. /\ Own \in CondElem
      /\ Own.cond = cur.cond /\ Own.p1 = cur.p1 /\ Own.p2 = cur.p2
      /\ Own.link = 0 /\ Own.active = <<0, 0>> /\ Own.nticks = 0
      /\ CondFits(cur.cond, cur.p1, cur.p2)
      /\ FilledSize \in Nat
  BY <1>1, OwnFacts
<1> HIDE DEF FilledSize, Own
<1>3. /\ Rest \in CondElem
      /\ Rest.cond = Own.cond /\ Rest.p2 = Own.p2 /\ Rest.link = Own.link
      /\ Rest.active = Own.active /\ Rest.nticks = Own.nticks
      /\ Rest.p1 = [Own.p1 EXCEPT !.sz = @ - FilledSize]
      /\ Rest.p1.limit = Own.p1.limit /\ Rest.p1.stop = Own.p1.stop
  BY <1>2 DEF Rest, CondElem, ParamsLeft
<1>4. cur.cond # "oto" => CondFits(Rest.cond, Rest.p1, Rest.p2)
  BY <1>2, <1>3 DEF CondFits, InBook
<1> QED
  BY <1>1, <1>2, <1>3, <1>4

LEMMA LinkIsCond ==
    ASSUME AdvIInv, pc \in {"condition", "route"}
    PROVE  /\ \A id \in Nat : /\ LinkTo(id) \in CondElem
                              /\ LinkTo(id).cond = "oco" /\ LinkTo(id).link = id
                              /\ LinkTo(id).active = <<0, 0>> /\ LinkTo(id).nticks = 0
           /\ cur.cond \in ActiveConditions => \A id, n \in Nat :
                  /\ ExitTo(id, n) \in CondElem
                  /\ ExitTo(id, n).cond = cur.cond /\ ExitTo(id, n).link = id
                  /\ ExitTo(id, n).active = <<0, 0>> /\ ExitTo(id, n).nticks = n
                  /\ ExitTo(id, n).trig = cur.trig
           /\ cur.id \in Nat /\ cur.parent \in Nat /\ cur.p1.stop \in Nat /\ cur.p1.side \in Sides
           /\ cur.side \in Sides
<1>1. cur \in AdvElem
  BY CurFacts DEF Between
<1>2. NoParam \in ParamsLeft
  BY ParamFacts
<1>3. cur.trig \in Triggering /\ cur.p1 \in ParamsLeft
  BY <1>1 DEF AdvElem
<1>4. cur.id \in Nat /\ cur.parent \in Nat /\ cur.side \in Sides
  BY <1>1 DEF AdvElem
<1>5. cur.p1.stop \in Nat /\ cur.p1.side \in Sides
  BY <1>3 DEF ParamsLeft
<1>6. "oco" \in (Conditions \cup ActiveConditions) \ {"none"}
      /\ ActiveConditions \subseteq (Conditions \cup ActiveConditions) \ {"none"}
  BY DEF Conditions, ActiveConditions
<1> HIDE DEF NoParam, Conditions, ActiveConditions
<1> QED
  BY <1>2, <1>3, <1>4, <1>5, <1>6 DEF LinkTo, ExitTo, Condition, CondElem

LEMMA CondTypesStep ==
    ASSUME AdvIInv, WholeNext
    PROVE  CondTypes'
<1>1. CondTypes /\ (\A x \in DOMAIN adv : adv[x] \in CondElem) /\ DOMAIN adv \subseteq Nat
  BY DEF AdvIInv, AdvTypes, CondTypes
<1>2. last_id + 1 \in Nat
  BY LastIdFacts
<1>3. DOMAIN adv' \subseteq Nat /\ (\A x \in DOMAIN adv' : adv'[x] \in CondElem)
  <2>1. CASE Dropped
    BY <1>1, <2>1 DEF Dropped
  <2>2. CASE /\ ConcludeOto \/ ConcludeEntry
             /\ DOMAIN adv' = DOMAIN adv \cup {cur.id}
             /\ adv'[cur.id] \in {Own, Rest}
             /\ \A x \in DOMAIN adv : adv'[x] = adv[x]
    <3>1. {Own, Rest} \subseteq CondElem
      BY <2>2, OwnIsCond
    <3>2. cur.id \in Nat
      BY <2>2, LinkIsCond DEF ConcludeOto, ConcludeEntry
    <3> HIDE DEF Own, Rest
    <3> QED
      BY <1>1, <2>2, <3>1, <3>2
  <2>3. CASE /\ ConcludeOco
             /\ DOMAIN adv' = DOMAIN adv \cup {cur.id, cur.parent}
             /\ adv'[cur.id] = LinkTo(cur.parent) /\ adv'[cur.parent] = LinkTo(cur.id)
             /\ \A x \in DOMAIN adv : adv'[x] = adv[x]
    <3>1. cur.id \in Nat /\ cur.parent \in Nat /\ \A id \in Nat : LinkTo(id) \in CondElem
      BY <2>3, LinkIsCond DEF ConcludeOco
    <3> HIDE DEF LinkTo
    <3> QED
      BY <1>1, <2>3, <3>1
  <2>4. CASE /\ ConcludeTarget
             /\ DOMAIN adv' = DOMAIN adv \cup {cur.id, last_id + 1}
             /\ adv'[cur.id] = ExitTo(last_id + 1, 0)
             /\ adv'[last_id + 1] = ExitTo(cur.id, Ticks)
             /\ Told(<<last_id + 1, cur.id>>)
    <3>1. cur.id \in Nat /\ cur.p1.stop \in Nat /\ \A id, n \in Nat : ExitTo(id, n) \in CondElem
      BY <2>4, LinkIsCond DEF ConcludeTarget, ActiveConditions
    <3>2. Ticks \in Nat
      BY <3>1 DEF Ticks
    <3>3. \A x \in DOMAIN adv : adv'[x] \in CondElem
      <4>1. <<last_id + 1, cur.id>> \in Nat \X Nat
        BY <1>2, <3>1
      <4> QED
        BY <1>1, <2>4, <4>1, ToldFacts, Zenon
    <3>4. adv'[cur.id] \in CondElem /\ adv'[last_id + 1] \in CondElem
      BY <1>2, <2>4, <3>1, <3>2, Zenon
    <3> QED
      BY <1>1, <1>2, <2>4, <3>1, <3>3, <3>4
  <2>5. CASE /\ InsertTrailingStop
             /\ DOMAIN adv' = DOMAIN adv \cup {cur.id}
             /\ adv'[cur.id] = ExitTo(0, cur.p1.stop)
             /\ Told(<<cur.id, 0>>)
    <3>1. cur.id \in Nat /\ cur.p1.stop \in Nat /\ \A id, n \in Nat : ExitTo(id, n) \in CondElem
      BY <2>5, LinkIsCond DEF InsertTrailingStop, ActiveConditions, ActiveStop
    <3>3. \A x \in DOMAIN adv : adv'[x] \in CondElem
      <4>1. <<cur.id, 0>> \in Nat \X Nat
        BY <3>1
      <4> QED
        BY <1>1, <2>5, <4>1, ToldFacts, Zenon
    <3>4. adv'[cur.id] \in CondElem
      BY <2>5, <3>1, Zenon
    <3> QED
      BY <1>1, <2>5, <3>1, <3>3, <3>4
  <2> QED
    BY <2>1, <2>2, <2>3, <2>4, <2>5, EntryChanges DEF Entries
<1>4. trailing' \in [Sides -> SUBSET Nat]
  <2>1. trailing \in [Sides -> SUBSET Nat]
    BY <1>1 DEF CondTypes
  <2>2. ASSUME NEW id, NEW s, TrailingErase(id, s)
        PROVE  trailing' \in [Sides -> SUBSET Nat]
    BY <2>1, <2>2 DEF TrailingErase
  <2>3. CASE ConcludeTarget
    <3>1. cur.p1.side \in Sides
      BY <2>3, LinkIsCond DEF ConcludeTarget
    <3>2. \/ UNCHANGED trailing
          \/ trailing' = [trailing EXCEPT ![cur.p1.side] = @ \cup {last_id + 1}]
      BY <2>3 DEF ConcludeTarget
    <3> QED
      BY <1>2, <2>1, <3>1, <3>2
  <2>4. CASE InsertTrailingStop
    <3>1. cur.side \in Sides /\ cur.id \in Nat
      BY <2>4, LinkIsCond DEF InsertTrailingStop
    <3>2. \/ UNCHANGED trailing
          \/ trailing' = [trailing EXCEPT ![cur.side] = @ \cup {cur.id}]
      BY <2>4 DEF InsertTrailingStop
    <3> QED
      BY <2>1, <3>1, <3>2
  <2> QED
    BY <2>1, <2>2, <2>3, <2>4, AdvChanges DEF AdvSteps
<1> QED
  BY <1>3, <1>4 DEF CondTypes

LEMMA KeepsOld ==
    ASSUME AdvIInv, WholeNext, NEW x \in DOMAIN adv, x \in DOMAIN adv'
    PROVE  Keeps(x)
<1>1. CondTypes
  BY DEF AdvIInv, AdvTypes
<1>2. CASE adv'[x] = adv[x]
  BY <1>2 DEF Keeps
<1>3. CASE ConcludeTarget /\ Told(<<last_id + 1, cur.id>>)
  <2>1. <<last_id + 1, cur.id>> \in Nat \X Nat
    BY <1>3, LastIdFacts, LinkIsCond DEF ConcludeTarget
  <2> QED
    BY <1>1, <1>3, <2>1, ToldFacts, Zenon
<1>4. CASE InsertTrailingStop /\ Told(<<cur.id, 0>>)
  <2>1. <<cur.id, 0>> \in Nat \X Nat
    BY <1>4, LinkIsCond DEF InsertTrailingStop
  <2> QED
    BY <1>1, <1>4, <2>1, ToldFacts, Zenon
<1> QED
  BY <1>2, <1>3, <1>4, EntryChanges DEF Entries, Dropped

Joins(id, elem) ==
    /\ id \notin DOMAIN id_cache
    /\ DOMAIN id_cache' = DOMAIN id_cache \cup {id}
    /\ id_cache'[id] = elem
    /\ \A i \in DOMAIN id_cache : id_cache'[i] = id_cache[i]

CacheEntries ==
    \/ /\ DOMAIN id_cache' \subseteq DOMAIN id_cache
       /\ \A i \in DOMAIN id_cache' : id_cache'[i] = id_cache[i]
    \/ /\ Settle
       /\ cur.type = "limit" /\ cur.sz > 0
       /\ Joins(cur.id, [type |-> "limit", p |-> cur.limit])
    \/ RouteToStops /\ Joins(cur.id, [type |-> "stop", p |-> cur.stop])
    \/ ConcludeTarget /\ \E p : Joins(last_id + 1, [type |-> "stop", p |-> p])
    \/ InsertTrailingStop /\ \E p : Joins(cur.id, [type |-> "stop", p |-> p])
    \/ PlaceTrailingStop /\ \E p : Joins(held.id, [type |-> "stop", p |-> p])

LEMMA EntriesOfCache ==
    ASSUME AdvIInv, WholeNext
    PROVE  CacheEntries
<1>1. ASSUME NEW id, NEW elem, Emplace(id, elem), id \notin DOMAIN id_cache
      PROVE  Joins(id, elem)
  BY <1>1, EmplaceFacts DEF Joins
<1>2. CASE UNCHANGED id_cache
  BY <1>2 DEF CacheEntries
<1>3. ASSUME NEW id, Leaves(id)
      PROVE  CacheEntries
  BY <1>3 DEF Leaves, Forgets, CacheEntries
<1>4. Settle \/ RouteToStops \/ InsertTrailingStop => cur.id \notin DOMAIN id_cache
  BY CurIsNew DEF Settle, RouteToStops, InsertTrailingStop
<1>5. ConcludeTarget => last_id + 1 \notin DOMAIN id_cache
  BY TargetFacts DEF Known
<1>6. PlaceTrailingStop => held.id \notin DOMAIN id_cache
  BY PlaceFacts
<1> QED
  BY <1>1, <1>2, <1>3, <1>4, <1>5, <1>6, CacheChanges DEF CacheSteps, CacheEntries

\* An order with a condition stays where it is, but for a trailing stop.
LEMMA CachedBefore ==
    ASSUME AdvIInv, WholeNext, NEW x \in DOMAIN adv, x \in DOMAIN id_cache',
           id_cache'[x].type = "limit"
    PROVE  x \in DOMAIN id_cache /\ id_cache'[x] = id_cache[x]
<1>1. ASSUME NEW id, NEW p, Joins(id, [type |-> "stop", p |-> p])
      PROVE  x \in DOMAIN id_cache /\ id_cache'[x] = id_cache[x]
  BY <1>1 DEF Joins
<1>2. ASSUME NEW elem, Settle, Joins(cur.id, elem)
      PROVE  x \in DOMAIN id_cache /\ id_cache'[x] = id_cache[x]
  <2>1. cur # NoOrder
    BY <1>2, CurFacts DEF Between, Settle
  <2>2. cur.id # x
    BY <2>1, CurIsNotNamed
  <2> QED
    BY <1>2, <2>2 DEF Joins
<1>3. CASE /\ DOMAIN id_cache' \subseteq DOMAIN id_cache
           /\ \A i \in DOMAIN id_cache' : id_cache'[i] = id_cache[i]
  BY <1>3
<1> QED
  BY <1>1, <1>2, <1>3, EntriesOfCache DEF CacheEntries

\* What cur takes into the book fits its own prices.
LEMMA CurFitsWhereItStands ==
    ASSUME AdvIInv, pc = "condition", cur.sz > 0, cur.cond = "trailing_bracket"
    PROVE  /\ id_cache[cur.id].type = "limit" => TargetFits(cur.p2, id_cache[cur.id].p)
           /\ \A b \in StopOrders : b.id = cur.id /\ b.limit # 0 => TargetFits(cur.p2, b.limit)
<1>1. cur \in AdvElem /\ ElemFits(cur)
  BY CurFacts DEF Between
<1>2. cur.type # "market"
  BY <1>1 DEF AdvIInv, AdvControl, NoOrder, AdvElem
<1>3. cur.limit # 0 => TargetFits(cur.p2, cur.limit)
  BY <1>1 DEF ElemFits
<1>4. CurStands
  BY DEF AdvIInv
<1>5. cur.type = "limit" => cur.limit # 0
  BY <1>1, BookFacts DEF ElemFits, AdvIInv, AdvTypes
<1> QED
  BY <1>3, <1>4, <1>5 DEF CurStands

LEMMA CondsFitStep ==
    ASSUME AdvIInv, WholeNext
    PROVE  CondsFit'
<1>1. beg' = beg /\ end' = end /\ Book' = Book
  BY BookStays
<1>2. /\ \A c, p1, p2 : CondFits(c, p1, p2)' <=> CondFits(c, p1, p2)
      /\ \A p, l : TargetFits(p, l)' <=> TargetFits(p, l)
  BY <1>1, FitsStay, Zenon
<1>3. CondsFit /\ CurStands
  BY DEF AdvIInv
<1>4. ASSUME NEW x \in DOMAIN adv'
      PROVE  /\ CondFits(adv'[x].cond, adv'[x].p1, adv'[x].p2)
             /\ Exit(adv'[x].cond) => adv'[x].trig = "partial"
             /\ adv'[x].cond = "trailing_bracket" /\ x \in DOMAIN id_cache'
                /\ id_cache'[x].type = "limit" => TargetFits(adv'[x].p2, id_cache'[x].p)
  <2>1. CASE x \in DOMAIN adv
    <3>1. Keeps(x)
      BY <2>1, KeepsOld
    <3>2. x \in DOMAIN id_cache' /\ id_cache'[x].type = "limit"
          => x \in DOMAIN id_cache /\ id_cache'[x] = id_cache[x]
      BY <2>1, CachedBefore
    <3> QED
      BY <1>3, <2>1, <3>1, <3>2 DEF CondsFit, Keeps
  <2>2. CASE x \notin DOMAIN adv
    <3>1. CASE /\ ConcludeOto \/ ConcludeEntry
               /\ cur.sz > 0
               /\ DOMAIN adv' = DOMAIN adv \cup {cur.id}
               /\ adv'[cur.id] \in {Own, Rest}
               /\ cur.cond = "oto" => adv'[cur.id] = Own
      <4>1. /\ x = cur.id
            /\ adv'[x].cond = cur.cond /\ adv'[x].p2 = cur.p2
            /\ ~ Exit(adv'[x].cond)
            /\ CondFits(adv'[x].cond, adv'[x].p1, adv'[x].p2)
        <5> HIDE DEF Own, Rest
        <5> QED
          BY <2>2, <3>1, OwnIsCond
      <4>2. UNCHANGED id_cache /\ pc = "condition"
        BY <3>1 DEF ConcludeOto, ConcludeEntry, book
      <4> QED
        BY <3>1, <4>1, <4>2, CurFitsWhereItStands
    <3>2. CASE /\ ConcludeOco
               /\ DOMAIN adv' = DOMAIN adv \cup {cur.id, cur.parent}
               /\ adv'[cur.id] = LinkTo(cur.parent) /\ adv'[cur.parent] = LinkTo(cur.id)
      <4>1. adv'[x].cond = "oco"
        <5>1. LinkTo(cur.parent).cond = "oco" /\ LinkTo(cur.id).cond = "oco"
          BY DEF LinkTo, Condition
        <5> HIDE DEF LinkTo
        <5> QED
          BY <2>2, <3>2, <5>1
      <4> QED
        BY <4>1 DEF CondFits, Exit
    <3>3. CASE /\ ConcludeTarget
               /\ DOMAIN adv' = DOMAIN adv \cup {cur.id, last_id + 1}
               /\ adv'[cur.id] = ExitTo(last_id + 1, 0)
               /\ adv'[last_id + 1] = ExitTo(cur.id, Ticks)
      <4>1. adv'[x].cond = cur.cond /\ adv'[x].trig = cur.trig
        <5>1. \A id, n : ExitTo(id, n).cond = cur.cond /\ ExitTo(id, n).trig = cur.trig
          BY DEF ExitTo, Condition
        <5> HIDE DEF ExitTo
        <5> QED
          BY <2>2, <3>3, <5>1
      <4>2. Exit(cur.cond) /\ cur.trig = "partial"
        BY <3>3, CurFacts DEF ConcludeTarget, Exit, ElemFits, Between
      <4> QED
        BY <4>1, <4>2 DEF CondFits, Exit
    <3>4. CASE /\ InsertTrailingStop
               /\ DOMAIN adv' = DOMAIN adv \cup {cur.id}
               /\ adv'[cur.id] = ExitTo(0, cur.p1.stop)
      <4>1. adv'[x].cond = "trailing_stop_active"
        BY <2>2, <3>4 DEF ExitTo, Condition, InsertTrailingStop, ActiveStop
      <4> QED
        BY <4>1 DEF CondFits, Exit
    <3> QED
      BY <2>2, <3>1, <3>2, <3>3, <3>4, EntryChanges DEF Entries, Dropped
  <2> QED
    BY <2>1, <2>2
<1>5. ASSUME NEW b \in StopOrders'
      PROVE  b.limit \in Book \cup {0}
  BY <1>3, <1>5, StopsAfter, RouteFacts, TargetFacts
  DEF CondsFit, Was, StopBndlOfCur, TrailStop
<1>6. ASSUME NEW b \in StopOrders', b.limit # 0, b.id \in DOMAIN adv',
             adv'[b.id].cond = "trailing_bracket"
      PROVE  TargetFits(adv'[b.id].p2, b.limit)
  <2>1. CASE RouteToStops /\ b = StopBndlOfCur
    <3>1. UNCHANGED adv /\ cur # NoOrder
      BY <2>1, CurFacts DEF RouteToStops, adv_vars, Between
    <3>2. b.id = cur.id
      BY <2>1 DEF StopBndlOfCur
    <3> QED
      BY <1>6, <3>1, <3>2, CurIsNotNamed
  <2>2. CASE InsertTrailingStop /\ b = TrailStop
    BY <1>6, <2>2 DEF TrailStop
  <2>3. CASE ConcludeTarget /\ b = ExitStop
    <3>1. b.id = last_id + 1 /\ last_id + 1 \notin DOMAIN adv
      BY <2>3, TargetFacts DEF ExitStop, Known, Named
    <3>2. adv'[b.id] = ExitTo(cur.id, Ticks)
      BY <1>6, <2>3, <3>1, EntryChanges
      DEF Entries, Dropped, ConcludeTarget, ConcludeOto, ConcludeEntry, ConcludeOco,
          InsertTrailingStop, Exit
    <3>3. adv'[b.id].cond = cur.cond
      BY <3>2 DEF ExitTo, Condition
    <3> QED
      BY <1>6, <2>3, <3>3 DEF ConcludeTarget
  <2>4. CASE Was(b, StopOrders)
    <3>1. PICK d \in StopOrders : d.id = b.id /\ d.limit = b.limit
      BY <2>4 DEF Was
    <3>2. CASE b.id \in DOMAIN adv
      BY <1>3, <1>6, <3>1, <3>2, KeepsOld DEF CondsFit, Keeps, AdvOf
    <3>3. CASE b.id \notin DOMAIN adv
      <4>1. CASE /\ ConcludeOto \/ ConcludeEntry
                 /\ cur.sz > 0
                 /\ DOMAIN adv' = DOMAIN adv \cup {cur.id}
                 /\ adv'[cur.id] \in {Own, Rest}
        <5>1. b.id = cur.id /\ pc = "condition"
          BY <1>6, <3>3, <4>1 DEF ConcludeOto, ConcludeEntry
        <5>2. adv'[b.id].cond = cur.cond /\ adv'[b.id].p2 = cur.p2
          <6> HIDE DEF Own, Rest
          <6> QED
            BY <4>1, <5>1, OwnIsCond
        <5> QED
          BY <1>6, <3>1, <4>1, <5>1, <5>2, CurFitsWhereItStands
      <4>2. CASE /\ ConcludeOco
                 /\ DOMAIN adv' = DOMAIN adv \cup {cur.id, cur.parent}
                 /\ adv'[cur.id] = LinkTo(cur.parent) /\ adv'[cur.parent] = LinkTo(cur.id)
        BY <1>6, <3>3, <4>2 DEF LinkTo, Condition
      <4>3. CASE /\ ConcludeTarget
                 /\ DOMAIN adv' = DOMAIN adv \cup {cur.id, last_id + 1}
                 /\ adv'[cur.id] = ExitTo(last_id + 1, 0)
                 /\ adv'[last_id + 1] = ExitTo(cur.id, Ticks)
        BY <1>6, <3>3, <4>3 DEF ExitTo, Condition, ConcludeTarget
      <4>4. CASE /\ InsertTrailingStop
                 /\ DOMAIN adv' = DOMAIN adv \cup {cur.id}
                 /\ adv'[cur.id] = ExitTo(0, cur.p1.stop)
        BY <1>6, <3>3, <4>4 DEF ExitTo, Condition, InsertTrailingStop, ActiveStop
      <4> QED
        BY <1>6, <3>3, <4>1, <4>2, <4>3, <4>4, EntryChanges DEF Entries, Dropped
    <3> QED
      BY <3>2, <3>3
  <2> QED
    BY <2>1, <2>2, <2>3, <2>4, StopsAfter
<1>7. \A b \in StopOrders' : b.limit # 0 /\ AdvOf(b.id)'.cond = "trailing_bracket" =>
          TargetFits(adv'[b.id].p2, b.limit)
  BY <1>6 DEF AdvOf, NoCondition, Condition
<1> QED
  BY <1>1, <1>2, <1>4, <1>5, <1>7 DEF CondsFit

-----------------------------------------------------------------------------
(* The ids.                                                                 *)

Concludes == ConcludeOto \/ ConcludeEntry \/ ConcludeOco \/ ConcludeTarget \/ InsertTrailingStop

LEMMA ConcludesEnds ==
    ASSUME AdvIInv, Concludes
    PROVE  /\ cur' = NoOrder /\ cur # NoOrder
           /\ pc \in {"condition", "route"}
           /\ cur.id \in Nat \ {0} /\ cur.id <= last_id
<1>1. cur' = NoOrder /\ pc \in {"condition", "route"}
  BY DEF Concludes, ConcludeOto, ConcludeEntry, ConcludeOco, ConcludeTarget, InsertTrailingStop,
         Done, Abort
<1>2. cur # NoOrder /\ cur \in AdvElem
  BY <1>1, CurFacts DEF Between
<1>3. cur.id \in Nat \ {0}
  BY <1>2 DEF AdvElem
<1> QED
  BY <1>1, <1>2, <1>3, CurIsNotNamed

LEMMA TrailsAfter ==
    ASSUME AdvIInv, WholeNext
    PROVE  \/ Trails' \subseteq Trails
           \/ ConcludeTarget /\ Trails' \subseteq Trails \cup {last_id + 1}
           \/ InsertTrailingStop /\ Trails' \subseteq Trails \cup {cur.id}
<1>1. trailing \in [Sides -> SUBSET Nat]
  BY DEF AdvIInv, AdvTypes, CondTypes
<1>2. ASSUME NEW id, NEW s, TrailingErase(id, s)
      PROVE  Trails' \subseteq Trails
  BY <1>1, <1>2 DEF TrailingErase, Trails
<1>3. CASE ConcludeTarget
  <2>1. \/ UNCHANGED trailing
        \/ trailing' = [trailing EXCEPT ![cur.p1.side] = @ \cup {last_id + 1}]
    BY <1>3 DEF ConcludeTarget
  <2> QED
    BY <1>1, <1>3, <2>1 DEF Trails
<1>4. CASE InsertTrailingStop
  <2>1. \/ UNCHANGED trailing
        \/ trailing' = [trailing EXCEPT ![cur.side] = @ \cup {cur.id}]
    BY <1>4 DEF InsertTrailingStop
  <2> QED
    BY <1>1, <1>4, <2>1 DEF Trails
<1>5. CASE UNCHANGED trailing
  BY <1>5 DEF Trails
<1> QED
  BY <1>2, <1>3, <1>4, <1>5, AdvChanges DEF AdvSteps

\* Unless an order concludes, no id is named that was not named before.
LEMMA NamedStays ==
    ASSUME AdvIInv, WholeNext
    PROVE  \/ Dropped /\ Named' \subseteq Named
           \/ Concludes
<1>1. CASE Dropped /\ Trails' \subseteq Trails
  BY <1>1 DEF Dropped, Named, ActiveExits
<1> QED
  BY <1>1, TrailsAfter, EntryChanges DEF Entries, Concludes

NewNames == {0, cur.id} \cup (IF ConcludeTarget THEN {last_id + 1} ELSE {})

LEMMA NamedAfter ==
    ASSUME AdvIInv, WholeNext, Concludes
    PROVE  Named' \subseteq Known \cup NewNames
<1>1. Trails' \subseteq Known \cup NewNames
  BY TrailsAfter DEF Known, Named, NewNames
<1>2. ASSUME NEW x \in DOMAIN adv'
      PROVE  /\ x \in Known \cup NewNames
             /\ adv'[x].link \in Known \cup NewNames
             /\ ActiveExits(adv'[x]) \subseteq Known \cup NewNames
  <2>0. CondTypes
    BY DEF AdvIInv, AdvTypes
  <2>1. CASE Dropped
    BY <1>2, <2>1 DEF Dropped, Known, Named, ActiveExits
  <2>2. ASSUME x \in DOMAIN adv, adv'[x] = adv[x]
        PROVE  /\ x \in Known \cup NewNames
               /\ adv'[x].link \in Known \cup NewNames
               /\ ActiveExits(adv'[x]) \subseteq Known \cup NewNames
    BY <2>2 DEF Known, Named
  <2>3. CASE /\ ConcludeOto \/ ConcludeEntry
             /\ DOMAIN adv' = DOMAIN adv \cup {cur.id}
             /\ adv'[cur.id] \in {Own, Rest}
             /\ \A y \in DOMAIN adv : adv'[y] = adv[y]
    <3>1. adv'[cur.id].link = 0 /\ adv'[cur.id].active = <<0, 0>>
      <4> HIDE DEF Own, Rest
      <4> QED
        BY <2>3, OwnIsCond
    <3>2. ActiveExits(adv'[cur.id]) = {}
      BY <3>1 DEF ActiveExits
    <3> QED
      BY <2>2, <2>3, <3>1, <3>2 DEF NewNames
  <2>4. CASE /\ ConcludeOco
             /\ cur.parent \in DOMAIN id_cache
             /\ DOMAIN adv' = DOMAIN adv \cup {cur.id, cur.parent}
             /\ adv'[cur.id] = LinkTo(cur.parent) /\ adv'[cur.parent] = LinkTo(cur.id)
             /\ \A y \in DOMAIN adv : adv'[y] = adv[y]
    <3>1. \A id \in {cur.id, cur.parent} :
              /\ adv'[id].link \in {cur.id, cur.parent} /\ adv'[id].active = <<0, 0>>
      <4>1. \A id : LinkTo(id).link = id /\ LinkTo(id).active = <<0, 0>>
        BY DEF LinkTo, Condition
      <4> HIDE DEF LinkTo
      <4> QED
        BY <2>4, <4>1
    <3>2. \A id \in {cur.id, cur.parent} : ActiveExits(adv'[id]) = {}
      BY <3>1 DEF ActiveExits
    <3>3. cur.parent \in Known /\ cur.id \in NewNames
      BY <2>4 DEF Known, NewNames
    <3> QED
      BY <2>2, <2>4, <3>1, <3>2, <3>3
  <2>5. ASSUME NEW exits \in Nat \X Nat, Told(exits), {exits[1], exits[2]} \subseteq NewNames,
               x \in DOMAIN adv
        PROVE  /\ x \in Known \cup NewNames
               /\ adv'[x].link \in Known \cup NewNames
               /\ ActiveExits(adv'[x]) \subseteq Known \cup NewNames
    <3>1. Keeps(x) /\ adv'[x].active \in {adv[x].active, exits}
      BY <2>0, <2>5, ToldFacts
    <3>2. ActiveExits(adv'[x]) \subseteq ActiveExits(adv[x]) \cup NewNames
      BY <2>5, <3>1 DEF ActiveExits
    <3> QED
      BY <2>5, <3>1, <3>2 DEF Keeps, Known, Named
  <2>6. ASSUME NEW id \in NewNames, NEW n, x \in NewNames, adv'[x] = ExitTo(id, n)
        PROVE  /\ x \in Known \cup NewNames
               /\ adv'[x].link \in Known \cup NewNames
               /\ ActiveExits(adv'[x]) \subseteq Known \cup NewNames
    <3>1. adv'[x].link = id /\ adv'[x].active = <<0, 0>>
      BY <2>6 DEF ExitTo, Condition
    <3>2. ActiveExits(adv'[x]) = {}
      BY <3>1 DEF ActiveExits
    <3> QED
      BY <2>6, <3>1, <3>2
  <2>7. CASE /\ ConcludeTarget
             /\ DOMAIN adv' = DOMAIN adv \cup {cur.id, last_id + 1}
             /\ adv'[cur.id] = ExitTo(last_id + 1, 0)
             /\ adv'[last_id + 1] = ExitTo(cur.id, Ticks)
             /\ Told(<<last_id + 1, cur.id>>)
    <3>1. <<last_id + 1, cur.id>> \in Nat \X Nat
      BY <2>7, LastIdFacts, LinkIsCond DEF ConcludeTarget
    <3>2. {last_id + 1, cur.id} \subseteq NewNames
      BY <2>7 DEF NewNames
    <3> QED
      BY <2>5, <2>6, <2>7, <3>1, <3>2
  <2>8. CASE /\ InsertTrailingStop
             /\ DOMAIN adv' = DOMAIN adv \cup {cur.id}
             /\ adv'[cur.id] = ExitTo(0, cur.p1.stop)
             /\ Told(<<cur.id, 0>>)
    <3>1. <<cur.id, 0>> \in Nat \X Nat
      BY <2>8, LinkIsCond DEF InsertTrailingStop
    <3>2. {cur.id, 0} \subseteq NewNames
      BY DEF NewNames
    <3> QED
      BY <2>5, <2>6, <2>8, <3>1, <3>2
  <2> QED
    BY <2>1, <2>3, <2>4, <2>7, <2>8, EntryChanges DEF Entries
<1> QED
  BY <1>1, <1>2 DEF Named

LEMMA CacheAfter ==
    ASSUME AdvIInv, WholeNext
    PROVE  \/ DOMAIN id_cache' \subseteq DOMAIN id_cache
           \/ /\ Settle \/ RouteToStops
              /\ cur.sz > 0
              /\ DOMAIN id_cache' \subseteq DOMAIN id_cache \cup {cur.id}
           \/ ConcludeTarget /\ DOMAIN id_cache' \subseteq DOMAIN id_cache \cup {last_id + 1}
           \/ InsertTrailingStop /\ DOMAIN id_cache' \subseteq DOMAIN id_cache \cup {cur.id}
           \/ PlaceTrailingStop /\ DOMAIN id_cache' \subseteq Known
<1>1. PlaceTrailingStop => held.id \in Known
  BY DEF AdvIInv, Links, HeldIds, HeldOrders, PlaceTrailingStop, Known, Named
<1>2. RouteToStops => cur.sz > 0
  BY CurFacts DEF RouteToStops, AdvIInv, AdvControl, Between
<1> QED
  BY <1>1, <1>2, EntriesOfCache DEF CacheEntries, Joins, Known

LEMMA KnownTypes ==
    ASSUME AdvIInv
    PROVE  Known \subseteq Nat
<1>1. /\ DOMAIN id_cache \subseteq Nat /\ DOMAIN adv \subseteq Nat
      /\ \A x \in DOMAIN adv : adv[x].link \in Nat /\ adv[x].active \in Nat \X Nat
  BY CacheFacts DEF AdvIInv, AdvTypes, CondTypes, CondElem
<1>2. \A x \in DOMAIN adv : ActiveExits(adv[x]) \subseteq Nat
  BY <1>1 DEF ActiveExits
<1>3. Trails \subseteq Nat
  BY DEF AdvIInv, AdvTypes, CondTypes, Trails
<1> QED
  BY <1>1, <1>2, <1>3 DEF Known, Named

LEMMA KnownAfter ==
    ASSUME AdvIInv, WholeNext
    PROVE  /\ Known' \subseteq Known \cup {0, cur.id, last_id + 1}
           /\ last_id + 1 \in Known' => ConcludeTarget
           /\ \A id \in Known' : id <= last_id'
           /\ cur.id \in Known' => cur.id \in Known \/ Concludes \/ Settle \/ RouteToStops
<1>1. /\ last_id \in Nat /\ (\A id \in Known : id <= last_id)
      /\ last_id' \in Nat /\ last_id' >= last_id
  BY LastIdFacts, OrdersFitStep
<1>2. Settle \/ RouteToStops => cur # NoOrder
  BY CurFacts DEF Settle, RouteToStops, Between
<1>3. Concludes \/ Settle \/ RouteToStops => cur.id <= last_id /\ cur.id \in Nat
  <2>1. Concludes \/ Settle \/ RouteToStops => cur # NoOrder
    BY <1>2, ConcludesEnds
  <2> QED
    BY <2>1, CurIsNotNamed DEF AdvElem
<1>4. ConcludeTarget => last_id' = last_id + 1
  BY DEF ConcludeTarget
<1>5. Named' \subseteq Named \/ (Concludes /\ Named' \subseteq Known \cup NewNames)
  BY NamedStays, NamedAfter
<1> DEFINE New == IF ConcludeTarget THEN {0, cur.id, last_id + 1}
                  ELSE IF Concludes \/ Settle \/ RouteToStops THEN {0, cur.id} ELSE {}
<1>6. Known' \subseteq Known \cup New
  <2>1. DOMAIN id_cache' \subseteq Known \cup New
    BY CacheAfter DEF Concludes, Known
  <2>2. Named' \subseteq Known \cup New
    BY <1>5 DEF NewNames, Concludes, Known
  <2> QED
    BY <2>1, <2>2 DEF Known
<1>7. \A id \in New : id <= last_id'
  BY <1>1, <1>3, <1>4 DEF Concludes
<1>8. \A id \in Known : id <= last_id' /\ id # last_id + 1
  BY <1>1, KnownTypes
<1>9. last_id + 1 \in New => ConcludeTarget
  BY <1>1, <1>3
<1>10. cur.id \in New => Concludes \/ Settle \/ RouteToStops
  BY DEF Concludes
<1> HIDE DEF New
<1>11. New \subseteq {0, cur.id, last_id + 1}
  BY DEF New
<1> QED
  BY <1>6, <1>7, <1>8, <1>9, <1>10, <1>11

\* cur stays cur until its condition has been handled.
LEMMA ConditionEnds ==
    ASSUME AdvIInv, WholeNext, pc = "condition"
    PROVE  cur' = NoOrder \/ (InjectSecond /\ pc' = "route")
BY DEF WholeNext, AdvClient, WholeWindow, InsertAdvOrder, PullAdvOrder, ReplaceAdvOrder,
       PullLinkedOrder,
       RouteToBook, RouteToStops, Match, CancelOther, TriggerOther, GrowExits, IssueExits,
       ShrinkOtherExit, Reduce, LeaveLoop, LiftTrailingStop, PlaceTrailingStop, LeaveTrade,
       TakeBuyChain, TakeSellChain, TakeChain, CancelForStop, TriggerHead, EndChain, Handling,
       EndBuyScan, EndSellScan, Settle, ThrowUnfilled, ConcludeBasic, ConcludeOto, InjectSecond,
       ConcludeOco, ConcludeEntry, ConcludeTarget, ConcludeTargetAlone, InsertTrailingStop,
       NextInternal, CloseWindow, Done, Abort

LEMMA IdleKeepsQueue ==
    ASSUME AdvIInv, WholeNext, pc = "idle"
    PROVE  UNCHANGED internal_queue /\ ~ Concludes
BY DEF WholeNext, AdvClient, WholeWindow, InsertAdvOrder, PullAdvOrder, ReplaceAdvOrder,
       PullLinkedOrder,
       RouteToBook, RouteToStops, Match, CancelOther, TriggerOther, GrowExits, IssueExits,
       ShrinkOtherExit, Reduce, LeaveLoop, LiftTrailingStop, PlaceTrailingStop, LeaveTrade,
       TakeBuyChain, TakeSellChain, TakeChain, CancelForStop, TriggerHead, EndChain, Handling,
       EndBuyScan, EndSellScan, Settle, ThrowUnfilled, ConcludeBasic, ConcludeOto, InjectSecond,
       ConcludeOco, ConcludeEntry, ConcludeTarget, ConcludeTargetAlone, InsertTrailingStop,
       NextInternal, CloseWindow, Concludes

LEMMA CurFreshStep ==
    ASSUME AdvIInv, WholeNext
    PROVE  CurIsFresh'
<1>1. /\ last_id \in Nat /\ last_id' \in Nat /\ last_id' >= last_id
      /\ Known \subseteq Nat /\ (\A id \in Known : id <= last_id)
  BY LastIdFacts, OrdersFitStep, KnownTypes
<1>2. ASSUME cur # NoOrder, cur' # NoOrder, cur'.id = cur.id, cur'.parent = cur.parent,
             cur'.cond = cur.cond, cur'.sz = 0 => cur.sz = 0 \/ Match
      PROVE  CurIsFresh'
  <2>1. (~ Concludes /\ pc # "condition") \/ InjectSecond
    BY <1>2, ConcludesEnds, ConditionEnds
  <2>2. ~ InjectSecond
    <3>1. InjectSecond => cur'.id = last_id + 1 \/ cur' = NoOrder
      BY DEF InjectSecond, Done, Elem
    <3>2. cur.id # last_id + 1
      BY <1>1, <1>2, CurIsNotNamed DEF AdvElem
    <3> QED
      BY <1>2, <3>1, <3>2
  <2>3. /\ cur.id \notin Named
        /\ cur.id <= last_id /\ cur.parent <= last_id
        /\ cur.id \in Nat \ {0} /\ cur.parent \in Nat
        /\ cur.cond = "oco_second" => cur.parent \notin DOMAIN adv /\ cur.parent # cur.id
    BY <1>2, CurIsNotNamed DEF AdvElem
  <2>4. cur.id \notin DOMAIN id_cache
    BY <1>2, <2>1, <2>2 DEF AdvIInv, Fresh, CurIsFresh
  <2>5. Dropped /\ Named' \subseteq Named
    BY <2>1, <2>2, NamedStays
  <2>6. pc' # "condition" \/ cur'.sz = 0 => cur.id \notin DOMAIN id_cache'
    <3>1. Settle \/ RouteToStops => pc' = "condition" /\ UNCHANGED cur
      BY DEF Settle, RouteToStops
    <3>2. ~ (Settle \/ RouteToStops) => cur.id \notin DOMAIN id_cache'
      BY <2>1, <2>2, <2>3, <2>4, <2>5, CacheAfter DEF Concludes, Known
    <3>3. ASSUME Settle \/ RouteToStops, cur'.sz = 0
          PROVE  cur.id \notin DOMAIN id_cache'
      <4>1. cur.sz = 0
        BY <3>1, <3>3
      <4>2. pc # "adjust"
        BY <3>3 DEF Settle, RouteToStops
      <4> QED
        BY <2>1, <2>2, <2>4, <4>1, <4>2, CacheAfter DEF Concludes, PlaceTrailingStop
    <3> QED
      BY <3>1, <3>2, <3>3
  <2>7. DOMAIN adv' \subseteq DOMAIN adv
    BY <2>5 DEF Dropped
  <2> QED
    BY <1>1, <1>2, <2>3, <2>5, <2>6, <2>7 DEF CurIsFresh
<1>3. CASE cur' = cur
  BY <1>2, <1>3 DEF CurIsFresh
<1>4. CASE cur' = NoOrder
  BY <1>4 DEF CurIsFresh
<1>5. CASE Match /\ cur' = [cur EXCEPT !.sz = @ - hit']
  <2>1. cur # NoOrder /\ cur \in AdvElem
    BY <1>5, CurFacts DEF Match, Between
  <2>2. cur'.id = cur.id /\ cur'.parent = cur.parent /\ cur'.cond = cur.cond
    BY <1>5, <2>1 DEF AdvElem
  <2> QED
    BY <1>2, <1>4, <1>5, <2>1, <2>2
<1>6. ASSUME NEW c, cur' = c, c.id = last_id + 1, last_id' = last_id + 1, c.parent <= last_id,
             c.parent \in Nat, UNCHANGED adv \/ pc = "idle", ~ Concludes,
             pc \in {"idle", "condition"},
             c.cond = "oco_second" => c.parent \notin DOMAIN adv
      PROVE  CurIsFresh'
  <2>1. last_id + 1 \notin Known'
    BY <1>6, KnownAfter DEF Concludes
  <2>2. DOMAIN adv' \subseteq DOMAIN adv
    BY <1>6, NamedStays DEF Dropped
  <2> QED
    BY <1>1, <1>6, <2>1, <2>2 DEF CurIsFresh, Known
<1>7. CASE /\ pc = "idle"
           /\ last_id' = last_id + 1
           /\ \E e \in AdvOrders : /\ Accepted(e)
                                   /\ cur' = [WithParams(e) EXCEPT !.id = last_id + 1]
  <2>1. /\ cur'.id = last_id + 1 /\ cur'.parent = 0 /\ cur'.cond \in Conditions
    BY <1>7, ClientCur
  <2>2. cur'.cond # "oco_second"
    BY <2>1 DEF Conditions
  <2>3. cur'.parent \in Nat /\ cur'.parent <= last_id
    BY <1>1, <2>1
  <2>4. cur'.id = last_id + 1
    BY <2>1
  <2> QED
    BY <1>6, <1>7, <2>2, <2>3, <2>4, IdleKeepsQueue
<1>8. CASE InjectSecond /\ last_id' = last_id + 1
           /\ cur' = Elem(cur.p1, last_id + 1, "oco_second", cur.trig, NoParam, NoParam, cur.id)
  <2>1. /\ cur'.id = last_id + 1 /\ cur'.parent = cur.id /\ pc = "condition" /\ UNCHANGED adv
        /\ cur.cond = "oco"
    BY <1>8 DEF Elem, InjectSecond, adv_vars
  <2>2. cur' # NoOrder
    BY <1>8, <2>1, SecondCur
  <2>3. ~ Concludes
    BY <2>2, ConcludesEnds
  <2>4. cur # NoOrder
    BY <2>1, CurFacts DEF Between
  <2>5. cur.id \notin DOMAIN adv /\ cur.id <= last_id /\ cur.id \in Nat
    BY <2>4, CurIsNotNamed DEF AdvElem
  <2> QED
    BY <1>6, <1>8, <2>1, <2>3, <2>5
<1>9. CASE NextInternal /\ UNCHANGED adv_vars
  <2>1. internal_queue # <<>>
        /\ cur' = Head(internal_queue) /\ UNCHANGED <<id_cache, adv, trailing>>
        /\ UNCHANGED last_id
    BY <1>9 DEF NextInternal, adv_vars, book
  <2>2. Head(internal_queue) = internal_queue[1] /\ 1 \in 1 .. Len(internal_queue)
    BY <2>1, NextCur
  <2>3. /\ cur'.id <= last_id /\ cur'.parent <= last_id /\ cur'.id \notin Known
        /\ cur'.cond # "oco_second"
    BY <2>1, <2>2 DEF AdvIInv, Fresh, QueueIsFresh
  <2>4. Named' = Named
    BY <2>1 DEF Named, Trails
  <2> QED
    BY <2>1, <2>3, <2>4 DEF CurIsFresh, Known
<1> QED
  BY <1>3, <1>4, <1>5, <1>7, <1>8, <1>9, CurChanges DEF CurSteps

LEMMA QueueFreshStep ==
    ASSUME AdvIInv, WholeNext
    PROVE  QueueIsFresh'
<1>1. /\ last_id \in Nat /\ last_id' \in Nat /\ last_id' >= last_id
      /\ Known \subseteq Nat /\ (\A id \in Known : id <= last_id)
  BY LastIdFacts, OrdersFitStep, KnownTypes
<1>2. internal_queue \in Seq(AdvElem) /\ QueueIsFresh
  BY DEF AdvIInv, AdvTypes, Fresh
<1>3. \A i \in 1 .. Len(internal_queue) :
          /\ internal_queue[i].id \in Nat \ {0}
          /\ internal_queue[i].id <= last_id
          /\ internal_queue[i].parent \in Nat
          /\ internal_queue[i].parent <= last_id
          /\ internal_queue[i].id \notin Known
          /\ cur # NoOrder => internal_queue[i].id # cur.id
          /\ internal_queue[i].cond # "oco_second"
  <2>1. \A i \in 1 .. Len(internal_queue) : internal_queue[i] \in AdvElem
    BY <1>2, ElementOfSeq
  <2> QED
    BY <1>2, <2>1 DEF QueueIsFresh, AdvElem
<1>4. cur' # NoOrder => \/ cur'.id = last_id + 1 /\ (pc = "idle" \/ InjectSecond)
                        \/ cur # NoOrder /\ cur'.id = cur.id
                        \/ NextInternal /\ UNCHANGED adv_vars
  <2>1. CASE cur' = cur
    BY <2>1
  <2>2. CASE Match /\ cur' = [cur EXCEPT !.sz = @ - hit']
    <3>1. cur # NoOrder /\ cur \in AdvElem
      BY <2>2, CurFacts DEF Match, Between
    <3> QED
      BY <2>2, <3>1 DEF AdvElem
  <2>3. CASE /\ pc = "idle"
             /\ last_id' = last_id + 1
             /\ \E e \in AdvOrders : /\ Accepted(e)
                                     /\ cur' = [WithParams(e) EXCEPT !.id = last_id + 1]
    BY <2>3, ClientCur
  <2>4. CASE InjectSecond
             /\ cur' = Elem(cur.p1, last_id + 1, "oco_second", cur.trig, NoParam, NoParam, cur.id)
    BY <2>4 DEF Elem
  <2> QED
    BY <2>1, <2>2, <2>3, <2>4, CurChanges DEF CurSteps
<1>10. \A id \in Known' : \/ id \in Known \/ id = 0 \/ id = last_id + 1
                         \/ (cur # NoOrder /\ id = cur.id)
  <2>1. Known' \subseteq Known \cup {0, cur.id, last_id + 1}
    BY KnownAfter
  <2>2. cur.id \in Known' => cur.id \in Known \/ cur # NoOrder
    <3>1. Settle \/ RouteToStops => cur # NoOrder
      BY CurFacts DEF Settle, RouteToStops, Between
    <3> QED
      BY <3>1, KnownAfter, ConcludesEnds
  <2> QED
    BY <2>1, <2>2
<1>5. \A i \in 1 .. Len(internal_queue) : internal_queue[i].id \notin Known'
  BY <1>1, <1>3, <1>10
<1>6. CASE UNCHANGED internal_queue
  <2>1. ~ NextInternal
    BY <1>1, <1>2, <1>6, NextCur DEF NextInternal
  <2>2. \A i \in 1 .. Len(internal_queue) : cur' # NoOrder => internal_queue[i].id # cur'.id
    BY <1>1, <1>3, <1>4, <2>1
  <2> QED
    BY <1>1, <1>2, <1>3, <1>5, <1>6, <2>2 DEF QueueIsFresh
<1>7. CASE internal_queue' = <<>>
  BY <1>7 DEF QueueIsFresh, Unlike
<1>8. CASE NextInternal /\ UNCHANGED adv_vars
  <2>1. /\ internal_queue # <<>> /\ cur' = Head(internal_queue)
        /\ internal_queue' = Tail(internal_queue)
        /\ UNCHANGED last_id
    BY <1>8 DEF NextInternal
  <2>2. /\ Head(internal_queue) = internal_queue[1]
        /\ 1 \in 1 .. Len(internal_queue) /\ Len(internal_queue) \in Nat
        /\ Len(internal_queue') = Len(internal_queue) - 1
        /\ \A i \in 1 .. Len(internal_queue') :
               /\ i + 1 \in 1 .. Len(internal_queue)
               /\ internal_queue'[i] = internal_queue[i + 1]
    BY <1>2, <2>1, NextCur, LenProperties
  <2>3. Unlike(internal_queue')
    BY <1>2, <2>2 DEF QueueIsFresh, Unlike
  <2>4. \A i \in 1 .. Len(internal_queue') : internal_queue'[i].id # cur'.id
    <3>1. \A i \in 1 .. Len(internal_queue') : i + 1 # 1 /\ i + 1 \in 1 .. Len(internal_queue)
      BY <2>2
    <3> QED
      BY <1>2, <2>1, <2>2, <3>1 DEF QueueIsFresh, Unlike
  <2> QED
    BY <1>3, <1>5, <2>1, <2>2, <2>3, <2>4 DEF QueueIsFresh
<1>9. ASSUME NEW es, Issuable(es), Push(es), internal_queue' # internal_queue
      PROVE  QueueIsFresh'
  <2> DEFINE q == internal_queue
             n == Len(internal_queue)
  <2>1. /\ es \in Seq(AdvElem) /\ Len(es) \in Nat /\ n \in Nat
        /\ q' = q \o es /\ last_id' = last_id + Len(es)
        /\ Len(q') = n + Len(es)
        /\ \A i \in 1 .. n + Len(es) : q'[i] = IF i <= n THEN q[i] ELSE es[i - n]
    BY <1>2, <1>9, ConcatProperties, LenProperties DEF Push, Issuable
  <2>2. ~ NextInternal /\ ~ ConcludeTarget /\ pc # "idle" /\ ~ InjectSecond /\ ~ Match
    BY <1>9, IdleKeepsQueue DEF ConcludeTarget, InjectSecond, Match, NextInternal, Push
  <2>3. \A j \in 1 .. Len(es) :
            /\ es[j].id = last_id + j /\ es[j].parent <= last_id
            /\ es[j].cond # "oco_second" /\ es[j].parent \in Nat
    <3>1. \A j \in 1 .. Len(es) : es[j] \in AdvElem
      BY <2>1, ElementOfSeq
    <3> QED
      BY <1>9, <3>1 DEF Issuable, Good, AdvElem
  <2>4. \A id \in Known' : id <= last_id
    <3>1. last_id + 1 \notin Known'
      BY <2>2, KnownAfter
    <3>2. cur # NoOrder => cur.id <= last_id
      BY CurIsNotNamed
    <3>3. \A id \in Known' : id \in Known \/ id = 0 \/ (cur # NoOrder /\ id = cur.id)
      BY <1>10, <3>1
    <3>4. 0 <= last_id
      BY <1>1
    <3>5. \A id \in Known : id <= last_id
      BY <1>1
    <3> QED
      BY <3>2, <3>3, <3>4, <3>5, Zenon
  <2>5. cur' # NoOrder => cur # NoOrder /\ cur'.id = cur.id /\ cur.id <= last_id /\ cur.id \in Nat
    BY <1>4, <2>2, CurIsNotNamed DEF AdvElem
  <2>6. ASSUME NEW i \in 1 .. Len(q')
        PROVE  /\ q'[i].id <= last_id' /\ q'[i].parent <= last_id'
               /\ q'[i].id \notin Known'
               /\ cur' # NoOrder => q'[i].id # cur'.id
               /\ q'[i].cond # "oco_second"
    <3>1. CASE i <= n
      <4>1. q'[i] = q[i] /\ i \in 1 .. n
        BY <2>1, <2>6, <3>1
      <4> QED
        BY <1>1, <1>3, <1>5, <2>1, <2>5, <4>1
    <3>2. CASE i > n
      <4>1. q'[i] = es[i - n] /\ i - n \in 1 .. Len(es)
        BY <2>1, <2>6, <3>2
      <4>2. q'[i].id = last_id + (i - n) /\ q'[i].parent <= last_id /\ q'[i].parent \in Nat
        BY <2>3, <4>1
      <4>3. q'[i].id \notin Known'
        <5>1. last_id + (i - n) > last_id
          BY <1>1, <2>1, <4>1
        <5> QED
          BY <1>1, <2>4, <4>2, <5>1
      <4>4. cur' # NoOrder => q'[i].id # cur'.id
        BY <1>1, <2>1, <2>5, <4>1, <4>2
      <4>5. q'[i].cond # "oco_second"
        BY <2>3, <4>1
      <4>6. q'[i].id <= last_id' /\ q'[i].parent <= last_id'
        BY <1>1, <2>1, <4>1, <4>2
      <4> QED
        BY <4>3, <4>4, <4>5, <4>6
    <3> QED
      BY <2>1, <3>1, <3>2
  <2>7. Unlike(q')
    <3>1. ASSUME NEW i \in 1 .. Len(q'), NEW j \in 1 .. Len(q'), q'[i].id = q'[j].id
          PROVE  i = j
      <4>1. \A k \in 1 .. Len(q') : /\ k <= n => /\ q'[k] = q[k] /\ k \in 1 .. n
                                                 /\ q'[k].id <= last_id
                                    /\ k > n => q'[k].id = last_id + (k - n)
        <5>1. ASSUME NEW k \in 1 .. Len(q'), k > n
              PROVE  q'[k].id = last_id + (k - n)
          <6>1. q'[k] = es[k - n] /\ k - n \in 1 .. Len(es)
            BY <2>1, <5>1
          <6> QED
            BY <2>3, <6>1
        <5> QED
          BY <1>3, <2>1, <5>1
      <4>2. CASE i <= n /\ j <= n
        BY <1>2, <3>1, <4>1, <4>2 DEF QueueIsFresh, Unlike
      <4>3. CASE i > n /\ j > n
        BY <1>1, <2>1, <3>1, <4>1, <4>3
      <4>4. CASE i <= n /\ j > n
        <5>1. q'[i].id <= last_id /\ q'[j].id = last_id + (j - n) /\ j - n > 0
          BY <2>1, <4>1, <4>4
        <5> QED
          BY <1>1, <2>1, <3>1, <5>1
      <4>5. CASE i > n /\ j <= n
        <5>1. q'[j].id <= last_id /\ q'[i].id = last_id + (i - n) /\ i - n > 0
          BY <2>1, <4>1, <4>5
        <5> QED
          BY <1>1, <2>1, <3>1, <5>1
      <4> QED
        BY <2>1, <4>2, <4>3, <4>4, <4>5
    <3> QED
      BY <3>1 DEF Unlike
  <2> QED
    BY <2>6, <2>7 DEF QueueIsFresh
<1> QED
  BY <1>6, <1>7, <1>8, <1>9, QueueChanges DEF QueueSteps

LEMMA FreshStep ==
    ASSUME AdvIInv, WholeNext
    PROVE  Fresh'
BY KnownAfter, CurFreshStep, QueueFreshStep DEF Fresh

LEMMA NewDoesNotStand ==
    ASSUME AdvIInv, NEW id, id \notin DOMAIN id_cache, held # NoHold => held.id # id
    PROVE  \A b \in Standing : b.id # id
<1>1. \A l \in Levels : /\ \A d \in ToSet(limits[l]) : d.id # id
                        /\ \A d \in ToSet(stops[l]) : d.id # id
  BY NewIsNowhere
<1>2. \A d \in ToSet(cchain) : d.id # id
  BY NewIsNowhere
<1>3. \A d \in HeldOrders : d.id # id
  BY DEF HeldOrders
<1> QED
  BY <1>1, <1>2, <1>3 DEF Standing, LimitOrders, StopOrders

LEMMA CurStandsStep ==
    ASSUME AdvIInv, WholeNext
    PROVE  CurStands'
<1>1. SUFFICES ASSUME pc' = "condition", cur'.sz > 0
               PROVE  CurStands'
  BY DEF CurStands
<1>2. /\ RouteToStops \/ Settle
      /\ pc \in {"route", "settle"}
      /\ cur' = cur /\ cur.sz > 0
  BY <1>1, IntoPlaces DEF RouteToStops, Settle
<1>3. cur.id \notin DOMAIN id_cache /\ held = NoHold
  BY <1>2, CurIsNew
<1>4. \A b \in Standing : b.id # cur.id
  BY <1>3, NewDoesNotStand
<1>5. CASE RouteToStops
  <2>1. /\ LimitOrders' \subseteq LimitOrders
        /\ StopOrders' \subseteq StopOrders \cup {StopBndlOfCur}
    BY <1>5, StandingChanges
    DEF StandingClasses, RouteToStops, Settle, ConcludeTarget, InsertTrailingStop, SizedBy,
        GrowExits, ShrinkOtherExit, Reduce
  <2>2. cur.type = "stop" /\ Emplace(cur.id, [type |-> "stop", p |-> cur.stop])
    BY <1>5, RouteFacts DEF RouteToStops, JoinsStop, StopBndlOfCur
  <2>3. cur.id \in DOMAIN id_cache' /\ id_cache'[cur.id] = [type |-> "stop", p |-> cur.stop]
    BY <1>3, <2>2, EmplaceFacts
  <2>4. \A b \in Standing' : b.id = cur.id => b = StopBndlOfCur
    BY <1>4, <2>1 DEF Standing
  <2>5. StopBndlOfCur.sz = cur.sz /\ StopBndlOfCur.limit = cur.limit
    BY DEF StopBndlOfCur
  <2> QED
    BY <1>2, <2>2, <2>3, <2>4, <2>5 DEF CurStands, Standing
<1>6. CASE Settle
  <2>1. /\ LimitOrders' \subseteq LimitOrders \cup {RestBndl}
        /\ StopOrders' \subseteq StopOrders
    BY <1>6, StandingChanges
    DEF StandingClasses, RouteToStops, Settle, ConcludeTarget, InsertTrailingStop, SizedBy,
        GrowExits, ShrinkOtherExit, Reduce
  <2>2. cur.type = "limit" /\ Emplace(cur.id, [type |-> "limit", p |-> cur.limit])
    BY <1>2, <1>6 DEF Settle
  <2>3. cur.id \in DOMAIN id_cache' /\ id_cache'[cur.id] = [type |-> "limit", p |-> cur.limit]
    BY <1>3, <2>2, EmplaceFacts
  <2>4. /\ \A b \in Standing' : b.id = cur.id => b = RestBndl
        /\ \A b \in StopOrders' : b.id # cur.id
    BY <1>4, <2>1 DEF Standing
  <2>5. RestBndl.sz = cur.sz
    BY DEF RestBndl
  <2> QED
    BY <1>2, <2>2, <2>3, <2>4, <2>5 DEF CurStands
<1> QED
  BY <1>2, <1>5, <1>6

-----------------------------------------------------------------------------
(* The links.                                                               *)

LEMMA LinksFacts ==
    ASSUME AdvIInv
    PROVE  /\ DOMAIN adv \subseteq DOMAIN id_cache \cup HeldIds
           /\ HeldIds \subseteq Trails
           /\ \A x \in DOMAIN adv : x \notin Gone
           /\ pc # "adjust" => DOMAIN adv \subseteq DOMAIN id_cache
           /\ \A x \in DOMAIN adv : Linked(adv[x].cond) /\ pc # "pull_linked" =>
                  Mutual(x) \/ adv[x].link \in Gone
<1>1. Links
  BY DEF AdvIInv
<1>2. pc # "adjust" => HeldIds = {}
  BY NothingHeld
<1> QED
  BY <1>1, <1>2 DEF Links, LinksHold, Gone

\* The steps that take a condition away.
Drops ==
    \/ \E id \in DOMAIN id_cache : PullAdvOrder(id)
    \/ \E id \in DOMAIN id_cache, e \in AdvOrders : ReplaceAdvOrder(id, e)
    \/ PullLinkedOrder \/ CancelOther \/ TriggerOther \/ Reduce \/ PlaceTrailingStop
    \/ CancelForStop \/ TriggerHead \/ ConcludeOco

LEMMA OthersKeepConditions ==
    ASSUME AdvIInv, WholeNext
    PROVE  DOMAIN adv \subseteq DOMAIN adv' \/ Drops
<1>1. CASE \E e \in AdvOrders : InsertAdvOrder(e)
  BY <1>1 DEF InsertAdvOrder, adv_vars
<1>2. CASE RouteToBook \/ RouteToStops \/ Match \/ GrowExits \/ IssueExits \/ ShrinkOtherExit
           \/ LeaveLoop \/ LeaveTrade \/ EndChain \/ LiftTrailingStop \/ TakeBuyChain
           \/ TakeSellChain
  BY <1>2
  DEF RouteToBook, RouteToStops, Match, GrowExits, IssueExits, ShrinkOtherExit, LeaveLoop,
      LeaveTrade, EndChain, LiftTrailingStop, TakeBuyChain, TakeSellChain, TakeChain, adv_vars
<1>3. CASE (EndBuyScan \/ EndSellScan \/ NextInternal \/ CloseWindow) /\ UNCHANGED adv_vars
  BY <1>3 DEF adv_vars
<1>4. CASE Settle \/ ThrowUnfilled \/ ConcludeBasic \/ InjectSecond \/ ConcludeTargetAlone
  BY <1>4
  DEF Settle, ThrowUnfilled, ConcludeBasic, InjectSecond, ConcludeTargetAlone, adv_vars
<1>5. CASE ConcludeOto
  BY <1>5 DEF ConcludeOto, SetAdv
<1>6. CASE ConcludeEntry
  BY <1>6 DEF ConcludeEntry, SetAdv
<1>7. CASE ConcludeTarget
  BY <1>7 DEF ConcludeTarget, Tell
<1>8. CASE InsertTrailingStop
  BY <1>8 DEF InsertTrailingStop, Tell
<1> QED
  BY <1>1, <1>2, <1>3, <1>4, <1>5, <1>6, <1>7, <1>8 DEF WholeNext, AdvClient, WholeWindow, Drops

LEMMA PullDrops ==
    ASSUME NEW id, NEW drop, PullAnd(id, drop)
    PROVE  /\ DOMAIN adv' = DOMAIN adv \ (drop \cup (IF id \in DOMAIN id_cache THEN {id} ELSE {}))
           /\ id \in DOMAIN id_cache \/ UNCHANGED <<id_cache, trailing>>
BY DropFacts DEF PullAnd, book

LEMMA PullDropsOne ==
    ASSUME NEW id, PullAnd(id, {})
    PROVE  \A y \in DOMAIN adv : y \in DOMAIN adv' \/ y = id
<1>1. CASE id \in DOMAIN id_cache
  <2>1. DropAdv({} \cup {id})
    BY <1>1 DEF PullAnd
  <2>2. DOMAIN adv' = DOMAIN adv \ ({} \cup {id})
    BY <2>1, DropFacts, Zenon
  <2> QED
    BY <2>2
<1>2. CASE id \notin DOMAIN id_cache
  BY <1>2, DropFacts DEF PullAnd
<1> QED
  BY <1>1, <1>2

\* The order in front that has been filled was linked with nothing, or the
\* order it was linked with has been pulled.
LEMMA FilledFrontIsNotLinked ==
    ASSUME AdvIInv, Reduce, hit = FrontOrder.sz, FrontOrder.id \in DOMAIN adv
    PROVE  ~ Linked(adv[FrontOrder.id].cond)
<1>1. CASE pc = "reduce"
  BY <1>1 DEF AdvIInv, FrontMatches, AdvOf
<1>2. CASE pc = "matched" /\ ~ Triggers
  BY <1>2 DEF Triggers, AdvOf, Linked
<1> QED
  BY <1>1, <1>2 DEF Reduce

LEMMA BreaksLink ==
    ASSUME AdvIInv, WholeNext, NEW x \in DOMAIN adv, x \in DOMAIN adv', Linked(adv[x].cond),
           Mutual(x), adv[x].link \notin DOMAIN adv'
    PROVE  \/ adv[x].link \in Trails' \ (DOMAIN id_cache' \cup HeldIds')
           \/ pc' = "pull_linked" /\ hit' = x
<1> DEFINE y == adv[x].link
<1>1. /\ y \in DOMAIN adv /\ y # x
      /\ adv[y].cond = adv[x].cond /\ adv[y].link = x
      /\ Linked(adv[y].cond)
      /\ AdvOf(y) = adv[y] /\ AdvOf(x) = adv[x]
  BY DEF Mutual, AdvOf
<1>2. y \notin Gone /\ x \notin Gone
  BY <1>1, LinksFacts
<1> HIDE DEF y
<1>3. y \notin DOMAIN adv'
  BY DEF y
<1>4. ASSUME NEW id \in DOMAIN id_cache, PullAnd(id, {}),
             IF Linked(AdvOf(id).cond) THEN hit' = adv[id].link /\ pc' = "pull_linked" ELSE TRUE
      PROVE  pc' = "pull_linked" /\ hit' = x
  <2>1. y = id
    BY <1>1, <1>3, <1>4, PullDropsOne
  <2> QED
    BY <1>1, <1>4, <2>1
<1>5. CASE \E id \in DOMAIN id_cache : PullAdvOrder(id)
  BY <1>4, <1>5 DEF PullAdvOrder
<1>6. CASE \E id \in DOMAIN id_cache, e \in AdvOrders : ReplaceAdvOrder(id, e)
  BY <1>4, <1>6 DEF ReplaceAdvOrder
<1>7. CASE PullLinkedOrder
  <2>1. y = hit /\ pc = "pull_linked"
    BY <1>1, <1>3, <1>7, PullDropsOne DEF PullLinkedOrder
  <2> QED
    BY <1>1, <2>1 DEF AdvIInv, Links
<1>8. ASSUME NEW f, CancelLinked(f), Linked(AdvOf(f).cond), pc \notin {"adjust", "pull_linked"}
      PROVE  FALSE
  <2>1. f \in DOMAIN adv /\ AdvOf(f) = adv[f]
    BY <1>8, LinkedFacts
  <2>2. Mutual(f) \/ adv[f].link \in Gone
    BY <1>8, <2>1, LinksFacts
  <2>3. DOMAIN adv \subseteq DOMAIN id_cache
    BY <1>8, LinksFacts
  <2>4. DOMAIN adv' = DOMAIN adv \ ({f} \cup (IF adv[f].link \in DOMAIN id_cache THEN {adv[f].link}
                                             ELSE {}))
    BY <1>8, PullDrops DEF CancelLinked
  <2>5. CASE y = f
    BY <1>1, <2>3, <2>4, <2>5
  <2>6. CASE y = adv[f].link
    BY <1>1, <1>2, <2>1, <2>2, <2>4, <2>6 DEF Mutual
  <2> QED
    BY <1>1, <1>3, <2>4, <2>5, <2>6
<1>9. CASE CancelOther
  BY <1>8, <1>9 DEF CancelOther, Cancels, Linked
<1>10. CASE CancelForStop
  BY <1>8, <1>10 DEF CancelForStop, Handling
<1>11. CASE TriggerOther
  <2>1. y = FrontOrder.id /\ AdvOf(FrontOrder.id).cond = "oto"
    BY <1>1, <1>3, <1>11, DropFacts DEF TriggerOther
  <2> QED
    BY <1>1, <2>1 DEF Linked
<1>12. CASE Reduce
  <2>1. y = FrontOrder.id /\ hit = FrontOrder.sz
    BY <1>1, <1>3, <1>12, DropFacts DEF Reduce
  <2> QED
    BY <1>1, <1>12, <2>1, FilledFrontIsNotLinked
<1>13. CASE PlaceTrailingStop
  <2>1. /\ DropAdv({held.id}) /\ UNCHANGED <<id_cache, trailing>> /\ held' = NoHold
        /\ held # NoHold
    BY <1>1, <1>3, <1>13 DEF PlaceTrailingStop, Abort
  <2>2. y = held.id
    BY <1>1, <1>3, <2>1, DropFacts
  <2>3. y \in HeldIds
    BY <2>1, <2>2 DEF HeldIds, HeldOrders
  <2>4. y \in Trails' /\ y \notin DOMAIN id_cache' /\ HeldIds' = {}
    BY <1>13, <2>1, <2>2, <2>3, LinksFacts, PlaceFacts DEF Trails, HeldIds, HeldOrders
  <2> QED
    BY <2>4 DEF y
<1>14. CASE TriggerHead
  <2>1. y = Head(cchain).id /\ ~ Linked(AdvOf(Head(cchain).id).cond)
    BY <1>1, <1>3, <1>14, DropFacts DEF TriggerHead
  <2> QED
    BY <1>1, <2>1
<1>15. CASE ConcludeOco
  <2>1. PullAnd(cur.parent, {}) \/ DOMAIN adv \subseteq DOMAIN adv'
    BY <1>15 DEF ConcludeOco, SetAdv
  <2>2. y = cur.parent
    BY <1>1, <1>3, <2>1, PullDropsOne
  <2>3. cur # NoOrder /\ cur.cond = "oco_second"
    BY <1>15, ConcludesEnds DEF Concludes, ConcludeOco
  <2> QED
    BY <1>1, <2>2, <2>3, CurIsNotNamed
<1> QED
  BY <1>1, <1>3, <1>5, <1>6, <1>7, <1>9, <1>10, <1>11, <1>12, <1>13, <1>14, <1>15,
     OthersKeepConditions DEF Drops, y

LEMMA AtAdjust ==
    ASSUME AdvIInv, WholeNext, pc = "adjust"
    PROVE  /\ LiftTrailingStop \/ PlaceTrailingStop \/ LeaveTrade
           /\ UNCHANGED trailing
BY DEF WholeNext, AdvClient, WholeWindow, InsertAdvOrder, PullAdvOrder, ReplaceAdvOrder,
       PullLinkedOrder,
       RouteToBook, RouteToStops, Match, CancelOther, TriggerOther, GrowExits, IssueExits,
       ShrinkOtherExit, Reduce, LeaveLoop, LiftTrailingStop, PlaceTrailingStop, LeaveTrade,
       TakeBuyChain, TakeSellChain, TakeChain, CancelForStop, TriggerHead, EndChain, Handling,
       EndBuyScan, EndSellScan, Settle, ThrowUnfilled, ConcludeBasic, ConcludeOto, InjectSecond,
       ConcludeOco, ConcludeEntry, ConcludeTarget, ConcludeTargetAlone, InsertTrailingStop,
       NextInternal, CloseWindow, adv_vars

LEMMA HeldAfter ==
    ASSUME AdvIInv, WholeNext
    PROVE  /\ HeldIds' \subseteq Trails'
           /\ \A id \in HeldIds' : id \in HeldIds \/ (id \in DOMAIN id_cache /\ LiftTrailingStop)
<1>1. held' # NoHold => pc = "adjust"
  <2>1. CASE held' = held
    BY <2>1, NothingHeld
  <2>2. CASE LiftTrailingStop \/ PlaceTrailingStop
    BY <2>2 DEF LiftTrailingStop, PlaceTrailingStop
  <2> QED
    BY <2>1, <2>2, PlacesStep
<1>2. CASE held' = NoHold
  BY <1>2 DEF HeldIds, HeldOrders
<1>3. CASE pc = "adjust" /\ held' # NoHold
  <2>1. UNCHANGED trailing
    BY <1>3, AtAdjust
  <2>2. Trails' = Trails
    BY <2>1 DEF Trails
  <2>3. CASE held' = held
    BY <1>3, <2>2, <2>3, LinksFacts DEF HeldIds, HeldOrders
  <2>4. CASE held' # held
    <3>1. LiftTrailingStop \/ PlaceTrailingStop
      BY <2>4, PlacesStep
    <3>2. LiftTrailingStop
      BY <1>3, <3>1, PlaceFacts
    <3>3. PICK m \in adjusting : m.id \in DOMAIN id_cache /\ held'.id = m.id
      BY <2>4, <3>2, LiftFacts
    <3>4. m.id \in Trails
      BY DEF AdvIInv, AdvTypes, Links, Trails
    <3>5. HeldIds' = {m.id}
      BY <1>3, <3>3 DEF HeldIds, HeldOrders
    <3> QED
      BY <2>2, <3>2, <3>3, <3>4, <3>5
  <2> QED
    BY <2>3, <2>4
<1> QED
  BY <1>1, <1>2, <1>3

LEMMA GoneStays ==
    ASSUME AdvIInv, WholeNext
    PROVE  Gone \subseteq Trails' \ (DOMAIN id_cache' \cup HeldIds')
<1>1. SUFFICES ASSUME NEW x \in Gone
               PROVE  x \in Trails' \ (DOMAIN id_cache' \cup HeldIds')
  OBVIOUS
<1>2. x \in Trails /\ x \notin DOMAIN id_cache /\ x \notin HeldIds /\ x \in Named /\ x \in Known
  BY DEF Gone, Named, Known
<1>3. x \notin HeldIds'
  BY <1>2, HeldAfter
<1>4. x \notin DOMAIN id_cache'
  <2>1. Settle \/ RouteToStops \/ InsertTrailingStop => cur # NoOrder
    BY CurFacts DEF Settle, RouteToStops, InsertTrailingStop, Between
  <2>2. Settle \/ RouteToStops \/ InsertTrailingStop => x # cur.id
    BY <1>2, <2>1, CurIsNotNamed
  <2>3. ConcludeTarget => x # last_id + 1
    BY <1>2, TargetFacts
  <2>4. PlaceTrailingStop => x # held.id
    BY <1>2 DEF HeldIds, HeldOrders, PlaceTrailingStop
  <2> QED
    BY <1>2, <2>2, <2>3, <2>4, EntriesOfCache DEF CacheEntries, Joins
<1>5. x \in Trails'
  <2>1. trailing \in [Sides -> SUBSET Nat]
    BY DEF AdvIInv, AdvTypes, CondTypes
  <2>2. ASSUME NEW id \in DOMAIN id_cache, NEW s, TrailingErase(id, s)
        PROVE  x \in Trails'
    BY <1>2, <2>1, <2>2 DEF TrailingErase, Trails
  <2>3. CASE ConcludeTarget
    <3>1. \/ UNCHANGED trailing
          \/ trailing' = [trailing EXCEPT ![cur.p1.side] = @ \cup {last_id + 1}]
      BY <2>3 DEF ConcludeTarget
    <3> QED
      BY <1>2, <2>1, <3>1 DEF Trails
  <2>4. CASE InsertTrailingStop
    <3>1. \/ UNCHANGED trailing
          \/ trailing' = [trailing EXCEPT ![cur.side] = @ \cup {cur.id}]
      BY <2>4 DEF InsertTrailingStop
    <3> QED
      BY <1>2, <2>1, <3>1 DEF Trails
  <2>5. CASE UNCHANGED trailing
    BY <1>2, <2>5 DEF Trails
  <2> QED
    BY <2>2, <2>3, <2>4, <2>5, AdvChanges DEF AdvSteps
<1> QED
  BY <1>2, <1>3, <1>4, <1>5

LEMMA LeavesWithCondition ==
    ASSUME AdvIInv, WholeNext, NEW x \in DOMAIN id_cache, x \notin DOMAIN id_cache'
    PROVE  x \notin DOMAIN adv' \/ x \in HeldIds'
<1>1. ASSUME NEW id, NEW drop, PullAnd(id, drop), pc # "adjust",
             UNCHANGED <<cchain, held, beg, end>>
      PROVE  x \notin DOMAIN adv'
  <2>1. CASE id \in DOMAIN id_cache
    <3>1. x = id
      BY <1>1, PullAndFacts DEF Leaves, Forgets
    <3>2. DOMAIN adv' = DOMAIN adv \ (drop \cup (IF id \in DOMAIN id_cache THEN {id} ELSE {}))
      BY <1>1, PullDrops
    <3> QED
      BY <2>1, <3>1, <3>2
  <2>2. CASE id \notin DOMAIN id_cache
    BY <1>1, <2>2, PullDrops
  <2> QED
    BY <2>1, <2>2
<1>2. ASSUME NEW id, Leaves(id), DropAdv({id})
      PROVE  x \notin DOMAIN adv'
  BY <1>2, DropFacts DEF Leaves, Forgets
<1>3. ~ UNCHANGED id_cache /\ ~ DOMAIN id_cache \subseteq DOMAIN id_cache'
  OBVIOUS
<1>4. CASE \E id \in DOMAIN id_cache : PullAdvOrder(id)
  BY <1>1, <1>4 DEF PullAdvOrder
<1>5. CASE \E id \in DOMAIN id_cache, e \in AdvOrders : ReplaceAdvOrder(id, e)
  BY <1>1, <1>5 DEF ReplaceAdvOrder
<1>6. CASE PullLinkedOrder
  BY <1>1, <1>6 DEF PullLinkedOrder
<1>7. CASE CancelOther
  BY <1>1, <1>7 DEF CancelOther, CancelLinked
<1>8. CASE CancelForStop
  BY <1>1, <1>8 DEF CancelForStop, CancelLinked, Handling
<1>9. CASE ConcludeOco
  BY <1>1, <1>3, <1>9 DEF ConcludeOco, book
<1>10. CASE TriggerHead
  BY <1>2, <1>10, TriggerFacts DEF TriggerHead
<1>11. CASE Reduce
  BY <1>2, <1>3, <1>11, ReduceFacts DEF Changes
<1>12. CASE LiftTrailingStop
  <2>1. CASE UNCHANGED <<book, pointers, held>>
    BY <1>3, <2>1 DEF book
  <2>2. CASE ~ UNCHANGED <<book, pointers, held>>
    <3>1. PICK m \in adjusting : Leaves(m.id) /\ held' \in StopBndl /\ held'.id = m.id
      BY <1>12, <2>2, LiftFacts
    <3>2. x = m.id
      BY <3>1 DEF Leaves, Forgets
    <3>4. held' # NoHold
      BY <3>1 DEF StopBndl, NoHold
    <3> QED
      BY <3>1, <3>2, <3>4 DEF HeldIds, HeldOrders
  <2> QED
    BY <2>1, <2>2
<1>13. CASE UNCHANGED id_cache
  BY <1>13
<1>14. ASSUME NEW id, NEW elem, Joins(id, elem)
       PROVE  FALSE
  BY <1>14 DEF Joins
<1>15. CASE \E e \in AdvOrders : InsertAdvOrder(e)
  BY <1>13, <1>15 DEF InsertAdvOrder, book
<1>16. CASE RouteToBook \/ Match \/ TriggerOther \/ GrowExits \/ IssueExits \/ ShrinkOtherExit
            \/ LeaveLoop \/ LeaveTrade \/ TakeBuyChain \/ TakeSellChain \/ EndChain
  BY <1>13, <1>16
  DEF RouteToBook, Match, TriggerOther, GrowExits, IssueExits, ShrinkOtherExit, LeaveLoop,
      LeaveTrade, TakeBuyChain, TakeSellChain, TakeChain, EndChain, book
<1>17. CASE (EndBuyScan \/ EndSellScan \/ NextInternal \/ CloseWindow) /\ UNCHANGED adv_vars
  BY <1>13, <1>17 DEF EndBuyScan, EndSellScan, NextInternal, CloseWindow, book
<1>18. CASE ThrowUnfilled \/ ConcludeBasic \/ ConcludeOto \/ InjectSecond \/ ConcludeEntry
            \/ ConcludeTargetAlone
  BY <1>13, <1>18
  DEF ThrowUnfilled, ConcludeBasic, ConcludeOto, InjectSecond, ConcludeEntry,
      ConcludeTargetAlone, book
<1>19. CASE Settle \/ RouteToStops \/ ConcludeTarget \/ InsertTrailingStop \/ PlaceTrailingStop
  <2>1. DOMAIN id_cache \subseteq DOMAIN id_cache'
    BY <1>19 DEF Settle, RouteToStops, ConcludeTarget, InsertTrailingStop, PlaceTrailingStop,
                 PushStop, Emplace
  <2> QED
    BY <2>1
<1> QED
  BY <1>4, <1>5, <1>6, <1>7, <1>8, <1>9, <1>10, <1>11, <1>12, <1>15, <1>16, <1>17, <1>18, <1>19
  DEF WholeNext, AdvClient, WholeWindow

LEMMA AdvStandsStep ==
    ASSUME AdvIInv, WholeNext
    PROVE  DOMAIN adv' \subseteq DOMAIN id_cache' \cup HeldIds'
<1>1. SUFFICES ASSUME NEW x \in DOMAIN adv'
               PROVE  x \in DOMAIN id_cache' \cup HeldIds'
  OBVIOUS
<1>2. CASE x \in DOMAIN id_cache
  BY <1>2, LeavesWithCondition
<1>3. CASE x \in HeldIds
  <2>1. held # NoHold /\ x = held.id /\ pc = "adjust"
    BY <1>3, NothingHeld DEF HeldIds, HeldOrders
  <2>2. CASE LiftTrailingStop
    BY <2>1, <2>2 DEF LiftTrailingStop
  <2>3. CASE LeaveTrade
    BY <1>3, <2>3 DEF LeaveTrade, adv_vars, HeldIds, HeldOrders
  <2>4. CASE PlaceTrailingStop
    <3>1. CASE DropAdv({held.id})
      BY <2>1, <3>1, DropFacts
    <3>2. ASSUME NEW p, PushStop(held, p)
          PROVE  x \in DOMAIN id_cache'
      BY <2>1, <3>2 DEF PushStop, Emplace
    <3> QED
      BY <2>4, <3>1, <3>2 DEF PlaceTrailingStop
  <2> QED
    BY <2>1, <2>2, <2>3, <2>4, AtAdjust
<1>4. CASE x \notin DOMAIN adv
  <2>1. ConcludeTarget => last_id + 1 \in DOMAIN id_cache'
    BY DEF ConcludeTarget, PushStop, Emplace
  <2>2. InsertTrailingStop /\ StopLevel(cur.p1, TRUE) \in Book => cur.id \in DOMAIN id_cache'
    BY DEF InsertTrailingStop, PushStop, Emplace
  <2>3. pc = "condition" /\ cur.sz > 0 => cur.id \in DOMAIN id_cache
    BY DEF AdvIInv, CurStands
  <2>4. CASE ConcludeOto \/ ConcludeEntry
    <3>1. UNCHANGED id_cache /\ pc = "condition"
      BY <2>4 DEF ConcludeOto, ConcludeEntry, book
    <3> QED
      BY <1>1, <1>4, <2>3, <2>4, <3>1, EntryChanges
      DEF Entries, Dropped, ConcludeOto, ConcludeEntry, ConcludeOco, ConcludeTarget,
          InsertTrailingStop, Exit
  <2>5. CASE /\ ConcludeOco
             /\ cur.parent \in DOMAIN id_cache /\ cur.sz > 0
             /\ DOMAIN adv' = DOMAIN adv \cup {cur.id, cur.parent}
    <3>1. cur # NoOrder /\ cur.cond = "oco_second" /\ pc = "condition"
      BY <2>5, ConcludesEnds DEF Concludes, ConcludeOco
    <3>2. UNCHANGED id_cache
      <4>1. cur.id \notin DOMAIN adv /\ cur.parent \notin DOMAIN adv
        BY <3>1, CurIsNotNamed
      <4>2. ~ PullAnd(cur.parent, {})
        BY <2>5, <4>1, PullDrops
      <4> QED
        BY <2>5, <4>2 DEF ConcludeOco, book
    <3> QED
      BY <1>1, <1>4, <2>3, <2>5, <3>1, <3>2
  <2>6. CASE ConcludeTarget /\ DOMAIN adv' = DOMAIN adv \cup {cur.id, last_id + 1}
    <3>1. cur.id \in DOMAIN id_cache'
      BY <2>3, <2>6 DEF ConcludeTarget, PushStop, Emplace
    <3> QED
      BY <1>1, <1>4, <2>1, <2>6, <3>1
  <2>7. CASE /\ InsertTrailingStop
             /\ StopLevel(cur.p1, TRUE) \in Book
             /\ DOMAIN adv' = DOMAIN adv \cup {cur.id}
    BY <1>1, <1>4, <2>2, <2>7
  <2> QED
    BY <1>1, <1>4, <2>4, <2>5, <2>6, <2>7, EntryChanges DEF Entries, Dropped
<1> QED
  BY <1>2, <1>3, <1>4, LinksFacts

LEMMA LinksHoldStep ==
    ASSUME AdvIInv, WholeNext
    PROVE  LinksHold'
<1>1. SUFFICES ASSUME NEW x \in DOMAIN adv', Linked(adv'[x].cond)
               PROVE  \/ /\ adv'[x].link # x
                         /\ adv'[x].link \in DOMAIN adv'
                         /\ adv'[adv'[x].link].cond = adv'[x].cond
                         /\ adv'[adv'[x].link].link = x
                      \/ adv'[x].link \in Trails' \ (DOMAIN id_cache' \cup HeldIds')
                      \/ pc' = "pull_linked" /\ hit' = x
  BY DEF LinksHold, Mutual, Gone
<1>2. CASE x \in DOMAIN adv
  <2>1. Keeps(x)
    BY <1>2, KeepsOld
  <2>2. Linked(adv[x].cond) /\ adv'[x].link = adv[x].link
    BY <1>1, <2>1 DEF Keeps, Linked
  <2>3. \/ Mutual(x)
        \/ adv[x].link \in Gone
        \/ pc = "pull_linked" /\ hit = x
    BY <1>2, <2>2 DEF AdvIInv, Links, LinksHold
  <2>4. CASE adv[x].link \in Gone
    BY <2>2, <2>4, GoneStays
  <2>5. CASE pc = "pull_linked" /\ hit = x
    <3>1. PullLinkedOrder
      BY <2>5
      DEF WholeNext, AdvClient, WholeWindow, InsertAdvOrder, PullAdvOrder, ReplaceAdvOrder,
          RouteToBook, RouteToStops, Match, CancelOther, TriggerOther, GrowExits, IssueExits,
          ShrinkOtherExit, Reduce, LeaveLoop, LiftTrailingStop, PlaceTrailingStop, LeaveTrade,
          TakeBuyChain, TakeSellChain, TakeChain, CancelForStop, TriggerHead, EndChain, Handling,
          EndBuyScan, EndSellScan, Settle, ThrowUnfilled, ConcludeBasic, ConcludeOto,
          InjectSecond, ConcludeOco, ConcludeEntry, ConcludeTarget, ConcludeTargetAlone,
          InsertTrailingStop, NextInternal, CloseWindow
    <3>2. x \in DOMAIN id_cache
      BY <1>2, <2>5, LinksFacts
    <3>3. PullAnd(hit, {})
      BY <3>1 DEF PullLinkedOrder
    <3>4. x \notin DOMAIN adv'
      BY <2>5, <3>2, <3>3, PullDrops
    <3> QED
      BY <3>4
  <2>6. CASE Mutual(x) /\ adv[x].link \notin DOMAIN adv'
    BY <1>2, <2>2, <2>6, BreaksLink
  <2>7. CASE Mutual(x) /\ adv[x].link \in DOMAIN adv'
    <3>1. Keeps(adv[x].link)
      BY <2>7, KeepsOld DEF Mutual
    <3> QED
      BY <2>1, <2>2, <2>7, <3>1 DEF Mutual, Keeps
  <2> QED
    BY <2>3, <2>4, <2>5, <2>6, <2>7
<1>3. CASE x \notin DOMAIN adv
  <2>1. CASE /\ ConcludeOto \/ ConcludeEntry
             /\ cur.sz > 0
             /\ DOMAIN adv' = DOMAIN adv \cup {cur.id}
             /\ adv'[cur.id] \in {Own, Rest}
    <3>1. adv'[x].cond = cur.cond
      <4> HIDE DEF Own, Rest
      <4> QED
        BY <1>3, <2>1, OwnIsCond
    <3> QED
      BY <1>1, <2>1, <3>1 DEF Linked, ConcludeOto, ConcludeEntry
  <2>2. CASE /\ ConcludeOco
             /\ cur.parent \in DOMAIN id_cache /\ cur.sz > 0
             /\ DOMAIN adv' = DOMAIN adv \cup {cur.id, cur.parent}
             /\ adv'[cur.id] = LinkTo(cur.parent) /\ adv'[cur.parent] = LinkTo(cur.id)
    <3>1. cur # NoOrder /\ cur.cond = "oco_second"
      BY <2>2, ConcludesEnds DEF Concludes, ConcludeOco
    <3>2. cur.id # cur.parent
      BY <3>1, CurIsNotNamed
    <3>3. \A id : LinkTo(id).link = id /\ LinkTo(id).cond = "oco"
      BY DEF LinkTo, Condition
    <3> HIDE DEF LinkTo
    <3> QED
      BY <1>3, <2>2, <3>2, <3>3
  <2>3. CASE /\ ConcludeTarget
             /\ DOMAIN adv' = DOMAIN adv \cup {cur.id, last_id + 1}
             /\ adv'[cur.id] = ExitTo(last_id + 1, 0)
             /\ adv'[last_id + 1] = ExitTo(cur.id, Ticks)
    <3>1. cur # NoOrder
      BY <2>3, ConcludesEnds DEF Concludes
    <3>2. cur.id # last_id + 1
      BY <3>1, CurIsNotNamed, LastIdFacts
    <3>3. \A id, n : ExitTo(id, n).link = id /\ ExitTo(id, n).cond = cur.cond
      BY DEF ExitTo, Condition
    <3> HIDE DEF ExitTo
    <3> QED
      BY <1>3, <2>3, <3>2, <3>3
  <2>4. CASE /\ InsertTrailingStop
             /\ DOMAIN adv' = DOMAIN adv \cup {cur.id}
             /\ adv'[cur.id] = ExitTo(0, cur.p1.stop)
    BY <1>1, <1>3, <2>4 DEF Linked, ExitTo, Condition, InsertTrailingStop, ActiveStop
  <2> QED
    BY <1>3, <2>1, <2>2, <2>3, <2>4, EntryChanges DEF Entries, Dropped
<1> QED
  BY <1>2, <1>3

LEMMA PullClauseStep ==
    ASSUME AdvIInv, WholeNext, pc' = "pull_linked", hit' \in DOMAIN adv'
    PROVE  adv'[hit'].link \notin DOMAIN adv'
<1>1. ASSUME NEW id \in DOMAIN id_cache, pc = "idle", PullAnd(id, {}),
             IF Linked(AdvOf(id).cond) THEN hit' = adv[id].link ELSE pc' # "pull_linked"
      PROVE  adv'[hit'].link \notin DOMAIN adv'
  <2>1. Linked(AdvOf(id).cond) /\ hit' = adv[id].link
    BY <1>1
  <2>2. id \in DOMAIN adv /\ AdvOf(id) = adv[id]
    BY <2>1, LinkedFacts
  <2>3. Mutual(id) \/ adv[id].link \in Gone
    BY <1>1, <2>1, <2>2, LinksFacts
  <2>4. hit' \in DOMAIN adv /\ id \notin DOMAIN adv'
    BY <1>1, PullDrops
  <2>5. Mutual(id)
    BY <2>1, <2>3, <2>4, LinksFacts
  <2>6. adv'[hit'].link = adv[hit'].link
    BY <2>4, KeepsOld DEF Keeps
  <2> QED
    BY <2>1, <2>4, <2>5, <2>6 DEF Mutual
<1>2. CASE \E id \in DOMAIN id_cache : PullAdvOrder(id)
  BY <1>1, <1>2 DEF PullAdvOrder
<1>3. CASE \E id \in DOMAIN id_cache, e \in AdvOrders : ReplaceAdvOrder(id, e)
  BY <1>1, <1>3 DEF ReplaceAdvOrder
<1> QED
  BY <1>2, <1>3, IntoPlaces

LEMMA ExitsTogetherStep ==
    ASSUME AdvIInv, WholeNext
    PROVE  ExitsTogether'
<1>1. SUFFICES ASSUME NEW e \in DOMAIN adv', NEW x \in ActiveExits(adv'[e]), x \in DOMAIN adv',
                      Exit(adv'[x].cond)
               PROVE  adv'[x].link \in ActiveExits(adv'[e])
  BY DEF ExitsTogether, ActiveExits
<1>2. ASSUME e \in DOMAIN adv, adv'[e].active = adv[e].active
      PROVE  adv'[x].link \in ActiveExits(adv'[e])
  <2>1. ActiveExits(adv'[e]) = ActiveExits(adv[e])
    BY <1>2 DEF ActiveExits
  <2>2. x \in Named /\ x \in Known
    BY <1>2, <2>1 DEF Named, Known
  <2>3. CASE x \in DOMAIN adv
    <3>1. Keeps(x)
      BY <1>1, <2>3, KeepsOld
    <3> QED
      BY <1>1, <1>2, <2>1, <2>3, <3>1 DEF AdvIInv, Links, ExitsTogether, Keeps
  <2>4. CASE x \notin DOMAIN adv
    <3>1. Concludes
      BY <1>1, <2>4, NamedStays DEF Dropped
    <3>2. x # cur.id
      BY <2>2, <3>1, ConcludesEnds, CurIsNotNamed
    <3>3. ConcludeTarget => x # last_id + 1
      BY <2>2, TargetFacts
    <3>4. adv'[x] = LinkTo(cur.id)
      BY <1>1, <2>4, <3>2, <3>3, EntryChanges DEF Entries, Dropped
    <3> QED
      BY <1>1, <3>4 DEF LinkTo, Condition, Exit
  <2> QED
    BY <2>3, <2>4
<1>3. ASSUME e \notin DOMAIN adv
      PROVE  FALSE
  <2>1. adv'[e].active = <<0, 0>>
    <3>1. \A id : LinkTo(id).active = <<0, 0>>
      BY DEF LinkTo, Condition
    <3>2. \A id, n : ExitTo(id, n).active = <<0, 0>>
      BY DEF ExitTo, Condition
    <3>5. \/ (ConcludeOto \/ ConcludeEntry) /\ adv'[e] \in {Own, Rest}
          \/ (\E id : adv'[e] = LinkTo(id))
          \/ (\E id, n : adv'[e] = ExitTo(id, n))
      <4> HIDE DEF Own, Rest, LinkTo, ExitTo
      <4> QED
        BY <1>1, <1>3, EntryChanges DEF Entries, Dropped
    <3>3. ConcludeOto \/ ConcludeEntry => \A a \in {Own, Rest} : a.active = <<0, 0>>
      BY OwnIsCond
    <3> HIDE DEF LinkTo, ExitTo, Own, Rest
    <3> QED
      BY <3>1, <3>2, <3>3, <3>5, Zenon
  <2> QED
    BY <1>1, <2>1 DEF ActiveExits
<1>4. ASSUME e \in DOMAIN adv, adv'[e].active # adv[e].active
      PROVE  adv'[x].link \in ActiveExits(adv'[e])
  <2>0. CondTypes
    BY DEF AdvIInv, AdvTypes
  <2>1. CASE /\ ConcludeTarget
             /\ adv'[cur.id] = ExitTo(last_id + 1, 0)
             /\ adv'[last_id + 1] = ExitTo(cur.id, Ticks)
             /\ Told(<<last_id + 1, cur.id>>)
    <3>1. <<last_id + 1, cur.id>> \in Nat \X Nat
      BY <2>1, LastIdFacts, LinkIsCond DEF ConcludeTarget
    <3>2. adv'[e].active = <<last_id + 1, cur.id>>
      BY <1>4, <2>0, <2>1, <3>1, ToldFacts
    <3>3. cur.id # 0 /\ last_id + 1 # 0
      BY <2>1, ConcludesEnds, LastIdFacts DEF Concludes
    <3>4. ActiveExits(adv'[e]) = {cur.id, last_id + 1}
      BY <3>2, <3>3 DEF ActiveExits
    <3>5. \A id, n : ExitTo(id, n).link = id
      BY DEF ExitTo, Condition
    <3> HIDE DEF ExitTo
    <3> QED
      BY <1>1, <2>1, <3>4, <3>5
  <2>2. CASE /\ InsertTrailingStop
             /\ adv'[cur.id] = ExitTo(0, cur.p1.stop)
             /\ Told(<<cur.id, 0>>)
    <3>1. <<cur.id, 0>> \in Nat \X Nat
      BY <2>2, LinkIsCond DEF InsertTrailingStop
    <3>2. adv'[e].active = <<cur.id, 0>>
      BY <1>4, <2>0, <2>2, <3>1, ToldFacts
    <3>3. x = cur.id
      BY <1>1, <3>2 DEF ActiveExits
    <3> QED
      BY <1>1, <2>2, <3>3 DEF ExitTo, Condition, InsertTrailingStop, ActiveStop, Exit
  <2> QED
    BY <1>4, <2>1, <2>2, EntryChanges DEF Entries, Dropped
<1> QED
  BY <1>2, <1>3, <1>4

LEMMA LinksStep ==
    ASSUME AdvIInv, WholeNext
    PROVE  Links'
<1>1. DOMAIN adv' \subseteq DOMAIN id_cache' \cup HeldIds'
  BY AdvStandsStep
<1>2. HeldIds' \subseteq Trails'
  BY HeldAfter
<1>3. \A m \in adjusting' : m.id \in trailing'[m.side]
  BY PlacesStep
<1> QED
  BY <1>1, <1>2, <1>3, LinksHoldStep, PullClauseStep, ExitsTogetherStep DEF Links

-----------------------------------------------------------------------------
(* The exits of a bracket keep one size.                                    *)

Pair(x, y) ==
    /\ x \in DOMAIN adv /\ y \in DOMAIN adv /\ x # y
    /\ Exit(adv[x].cond) /\ Exit(adv[y].cond)
    /\ adv[x].link = y /\ adv[y].link = x

\* Two orders that are linked as exits were linked before, or are new.
LEMMA PairBefore ==
    ASSUME AdvIInv, WholeNext, NEW x \in DOMAIN adv', Exit(adv'[x].cond),
           adv'[x].link \in DOMAIN adv'
    PROVE  \/ Pair(x, adv'[x].link)
           \/ ConcludeTarget /\ x \in {cur.id, last_id + 1}
              /\ adv'[x].link \in {cur.id, last_id + 1}
<1> DEFINE y == adv'[x].link
<1>1. y # x /\ adv'[y].cond = adv'[x].cond /\ adv'[y].link = x
  <2>1. Linked(adv'[x].cond)
    BY DEF Exit, Linked
  <2>2. \/ /\ y # x /\ adv'[y].cond = adv'[x].cond /\ adv'[y].link = x
        \/ y \in Trails' \ (DOMAIN id_cache' \cup HeldIds')
        \/ pc' = "pull_linked" /\ hit' = x
    BY <2>1, LinksHoldStep DEF LinksHold, Mutual, Gone
  <2>3. y \in DOMAIN id_cache' \cup HeldIds'
    BY AdvStandsStep
  <2>4. ~ (pc' = "pull_linked" /\ hit' = x)
    BY PullClauseStep
  <2> QED
    BY <2>2, <2>3, <2>4
<1>2. CASE x \in DOMAIN adv /\ y \in DOMAIN adv
  <2>1. Keeps(x) /\ Keeps(y)
    BY <1>2, KeepsOld
  <2> QED
    BY <1>1, <1>2, <2>1 DEF Keeps, Pair, Exit
<1>3. ASSUME NEW z \in {x, y}, z \notin DOMAIN adv
      PROVE  ConcludeTarget /\ z \in {cur.id, last_id + 1} /\ adv'[z].link \in {cur.id, last_id + 1}
  <2>1. Exit(adv'[z].cond) /\ z \in DOMAIN adv'
    BY <1>1 DEF Exit
  <2>2. CASE /\ ConcludeOto \/ ConcludeEntry
             /\ cur.sz > 0
             /\ DOMAIN adv' = DOMAIN adv \cup {cur.id}
             /\ adv'[cur.id] \in {Own, Rest}
    <3> HIDE DEF Own, Rest
    <3>1. ~ Exit(adv'[cur.id].cond)
      BY <2>2, OwnIsCond
    <3> QED
      BY <1>3, <2>1, <2>2, <3>1
  <2>3. CASE /\ ConcludeOco
             /\ DOMAIN adv' = DOMAIN adv \cup {cur.id, cur.parent}
             /\ adv'[cur.id] = LinkTo(cur.parent) /\ adv'[cur.parent] = LinkTo(cur.id)
    BY <1>3, <2>1, <2>3 DEF LinkTo, Condition, Exit
  <2>4. CASE /\ ConcludeTarget
             /\ DOMAIN adv' = DOMAIN adv \cup {cur.id, last_id + 1}
             /\ adv'[cur.id] = ExitTo(last_id + 1, 0)
             /\ adv'[last_id + 1] = ExitTo(cur.id, Ticks)
    <3>1. \A id, n : ExitTo(id, n).link = id
      BY DEF ExitTo, Condition
    <3> HIDE DEF ExitTo
    <3> QED
      BY <1>3, <2>1, <2>4, <3>1
  <2>5. CASE /\ InsertTrailingStop
             /\ DOMAIN adv' = DOMAIN adv \cup {cur.id}
             /\ adv'[cur.id] = ExitTo(0, cur.p1.stop)
    BY <1>3, <2>1, <2>5 DEF Exit, ExitTo, Condition, InsertTrailingStop, ActiveStop
  <2> QED
    BY <1>3, <2>1, <2>2, <2>3, <2>4, <2>5, EntryChanges DEF Entries, Dropped
<1>4. CASE x \notin DOMAIN adv
  BY <1>3, <1>4
<1>5. CASE y \notin DOMAIN adv
  <2>1. ConcludeTarget /\ y \in {cur.id, last_id + 1} /\ adv'[y].link \in {cur.id, last_id + 1}
    BY <1>3, <1>5
  <2> QED
    BY <1>1, <2>1
<1> QED
  BY <1>2, <1>4, <1>5

LEMMA PairSize ==
    ASSUME AdvIInv, NEW b \in Standing, NEW d \in Standing, Pair(b.id, d.id)
    PROVE  /\ b.sz - Owed(b.id) = d.sz - Owed(d.id)
           /\ b.sz \in Int /\ d.sz \in Int
           /\ b \in LimitBndl \cup StopBndl /\ d \in LimitBndl \cup StopBndl
           /\ pc # "reduce" => b.sz = d.sz
<1>1. b.sz - Owed(b.id) = d.sz - Owed(d.id)
  BY DEF AdvIInv, OneSize, Pair
<1>2. b \in LimitBndl \cup StopBndl /\ d \in LimitBndl \cup StopBndl
  BY StandingTypes DEF Standing
<1>3. b.sz \in Int /\ d.sz \in Int
  BY <1>2 DEF LimitBndl, StopBndl
<1>4. pc # "reduce" => b.sz = d.sz
  <2>1. pc # "reduce" => Owed(b.id) = 0 /\ Owed(d.id) = 0
    BY DEF Owed
  <2> QED
    BY <1>1, <1>3, <2>1
<1> QED
  BY <1>1, <1>2, <1>3, <1>4

\* The steps into "reduce" leave the order in front where it is.
LEMMA IntoReduce ==
    ASSUME AdvIInv, WholeNext, pc' = "reduce"
    PROVE  /\ CancelOther \/ TriggerOther \/ GrowExits \/ IssueExits \/ ShrinkOtherExit
           /\ pc = "matched" /\ hit' = hit
           /\ FrontOrder'.id = FrontOrder.id
           /\ hit \in Nat \ {0}
           /\ CancelOther \/ TriggerOther => FrontOrder.id \notin DOMAIN adv'
           /\ GrowExits \/ IssueExits => Entry(AdvOf(FrontOrder.id).cond)
<1>1. CancelOther \/ TriggerOther \/ GrowExits \/ IssueExits \/ ShrinkOtherExit
  BY IntoPlaces DEF Match
<1>2. pc = "matched" /\ hit' = hit
  BY <1>1 DEF CancelOther, TriggerOther, GrowExits, IssueExits, ShrinkOtherExit, adv_vars
<1>3. hit \in Nat \ {0}
  BY <1>2, TradeFacts
<1>4. CancelOther => FrontOrder'.id = FrontOrder.id
  BY CancelKeepsFront
<1>5. TriggerOther \/ IssueExits => FrontOrder' = FrontOrder
  BY DEF TriggerOther, IssueExits, book, pointers, FrontOrder
<1>6. ASSUME NEW ids, NEW n \in Int, Changes(ids, n), UNCHANGED <<cur, best>>
      PROVE  FrontOrder'.id = FrontOrder.id
  <2>1. FrontOrder' = Sized(FrontOrder, ids, n) /\ FrontOrder \in LimitBndl
    BY <1>2, <1>6, SizedFront
  <2> QED
    BY <2>1, SizedFields
<1>7. GrowExits => FrontOrder'.id = FrontOrder.id
  <2>1. GrowExits => Changes(ActiveExits(AdvOf(FrontOrder.id)), hit)
    BY GrowFacts
  <2>2. GrowExits => UNCHANGED <<cur, best>>
    BY DEF GrowExits, pointers
  <2> QED
    BY <1>3, <1>6, <2>1, <2>2
<1>8. ShrinkOtherExit => FrontOrder'.id = FrontOrder.id
  <2>1. ShrinkOtherExit => Changes({AdvOf(FrontOrder.id).link}, - hit)
    BY ShrinkFacts
  <2>2. ShrinkOtherExit => UNCHANGED <<cur, best>>
    BY DEF ShrinkOtherExit, pointers
  <2>3. - hit \in Int
    BY <1>3
  <2> QED
    BY <1>6, <2>1, <2>2, <2>3
<1>9. TriggerOther => FrontOrder.id \notin DOMAIN adv'
  BY DEF TriggerOther, DropAdv, Restrict
<1>10. GrowExits \/ IssueExits => Entry(AdvOf(FrontOrder.id).cond)
  BY DEF GrowExits, IssueExits, Entry
<1>11. CancelOther => FrontOrder.id \notin DOMAIN adv'
  BY CancelKeepsFront
<1> QED
  BY <1>1, <1>2, <1>3, <1>4, <1>5, <1>7, <1>8, <1>9, <1>10, <1>11

LEMMA ReduceEnds ==
    ASSUME WholeNext, pc = "reduce"
    PROVE  Reduce
BY DEF WholeNext, AdvClient, WholeWindow, InsertAdvOrder, PullAdvOrder, ReplaceAdvOrder,
       PullLinkedOrder, RouteToBook, RouteToStops, Match, CancelOther, TriggerOther, GrowExits,
       IssueExits, ShrinkOtherExit, LeaveLoop, LiftTrailingStop, PlaceTrailingStop, LeaveTrade,
       TakeBuyChain, TakeSellChain, TakeChain, CancelForStop, TriggerHead, EndChain, Handling,
       EndBuyScan, EndSellScan, Settle, ThrowUnfilled, ConcludeBasic, ConcludeOto,
       InjectSecond, ConcludeOco, ConcludeEntry, ConcludeTarget, ConcludeTargetAlone,
       InsertTrailingStop, NextInternal, CloseWindow

LEMMA ReduceOnePair ==
    ASSUME AdvIInv, Reduce,
           NEW b \in Standing', NEW d \in Standing', b.id \in DOMAIN adv', d.id \in DOMAIN adv',
           Pair(b.id, d.id)
    PROVE  b.sz = d.sz
<1> DEFINE f == FrontOrder.id
<1>1. pc \in {"matched", "reduce"} /\ UNCHANGED held /\ hit \in Nat \ {0}
  BY TradeFacts DEF Reduce
<1>2. HeldOrders' \subseteq StopOrders
  BY <1>1 DEF HeldOrders, StopOrders
<1>3. pc = "matched" => b.id # f /\ d.id # f
  <2>1. pc = "matched" => ~ Triggers
    BY DEF Reduce
  <2>2. ASSUME f \in DOMAIN adv, Exit(adv[f].cond)
        PROVE  Triggers
    <3>1. adv[f].trig = "partial"
      BY <2>2 DEF AdvIInv, CondsFit
    <3>2. AdvOf(f) = adv[f]
      BY <2>2 DEF AdvOf
    <3> QED
      BY <2>2, <3>1, <3>2 DEF Triggers, Exit
  <2> QED
    BY <2>1, <2>2 DEF Pair
<1>4. CASE /\ Leaves(f)
           /\ DropAdv({f})
  <2>1. b \in Standing /\ d \in Standing
    BY <1>2, <1>4, LeavesStanding DEF Standing
  <2>2. b.id # f /\ d.id # f
    BY <1>4, DropFacts
  <2>3. Owed(b.id) = 0 /\ Owed(d.id) = 0
    BY <2>2 DEF Owed
  <2> QED
    BY <2>1, <2>3, PairSize
<1>5. CASE Changes({f}, - hit)
  <2>1. - hit \in Int
    BY <1>1
  <2>2. b \in SizedOf(Standing, {f}, - hit) /\ d \in SizedOf(Standing, {f}, - hit)
    BY <1>1, <1>5, <2>1, SizedStanding DEF Standing, SizedOf
  <2>3. PICK b0 \in Standing : b = Sized(b0, {f}, - hit)
    BY <2>2 DEF SizedOf
  <2>4. PICK d0 \in Standing : d = Sized(d0, {f}, - hit)
    BY <2>2 DEF SizedOf
  <2>5. b0 \in LimitBndl \cup StopBndl /\ d0 \in LimitBndl \cup StopBndl
    BY StandingTypes DEF Standing
  <2>6. b.id = b0.id /\ d.id = d0.id
    BY <2>1, <2>3, <2>4, <2>5, SizedFields
  <2>7. /\ b0.sz - Owed(b.id) = d0.sz - Owed(d.id)
        /\ b0.sz \in Int /\ d0.sz \in Int
    BY <2>6, PairSize
  <2>8. ASSUME NEW c \in {b0, d0}
        PROVE  Sized(c, {f}, - hit).sz = c.sz - Owed(c.id)
    <3>1. Owed(c.id) = IF c.id = f THEN hit ELSE 0
      BY <1>1, <1>3, <2>6 DEF Owed
    <3>2. CASE c.id = f
      <4>1. Sized(c, {f}, - hit).sz = c.sz + (- hit)
        BY <2>1, <2>5, <3>2, SizedFields
      <4> QED
        BY <1>1, <2>7, <3>1, <3>2, <4>1
    <3>3. CASE c.id # f
      <4>1. Sized(c, {f}, - hit) = c
        BY <3>3 DEF Sized
      <4> QED
        BY <2>7, <3>1, <3>3, <4>1
    <3> QED
      BY <3>2, <3>3
  <2> QED
    BY <2>3, <2>4, <2>6, <2>7, <2>8
<1> QED
  BY <1>4, <1>5, ReduceFacts

LEMMA GrowOnePair ==
    ASSUME AdvIInv, WholeNext, GrowExits,
           NEW b \in Standing', NEW d \in Standing', Pair(b.id, d.id)
    PROVE  b.sz = d.sz
<1> DEFINE f == FrontOrder.id
           ids == ActiveExits(AdvOf(f))
<1>1. pc = "matched" /\ UNCHANGED held /\ hit \in Int /\ Entry(AdvOf(f).cond)
  <2>1. pc = "matched" /\ UNCHANGED held /\ Entry(AdvOf(f).cond)
    BY DEF GrowExits, adv_vars, Entry
  <2> QED
    BY <2>1, TradeFacts
<1>2. Changes(ids, hit)
  BY GrowFacts
<1>3. \A x, y : Pair(x, y) /\ x \in ids => y \in ids
  <2>1. f \in DOMAIN adv /\ AdvOf(f) = adv[f]
    BY <1>1 DEF AdvOf, Entry, NoCondition, Condition
  <2>2. \A x \in ids \cap DOMAIN adv : Exit(adv[x].cond) => adv[x].link \in ids
    BY <2>1 DEF AdvIInv, Links, ExitsTogether
  <2> QED
    BY <2>2 DEF Pair
<1>4. Pair(d.id, b.id)
  BY DEF Pair
<1> HIDE DEF ids, f
<1>5. b \in SizedOf(Standing, ids, hit) /\ d \in SizedOf(Standing, ids, hit)
  BY <1>1, <1>2, SizedStanding DEF Standing, SizedOf
<1>6. PICK b0 \in Standing : b = Sized(b0, ids, hit)
  BY <1>5 DEF SizedOf
<1>7. PICK d0 \in Standing : d = Sized(d0, ids, hit)
  BY <1>5 DEF SizedOf
<1>8. b0 \in LimitBndl \cup StopBndl /\ d0 \in LimitBndl \cup StopBndl
  BY StandingTypes DEF Standing
<1>9. b.id = b0.id /\ d.id = d0.id
  BY <1>1, <1>6, <1>7, <1>8, SizedFields
<1>10. b0.sz = d0.sz
  BY <1>1, <1>9, PairSize
<1>11. CASE b.id \in ids
  <2>1. d.id \in ids
    BY <1>3, <1>11
  <2>2. b.sz = b0.sz + hit /\ d.sz = d0.sz + hit
    BY <1>1, <1>6, <1>7, <1>8, <1>9, <1>11, <2>1, SizedFields
  <2> QED
    BY <1>10, <2>2
<1>12. CASE b.id \notin ids
  <2>1. d.id \notin ids
    BY <1>3, <1>4, <1>12
  <2>2. b = b0 /\ d = d0
    BY <1>6, <1>7, <1>9, <1>12, <2>1 DEF Sized
  <2> QED
    BY <1>10, <2>2
<1> QED
  BY <1>11, <1>12

LEMMA ShrinkOnePair ==
    ASSUME AdvIInv, WholeNext, ShrinkOtherExit,
           NEW b \in Standing', NEW d \in Standing', Pair(b.id, d.id)
    PROVE  b.sz - Owed(b.id)' = d.sz - Owed(d.id)'
<1> DEFINE f == FrontOrder.id
           y == AdvOf(f).link
<1>1. /\ pc = "matched" /\ pc' = "reduce" /\ UNCHANGED held
      /\ Exit(AdvOf(f).cond) /\ y \in DOMAIN id_cache
  BY DEF ShrinkOtherExit, adv_vars, Exit
<1>2. hit' = hit /\ FrontOrder'.id = f /\ hit \in Nat \ {0}
  BY <1>1, IntoReduce
<1>3. Changes({y}, - hit) /\ - hit \in Int
  BY <1>2, ShrinkFacts
<1>4. Pair(f, y)
  <2>1. Linked(AdvOf(f).cond)
    BY <1>1 DEF Exit, Linked
  <2>2. /\ f \in DOMAIN adv /\ AdvOf(f) = adv[f]
        /\ Mutual(f) \/ adv[f].link \in Gone
    BY <1>1, <2>1, FrontLink
  <2>3. Mutual(f)
    BY <1>1, <2>2 DEF Gone
  <2> QED
    BY <1>1, <2>2, <2>3 DEF Pair, Mutual, Exit
<1>5. /\ \A x : Owed(x)' = IF x = f THEN hit ELSE 0
  BY <1>1, <1>2 DEF Owed
<1> HIDE DEF f, y
<1>6. b \in SizedOf(Standing, {y}, - hit) /\ d \in SizedOf(Standing, {y}, - hit)
  BY <1>1, <1>3, SizedStanding DEF Standing, SizedOf
<1>7. PICK b0 \in Standing : b = Sized(b0, {y}, - hit)
  BY <1>6 DEF SizedOf
<1>8. PICK d0 \in Standing : d = Sized(d0, {y}, - hit)
  BY <1>6 DEF SizedOf
<1>9. b0 \in LimitBndl \cup StopBndl /\ d0 \in LimitBndl \cup StopBndl
  BY StandingTypes DEF Standing
<1>10. b.id = b0.id /\ d.id = d0.id
  BY <1>3, <1>7, <1>8, <1>9, SizedFields
<1>11. b0.sz = d0.sz /\ b0.sz \in Int
  BY <1>1, <1>10, PairSize
<1>12. b.id = y => b.sz = b0.sz - hit
  <2>1. b.id = y => b.sz = b0.sz + (- hit)
    BY <1>3, <1>7, <1>9, <1>10, SizedFields
  <2> QED
    BY <1>2, <1>11, <2>1
<1>13. d.id = y => d.sz = d0.sz - hit
  <2>1. d.id = y => d.sz = d0.sz + (- hit)
    BY <1>3, <1>8, <1>9, <1>10, SizedFields
  <2> QED
    BY <1>2, <1>11, <2>1
<1>14. b.id # y => b = b0
  BY <1>7, <1>10 DEF Sized
<1>15. d.id # y => d = d0
  BY <1>8, <1>10 DEF Sized
<1>16. /\ b.id = f <=> d.id = y
       /\ b.id = y <=> d.id = f
       /\ f # y
  BY <1>4 DEF Pair
<1>17. CASE b.id = f
  <2>1. b.sz = b0.sz /\ d.sz = b0.sz - hit /\ d.id # f
    BY <1>11, <1>13, <1>14, <1>16, <1>17
  <2> QED
    BY <1>2, <1>5, <1>11, <1>17, <2>1
<1>18. CASE b.id = y
  <2>1. b.sz = b0.sz - hit /\ d.sz = b0.sz /\ d.id = f /\ b.id # f
    BY <1>11, <1>12, <1>15, <1>16, <1>18
  <2> QED
    BY <1>2, <1>5, <1>11, <1>18, <2>1
<1>19. CASE b.id # f /\ b.id # y
  <2>1. b.sz = b0.sz /\ d.sz = b0.sz /\ d.id # f
    BY <1>11, <1>14, <1>15, <1>16, <1>19
  <2> QED
    BY <1>5, <1>11, <1>19, <2>1
<1> QED
  BY <1>17, <1>18, <1>19

\* The two exits that a target has just made have the size of the target.
LEMMA NewPair ==
    ASSUME AdvIInv, WholeNext, ConcludeTarget, NEW b \in Standing', b.id \in {cur.id, last_id + 1}
    PROVE  b.sz = cur.sz
<1>1. /\ pc = "condition" /\ cur.sz > 0 /\ UNCHANGED <<limits, held, cchain>>
      /\ last_id + 1 \notin Known /\ ExitStop.sz = cur.sz
  <2>1. last_id + 1 \notin Known
    BY TargetFacts
  <2> QED
    BY <2>1 DEF ConcludeTarget, ExitStop
<1>2. b \in Standing \/ b = ExitStop
  <2>1. /\ ~ Settle /\ ~ RouteToStops /\ ~ InsertTrailingStop
        /\ ~ (\E ids : \E n \in Int : SizedBy(ids, n))
    BY <1>1
    DEF Settle, RouteToStops, InsertTrailingStop, SizedBy, GrowExits, ShrinkOtherExit, Reduce
  <2> HIDE DEF ExitStop
  <2> QED
    BY <2>1, StandingChanges DEF StandingClasses, Standing
<1>3. CASE b \in Standing
  <2>1. b.id # last_id + 1
    <3>1. held = NoHold
      BY <1>1, NothingHeld
    <3>2. last_id + 1 \notin DOMAIN id_cache
      BY <1>1 DEF Known
    <3> QED
      BY <1>3, <3>1, <3>2, NewDoesNotStand
  <2> QED
    BY <1>1, <1>3, <2>1 DEF AdvIInv, CurStands
<1> QED
  BY <1>1, <1>2, <1>3

\* Nothing else changes the size of an exit.
LEMMA PairStands ==
    ASSUME AdvIInv, WholeNext, NEW b \in Standing', b.id \in DOMAIN adv, Exit(adv[b.id].cond),
           ~ GrowExits, ~ ShrinkOtherExit, ~ Reduce
    PROVE  b \in Standing
<1>1. ~ (\E ids : \E n \in Int : SizedBy(ids, n))
  BY DEF SizedBy
<1>2. CASE /\ b \in {RestBndl, StopBndlOfCur, TrailStop}
           /\ Settle \/ RouteToStops \/ InsertTrailingStop
  <2>1. pc \notin Between \cup {"pull_linked"}
    BY <1>2 DEF Settle, RouteToStops, InsertTrailingStop, Between
  <2>2. cur # NoOrder /\ b.id = cur.id
    BY <1>2, <2>1, CurFacts DEF RestBndl, StopBndlOfCur, TrailStop
  <2> QED
    BY <2>2, CurIsNotNamed
<1>3. CASE b = ExitStop /\ ConcludeTarget
  <2>1. last_id + 1 \notin Known
    BY <1>3, TargetFacts
  <2> QED
    BY <1>3, <2>1 DEF ExitStop, Known, Named
<1> HIDE DEF RestBndl, StopBndlOfCur, TrailStop, ExitStop
<1> QED
  BY <1>1, <1>2, <1>3, StandingChanges DEF StandingClasses, Standing

LEMMA OneSizeStep ==
    ASSUME AdvIInv, WholeNext
    PROVE  OneSize'
<1>1. SUFFICES ASSUME NEW b \in Standing', NEW d \in Standing',
                      b.id \in DOMAIN adv', d.id \in DOMAIN adv',
                      Exit(adv'[b.id].cond), adv'[b.id].link = d.id
               PROVE  b.sz - Owed(b.id)' = d.sz - Owed(d.id)'
  BY DEF OneSize
<1>2. \/ Pair(b.id, d.id)
      \/ ConcludeTarget /\ b.id \in {cur.id, last_id + 1} /\ d.id \in {cur.id, last_id + 1}
  BY <1>1, PairBefore
<1>3. CASE ConcludeTarget /\ b.id \in {cur.id, last_id + 1} /\ d.id \in {cur.id, last_id + 1}
  <2>1. b.sz = cur.sz /\ d.sz = cur.sz
    BY <1>3, NewPair
  <2>2. Owed(b.id)' = 0 /\ Owed(d.id)' = 0
    BY <1>3 DEF Owed, ConcludeTarget, Done
  <2> QED
    BY <2>1, <2>2
<1>4. CASE Pair(b.id, d.id)
  <2>1. CASE Reduce
    <3>1. b.sz = d.sz
      BY <1>1, <1>4, <2>1, ReduceOnePair
    <3>2. Owed(b.id)' = 0 /\ Owed(d.id)' = 0
      BY <2>1 DEF Owed, Reduce
    <3> QED
      BY <3>1, <3>2
  <2>2. pc' = "reduce" /\ Entry(AdvOf(FrontOrder.id).cond) /\ FrontOrder'.id = FrontOrder.id
            => Owed(b.id)' = 0 /\ Owed(d.id)' = 0
    <3>1. Exit(AdvOf(b.id).cond) /\ Exit(AdvOf(d.id).cond)
      BY <1>4 DEF Pair, AdvOf
    <3> QED
      BY <3>1 DEF Owed, Entry, Exit
  <2>3. CASE GrowExits
    <3>1. pc' = "reduce"
      BY <2>3 DEF GrowExits
    <3>2. b.sz = d.sz
      BY <1>4, <2>3, GrowOnePair
    <3> QED
      BY <2>2, <2>3, <3>1, <3>2, IntoReduce
  <2>4. CASE ShrinkOtherExit
    BY <1>4, <2>4, ShrinkOnePair
  <2>5. CASE ~ GrowExits /\ ~ ShrinkOtherExit /\ ~ Reduce
    <3>1. b \in Standing /\ d \in Standing
      BY <1>4, <2>5, PairStands DEF Pair
    <3>2. b.sz = d.sz
      <4>1. pc # "reduce"
        BY <2>5, ReduceEnds
      <4> QED
        BY <1>4, <3>1, <4>1, PairSize
    <3>3. Owed(b.id)' = 0 /\ Owed(d.id)' = 0
      <4>1. CASE pc' # "reduce"
        BY <4>1 DEF Owed
      <4>2. CASE pc' = "reduce" /\ (CancelOther \/ TriggerOther)
        <5>1. FrontOrder'.id = FrontOrder.id /\ FrontOrder.id \notin DOMAIN adv'
          BY <4>2, IntoReduce
        <5> QED
          BY <1>1, <5>1 DEF Owed
      <4>3. CASE pc' = "reduce" /\ IssueExits
        BY <2>2, <4>3, IntoReduce
      <4> QED
        BY <2>5, <4>1, <4>2, <4>3, IntoReduce
    <3> QED
      BY <3>2, <3>3
  <2> QED
    BY <2>1, <2>3, <2>4, <2>5
<1> QED
  BY <1>2, <1>3, <1>4

-----------------------------------------------------------------------------
(* The invariant holds.                                                     *)

LEMMA AdvTypesStep ==
    ASSUME AdvIInv, WholeNext
    PROVE  AdvTypes'
<1>1. Book' = Book
  BY BookStays
<1>2. BookTypeOK'
  BY BookStep DEF BookInv
<1>3. /\ internal_queue' \in Seq(AdvElem)
      /\ cur' \in AdvElem \cup {NoOrder}
      /\ last_id' \in Nat
  BY OrdersFitStep
<1>4. scan' \in Pointers
  BY ScansStep
<1>5. CondTypes'
  BY CondTypesStep
<1>6. /\ swing' \in [old : Book \cup {0}, high : Book \cup {0}, low : Book \cup {0}]
      /\ last' \in Book \cup {0} /\ total_volume' \in Nat
      /\ need_check_for_stops' \in BOOLEAN
  BY SwingStep
<1>7. /\ hit' \in Nat
      /\ adjusting' \subseteq [id : Nat, side : Sides, from : Book]
      /\ held' \in StopBndl \cup {NoHold}
  BY PlacesStep
<1>8. cchain' \in Seq(StopBndl)
  BY TakenStep
<1> QED
  BY <1>1, <1>2, <1>3, <1>4, <1>5, <1>6, <1>7, <1>8, Zenon DEF AdvTypes

LEMMA AdvStep ==
    ASSUME AdvIInv, WholeNext
    PROVE  AdvIInv'
<1>1. AdvTypes' /\ BookInv' /\ Placed'
  BY AdvTypesStep, BookStep
<1>2. AdvControl' /\ OrdersFit' /\ CondsFit'
  BY ControlStep, OrdersFitStep, CondsFitStep
<1>3. FrontMatches' /\ SwingFits' /\ CurNotTradable' /\ StopScans'
  BY FrontStep, SwingStep, NotTradableAfter, ScansStep
<1>4. Fresh' /\ CurStands' /\ Links' /\ OneSize'
  BY FreshStep, CurStandsStep, LinksStep, OneSizeStep
<1> QED
  BY <1>1, <1>2, <1>3, <1>4, Zenon DEF AdvIInv

LEMMA AdvStutter ==
    ASSUME AdvIInv, UNCHANGED bvars
    PROVE  AdvIInv'
<1>1. /\ UNCHANGED <<limits, stops, id_cache, best, worst, near, far>>
      /\ UNCHANGED <<last, beg, end, last_id, total_volume, need_check_for_stops>>
      /\ UNCHANGED <<internal_queue, cur, scan, pc>>
      /\ UNCHANGED <<adv, trailing, swing, hit, adjusting, held, cchain>>
  BY DEF bvars, vars, adv_vars
<1>2. AdvTypes'
  BY <1>1 DEF AdvIInv, AdvTypes, BookTypeOK, CondTypes, Book
<1>3. BookInv'
  BY <1>1, SameBook DEF book, pointers
<1>4. AdvControl'
  BY <1>1 DEF AdvIInv, AdvControl, Book
<1>5. OrdersFit'
  BY <1>1, FitsStay DEF AdvIInv, OrdersFit
<1>6. LimitOrders' = LimitOrders /\ StopOrders' = StopOrders /\ HeldOrders' = HeldOrders
  BY <1>1 DEF LimitOrders, StopOrders, HeldOrders
<1>7. CondsFit'
  BY <1>1, <1>6, FitsStay DEF AdvIInv, CondsFit, AdvOf, Book
<1>8. FrontMatches' /\ SwingFits'
  BY <1>1 DEF AdvIInv, FrontMatches, SwingFits, FrontOrder, AdvOf, Book
<1>9. CurNotTradable' /\ StopScans'
  BY <1>1 DEF AdvIInv, CurNotTradable, IsTradable, PLevel, StopScans, ScanAt, Book, NullHigh
<1>10. Placed'
  BY <1>1 DEF AdvIInv, Placed, ChainsAreCached, TakenAreCached, CachedStand, Cached, ChainOf
<1>11. Fresh'
  BY <1>1 DEF AdvIInv, Fresh, CurIsFresh, QueueIsFresh, Known, Named, Trails
<1>12. CurStands'
  BY <1>1, <1>6 DEF AdvIInv, CurStands, Standing
<1>13. Links'
  BY <1>1, <1>6
  DEF AdvIInv, Links, LinksHold, ExitsTogether, Mutual, Gone, HeldIds, Trails
<1>14. OneSize'
  BY <1>1, <1>6 DEF AdvIInv, OneSize, Standing, Owed, FrontOrder
<1> QED
  BY <1>2, <1>3, <1>4, <1>5, <1>7, <1>8, <1>9, <1>10, <1>11, <1>12, <1>13, <1>14, Zenon
  DEF AdvIInv

LEMMA InitAdvIInv == AdvInit => AdvIInv
<1> SUFFICES ASSUME AdvInit PROVE AdvIInv
  OBVIOUS
<1>1. IInv /\ Init
  BY InitIInv DEF AdvInit
<1>2. BookInv /\ BookTypeOK
  BY <1>1, BookOfIInv DEF BookInv
<1>3. /\ \A l \in Levels : limits[l] = <<>> /\ stops[l] = <<>>
      /\ id_cache = [i \in {} |-> 0] /\ last = 0 /\ last_id = 0 /\ total_volume = 0
      /\ need_check_for_stops = FALSE /\ internal_queue = <<>> /\ cur = NoOrder
      /\ scan = 0 /\ pc = "idle"
  BY DEF AdvInit, Init
<1>4. /\ adv = [i \in {} |-> NoCondition] /\ trailing = [s \in Sides |-> {}]
      /\ swing = NoSwing /\ hit = 0 /\ adjusting = {} /\ held = NoHold /\ cchain = <<>>
  BY DEF AdvInit
<1>5. DOMAIN adv = {} /\ DOMAIN id_cache = {}
  BY <1>3, <1>4
<1>6. LimitOrders = {} /\ StopOrders = {} /\ HeldOrders = {} /\ Trails = {} /\ HeldIds = {}
  <2>1. ToSet(<<>>) = {}
    BY DEF ToSet
  <2>2. HeldOrders = {}
    BY <1>4 DEF HeldOrders
  <2>3. Trails = {}
    BY <1>4 DEF Trails
  <2> QED
    BY <1>3, <1>4, <2>1, <2>2, <2>3 DEF LimitOrders, StopOrders, HeldIds
<1>7. AdvTypes
  <2>1. CondTypes
    BY <1>4, <1>5 DEF CondTypes
  <2>2. scan \in Pointers
    BY <1>3, BookAssumption DEF Pointers
  <2>3. swing \in [old : Book \cup {0}, high : Book \cup {0}, low : Book \cup {0}]
    BY <1>4 DEF NoSwing
  <2>4. internal_queue \in Seq(AdvElem) /\ cchain \in Seq(StopBndl)
    BY <1>3, <1>4, EmptySeq
  <2> QED
    BY <1>2, <1>3, <1>4, <2>1, <2>2, <2>3, <2>4 DEF AdvTypes
<1>8. AdvControl
  BY <1>3, <1>4 DEF AdvControl, AdvPlaces, Between, Trading, Scanning
<1>9. OrdersFit
  BY <1>3 DEF OrdersFit
<1>10. CondsFit
  BY <1>5, <1>6 DEF CondsFit
<1>11. FrontMatches /\ SwingFits /\ CurNotTradable /\ StopScans /\ CurStands
  BY <1>3, <1>4
  DEF FrontMatches, SwingFits, NoSwing, CurNotTradable, StopScans, ScanAt, CurStands, Trading,
      Scanning
<1>12. Placed
  <2>1. ToSet(<<>>) = {} /\ Unlike(<<>>)
    BY DEF ToSet, Unlike
  <2> QED
    BY <1>3, <1>4, <1>5, <2>1 DEF Placed, ChainsAreCached, TakenAreCached, CachedStand
<1>13. Fresh
  <2>1. Known = {}
    BY <1>5, <1>6 DEF Known, Named
  <2>2. CurIsFresh
    BY <1>3 DEF CurIsFresh
  <2>3. QueueIsFresh
    BY <1>3 DEF QueueIsFresh, Unlike
  <2> QED
    BY <2>1, <2>2, <2>3 DEF Fresh
<1>14. Links
  BY <1>3, <1>4, <1>5, <1>6 DEF Links, LinksHold, ExitsTogether
<1>15. OneSize
  BY <1>5, <1>6 DEF OneSize, Standing
<1> QED
  BY <1>2, <1>7, <1>8, <1>9, <1>10, <1>11, <1>12, <1>13, <1>14, <1>15 DEF AdvIInv

\* The book is torn when the trade of an exit is not finished, because its
\* other exit was lost; the model goes no further.
Torn == pc = "torn" /\ AdvOf(FrontOrder.id).link \in Lost

LEMMA StepIsWhole ==
    ASSUME AdvNext
    PROVE  /\ pc # "torn"
           /\ WholeNext \/ (TearTrade /\ AdvOf(FrontOrder.id).link \notin DOMAIN id_cache)
<1>1. pc # "torn"
  BY DEF AdvNext, AdvClient, AdvWindow, InsertAdvOrder, PullAdvOrder, ReplaceAdvOrder,
         PullLinkedOrder, RouteToBook, RouteToStops, Match, CancelOther, TriggerOther,
         GrowExits, IssueExits, AdjustOtherExit, Reduce, LeaveLoop, LiftTrailingStop,
         PlaceTrailingStop, LeaveTrade, TakeBuyChain, TakeSellChain, TakeChain, CancelForStop,
         TriggerHead, Handling, EndChain, EndBuyScan, EndSellScan, Settle, ThrowUnfilled,
         ConcludeBasic, ConcludeOto, InjectSecond, ConcludeOco, ConcludeEntry, ConcludeTarget,
         ConcludeTargetAlone, InsertTrailingStop, NextInternal, CloseWindow
<1>2. CASE AdjustOtherExit
  BY <1>1, <1>2 DEF AdjustOtherExit, WholeNext, WholeWindow
<1>3. CASE ~ AdjustOtherExit
  BY <1>1, <1>3 DEF AdvNext, AdvWindow, WholeNext, WholeWindow
<1> QED
  BY <1>2, <1>3

LEMMA TearsForLost ==
    ASSUME AdvIInv, TearTrade, AdvOf(FrontOrder.id).link \notin DOMAIN id_cache
    PROVE  Torn'
<1> DEFINE x == FrontOrder.id
<1>1. pc = "matched" /\ Linked(AdvOf(x).cond)
  BY DEF TearTrade, Linked
<1>2. x \in DOMAIN adv
  BY <1>1 DEF AdvOf, NoCondition, Condition, Linked
<1>3. HeldIds = {} /\ Gone = Lost
  BY <1>1, NothingHeld DEF Gone, Lost, Trails
<1>4. adv[x].link \in Lost
  <2>1. Mutual(x) => adv[x].link \in DOMAIN id_cache
    BY <1>3 DEF Mutual, AdvIInv, Links
  <2> QED
    BY <1>1, <1>2, <1>3, <2>1 DEF AdvIInv, Links, LinksHold, AdvOf
<1>5. /\ UNCHANGED <<limits, best, cur, adv, trailing, id_cache>>
      /\ pc' = "torn"
  BY DEF TearTrade, book, pointers, adv_vars
<1> QED
  BY <1>2, <1>4, <1>5 DEF Torn, FrontOrder, AdvOf, Lost

LEMMA TornStutter == Torn /\ UNCHANGED bvars => Torn'
<1> SUFFICES ASSUME Torn, UNCHANGED bvars PROVE Torn'
  OBVIOUS
<1>1. UNCHANGED <<limits, best, cur, adv, trailing, id_cache, pc>>
  BY DEF bvars, vars, adv_vars
<1> QED
  BY <1>1 DEF Torn, FrontOrder, AdvOf, Lost

LEMMA InvariantOrTorn == AdvSpec => [](AdvIInv \/ Torn)
<1>1. ASSUME AdvIInv \/ Torn, [AdvNext]_bvars
      PROVE  AdvIInv' \/ Torn'
  <2>1. CASE UNCHANGED bvars
    BY <1>1, <2>1, AdvStutter, TornStutter
  <2>2. CASE AdvNext
    BY <1>1, <2>2, StepIsWhole, AdvStep, TearsForLost DEF Torn
  <2> QED
    BY <1>1, <2>1, <2>2
<1> QED
  BY InitAdvIInv, <1>1, PTL DEF AdvSpec

\* The inductive invariant of the engine with advanced orders, whatever the
\* clients send, pull and replace and wherever an exception ends a window, as
\* long as none has left a trade half way (_handle_active_bracket, when the
\* linked order is gone).
THEOREM AdvInductiveInvariant == AdvSpec => [](ExitsAreFound => AdvIInv)
<1>1. AdvIInv \/ Torn => (ExitsAreFound => AdvIInv)
  BY DEF Torn, ExitsAreFound
<1> QED
  BY <1>1, InvariantOrTorn, PTL

\* Every variable keeps its type, as long as no exception has left a trade half
\* way: a size in the book is positive whatever its exits and its fills did to
\* it, and a pointer stays in the book or next to it.
THEOREM AdvTypeCorrect == AdvSpec => [](ExitsAreFound => AdvTypes)
<1>1. AdvIInv => AdvTypes
  BY DEF AdvIInv
<1> QED
  BY <1>1, AdvInductiveInvariant, PTL

\* The windows of the book stay right when conditions pull, move and insert
\* orders in the middle of a trade and of a chain of triggered stops, as long as
\* no exception has left a trade half way.
THEOREM AdvWindowsHold ==
    AdvSpec => [](ExitsAreFound => Uncrossed /\ LimitWindows /\ StopWindows)
<1>1. AdvIInv => Uncrossed /\ LimitWindows /\ StopWindows
  BY DEF AdvIInv, BookInv
<1> QED
  BY <1>1, AdvInductiveInvariant, PTL

LEMMA AdvNothingLeft == AdvIInv => NothingLeftToTrade
<1> SUFFICES ASSUME AdvIInv, pc \in {"scan_buy", "scan_sell", "settle"},
                    cur.sz > 0, NEW l \in Levels,
                    HasOrder(limits, l, Opp(cur.side))
             PROVE  ~ Geq(cur.side, PLevel(cur), l)
  BY DEF NothingLeftToTrade
<1> DEFINE s == cur.side
           o == Opp(s)
<1>1. s \in Sides /\ o \in Sides
  BY CurFacts DEF Between
<1>2. Geq(o, best[o], l)
  BY <1>1 DEF AdvIInv, BookInv, LimitWindows
<1>3. ~ Geq(s, PLevel(cur), best[o])
  BY DEF AdvIInv, CurNotTradable, IsTradable, Scanning
<1>4. PLevel(cur) \in Book
  <2>1. cur.type # "stop"
    BY DEF AdvIInv, AdvControl, Scanning
  <2> QED
    BY <2>1, CurLevel DEF Between
<1>5. PLevel(cur) \in Int /\ best[o] \in Int /\ l \in Int
  <2>1. BookTypeOK
    BY DEF AdvIInv, AdvTypes
  <2>2. best[o] \in Pointers /\ Pointers \subseteq Int /\ Levels \subseteq Int
    BY <1>1, <2>1, BookFacts DEF BookTypeOK, Pointers, Levels
  <2> QED
    BY <1>4, <2>1, <2>2, BookFacts
<1> QED
  BY <1>1, <1>2, <1>3, <1>5 DEF Geq, Opp, Sides

\* Also with conditions, an order that has traded crosses nothing that rests:
\* what the conditions of the orders it hit did, did not put an order in its way.
THEOREM AdvTradesAll == AdvSpec => []NothingLeftToTrade
<1>1. Torn => NothingLeftToTrade
  BY DEF Torn, NothingLeftToTrade
<1> QED
  BY <1>1, AdvNothingLeft, InvariantOrTorn, PTL

\* Between the orders of a window, every order on a chain is cached with that
\* chain, and every cached order is on its chain: none was lost with a chain
\* of triggered stops, or while a trailing stop was moved.  (After an exception
\* in the middle of a trade there is no such place: the model ends there.)
THEOREM AdvCacheAgrees == AdvSpec => [](pc \in {"idle", "drain"} => CacheAgrees)
<1>1. ASSUME AdvIInv, pc \in {"idle", "drain"}
      PROVE  CacheAgrees
  <2>1. cchain = <<>> /\ ToSet(<<>>) = {}
    BY <1>1 DEF AdvIInv, AdvControl, ToSet
  <2>2. \A l \in Levels : limits[l] \in Seq(LimitBndl) /\ stops[l] \in Seq(StopBndl)
    BY <1>1, CacheFacts
  <2>3. ASSUME NEW l \in Levels, NEW i \in 1 .. Len(limits[l])
        PROVE  Cached(limits[l][i].id, "limit", l)
    <3>1. limits[l][i] \in ToSet(limits[l])
      BY <2>2, ElementAt
    <3> QED
      BY <1>1, <3>1 DEF AdvIInv, Placed, ChainsAreCached
  <2>4. ASSUME NEW l \in Levels, NEW i \in 1 .. Len(stops[l])
        PROVE  Cached(stops[l][i].id, "stop", l)
    <3>1. stops[l][i] \in ToSet(stops[l])
      BY <2>2, ElementAt
    <3> QED
      BY <1>1, <3>1 DEF AdvIInv, Placed, ChainsAreCached
  <2>5. ASSUME NEW id \in DOMAIN id_cache
        PROVE  \E i \in 1 .. Len(ChainOf(id)) : ChainOf(id)[i].id = id
    <3>1. PICK b \in ToSet(ChainOf(id)) : b.id = id
      BY <1>1, <2>1 DEF AdvIInv, Placed, CachedStand
    <3>2. ChainOf(id) \in Seq(LimitBndl) \/ ChainOf(id) \in Seq(StopBndl)
      BY <1>1, <2>2, CacheFacts DEF ChainOf
    <3> QED
      BY <3>1, <3>2, IndexOf
  <2> QED
    BY <2>3, <2>4, <2>5 DEF CacheAgrees, Cached, ChainOf
<1>2. Torn => (pc \in {"idle", "drain"} => CacheAgrees)
  BY DEF Torn
<1> QED
  BY <1>1, <1>2, InvariantOrTorn, PTL

\* Between windows a condition belongs to an order that rests, and linked
\* orders are linked with each other, whichever of them filled, triggered, was
\* pulled or failed; only what an exception took from the book can leave an
\* order that is linked with nothing, and no other link that fails in the
\* middle of a trade.
THEOREM AdvLinksAgree == AdvSpec => []LinksAgree
<1>1. ASSUME AdvIInv
      PROVE  LinksAgree
  <2>0. pc # "torn"
    BY <1>1 DEF AdvIInv, AdvControl, AdvPlaces, Between, Trading, Scanning
  <2> SUFFICES ASSUME pc = "idle"
               PROVE  /\ DOMAIN adv \subseteq DOMAIN id_cache
                      /\ \A id \in DOMAIN adv : Linked(adv[id].cond) =>
                             \/ adv[id].link \in Lost
                             \/ /\ adv[id].link \in DOMAIN adv
                                /\ adv[adv[id].link].cond = adv[id].cond
                                /\ adv[adv[id].link].link = id
    BY <2>0 DEF LinksAgree
  <2>1. Gone = Lost
    <3>1. HeldIds = {}
      BY <1>1, NothingHeld
    <3> QED
      BY <3>1 DEF Gone, Lost, Trails
  <2> QED
    BY <1>1, <2>1, LinksFacts DEF Mutual
<1>2. Torn => LinksAgree
  BY DEF Torn, LinksAgree
<1> QED
  BY <1>1, <1>2, InvariantOrTorn, PTL

LEMMA SizeStands ==
    ASSUME AdvIInv, pc \in Between, NEW id \in DOMAIN id_cache
    PROVE  \E b \in Standing : b.id = id /\ b.sz = SizeOf(id)
<1> DEFINE c == ChainOf(id)
<1>1. cchain = <<>> /\ ToSet(<<>>) = {}
  BY DEF AdvIInv, AdvControl, ToSet, Between
<1>2. c \in Seq(LimitBndl) \/ c \in Seq(StopBndl)
  BY CacheFacts DEF ChainOf
<1>3. \E i \in 1 .. Len(c) : c[i].id = id
  <2>1. PICK b \in ToSet(c) : b.id = id
    BY <1>1 DEF AdvIInv, Placed, CachedStand
  <2> QED
    BY <1>2, <2>1, IndexOf
<1>4. PICK i \in 1 .. Len(c) : i = CHOOSE j \in 1 .. Len(c) : c[j].id = id
  BY <1>3
<1>5. c[i].id = id
  BY <1>3, <1>4
<1>6. SizeOf(id) = c[i].sz
  BY <1>4 DEF SizeOf, ChainOf
<1>7. c[i] \in ToSet(c)
  BY <1>2, ElementAt
<1>8. ToSet(c) \subseteq Standing
  <2>1. id_cache[id].p \in Levels
    BY CacheFacts
  <2> QED
    BY <2>1 DEF ChainOf, Standing, LimitOrders, StopOrders
<1> QED
  BY <1>5, <1>6, <1>7, <1>8

\* The two exits of a bracket have the same size whenever no order executes:
\* fills of the entry grow both, a fill of the target in the middle of a trade
\* shrinks the stop, and no order of steps lets them drift apart.
THEOREM AdvExitsHaveOneSize == AdvSpec => []ExitsHaveOneSize
<1>1. ASSUME AdvIInv
      PROVE  ExitsHaveOneSize
  <2> SUFFICES ASSUME pc \in Between, NEW id \in DOMAIN adv, Exit(adv[id].cond),
                      adv[id].link \in DOMAIN id_cache
               PROVE  SizeOf(id) = SizeOf(adv[id].link)
    BY DEF ExitsHaveOneSize, Between, Exit
  <2>1. id \in DOMAIN id_cache
    BY <1>1, LinksFacts DEF Between
  <2>2. Pair(id, adv[id].link)
    <3>1. Linked(adv[id].cond) /\ pc # "pull_linked"
      BY DEF Exit, Linked, Between
    <3>2. Mutual(id) \/ adv[id].link \in Gone
      BY <1>1, <3>1, LinksFacts
    <3> QED
      BY <3>2 DEF Gone, Mutual, Pair, Exit
  <2>3. PICK b \in Standing : b.id = id /\ b.sz = SizeOf(id)
    BY <1>1, <2>1, SizeStands
  <2>4. PICK d \in Standing : d.id = adv[id].link /\ d.sz = SizeOf(adv[id].link)
    BY <1>1, SizeStands
  <2>5. pc # "reduce"
    BY DEF Between
  <2>6. b.sz = d.sz
    BY <1>1, <2>2, <2>3, <2>4, <2>5, PairSize
  <2> QED
    BY <2>3, <2>4, <2>6
<1>2. Torn => ExitsHaveOneSize
  BY DEF Torn, ExitsHaveOneSize
<1> QED
  BY <1>1, <1>2, InvariantOrTorn, PTL

-----------------------------------------------------------------------------
(* The stops that the last price has reached.                               *)

\* The buy stops are scanned first; what conditions do while the sell stops
\* are scanned brings no buy stop back that last has reached.
BuyStopsDone == pc \in {"scan_sell", "chain_sell"} => Gt("buy", near["buy"], last)

LEMMA BuyStopsDoneStep ==
    ASSUME AdvIInv, BuyStopsDone, WholeNext
    PROVE  BuyStopsDone'
<1> SUFFICES ASSUME pc' \in {"scan_sell", "chain_sell"}
             PROVE  Gt("buy", near'["buy"], last')
  BY DEF BuyStopsDone, Gt
<1>1. \/ LeaveTrade \/ TakeBuyChain \/ TakeSellChain \/ CancelForStop
      \/ TriggerHead \/ EndChain \/ EndBuyScan
  BY IntoScan DEF Scanning
<1>2. last' = last
  BY <1>1
  DEF LeaveTrade, TakeBuyChain, TakeSellChain, TakeChain, CancelForStop, TriggerHead, EndChain,
      EndBuyScan
<1>3. /\ near["buy"] \in Int /\ scan \in Int /\ last \in Int
  <2>1. BookTypeOK /\ scan \in Pointers
    BY DEF AdvIInv, AdvTypes
  <2>2. near["buy"] \in Pointers /\ Pointers \subseteq Int
    BY <2>1, BookFacts DEF BookTypeOK, Pointers, Sides
  <2>3. last \in Nat
    BY LastFacts
  <2> QED
    BY <2>1, <2>2, <2>3, BookFacts DEF Pointers
<1>4. CASE EndBuyScan
  <2>1. pc = "scan_buy" /\ Gt("buy", scan, last) /\ near' = near
    BY <1>4 DEF EndBuyScan, pointers
  <2>2. Geq("buy", near["buy"], scan)
    BY <2>1 DEF AdvIInv, StopScans, ScanAt
  <2> QED
    BY <1>2, <1>3, <2>1, <2>2 DEF Gt, Geq
<1>5. CASE CancelForStop
  <2>1. /\ pc # "adjust" /\ CancelLinked(Head(cchain).id) /\ UNCHANGED <<cchain, held, beg, end>>
        /\ pc \in {"scan_sell", "chain_sell"}
    BY <1>5 DEF CancelForStop, Handling
  <2>2. \A s \in Sides : Geq(s, near'[s], near[s])
    BY <2>1, CancelFacts
  <2>3. Geq("buy", near'["buy"], near["buy"])
    BY <2>2 DEF Sides
  <2>4. near'["buy"] \in Int
    <3>1. BookTypeOK'
      BY AdvTypesStep DEF AdvTypes
    <3> QED
      BY <3>1, BookFacts DEF BookTypeOK, Pointers, Sides
  <2> QED
    BY <1>2, <1>3, <2>1, <2>3, <2>4 DEF BuyStopsDone, Gt, Geq
<1>6. CASE TakeSellChain
  <2>1. pc = "scan_sell" /\ StopAfterTrigger("sell", scan)
    BY <1>6 DEF TakeSellChain, TakeChain
  <2>2. near'["buy"] = near["buy"]
    <3>1. near \in [Sides -> Pointers]
      BY DEF AdvIInv, AdvTypes, BookTypeOK
    <3> QED
      BY <2>1, <3>1 DEF StopAfterTrigger, Sides
  <2> QED
    BY <1>2, <2>1, <2>2 DEF BuyStopsDone, Gt
<1>7. CASE TriggerHead \/ EndChain
  <2>1. near' = near /\ pc \in {"chain_sell", "chain_buy"}
    BY <1>7 DEF TriggerHead, EndChain, Handling, pointers
  <2>2. pc = "chain_sell"
    BY <1>7, <2>1 DEF TriggerHead, EndChain
  <2> QED
    BY <1>2, <2>1, <2>2 DEF BuyStopsDone
<1>8. CASE LeaveTrade \/ TakeBuyChain
  BY <1>8 DEF LeaveTrade, TakeBuyChain, TakeChain
<1> QED
  BY <1>1, <1>4, <1>5, <1>6, <1>7, <1>8

\* The scans end where no stop is left that last has reached.
LEMMA NoneLeftReached ==
    ASSUME AdvIInv, BuyStopsDone, EndSellScan,
           NEW l \in Levels, NEW s \in Sides, HasOrder(stops, l, s)
    PROVE  Gt(s, l, last)
<1>1. pc = "scan_sell" /\ Gt("sell", scan, last)
  BY DEF EndSellScan
<1>2. Geq("sell", near["sell"], scan)
  BY <1>1 DEF AdvIInv, StopScans, ScanAt
<1>3. Geq(s, l, near[s])
  BY DEF AdvIInv, BookInv, StopWindows
<1>4. near[s] \in Int /\ scan \in Int /\ last \in Int /\ l \in Int
  <2>1. BookTypeOK /\ scan \in Pointers
    BY DEF AdvIInv, AdvTypes
  <2>2. near[s] \in Pointers /\ Pointers \subseteq Int /\ Levels \subseteq Int
    BY <2>1, BookFacts DEF BookTypeOK, Pointers, Levels
  <2>3. last \in Nat
    BY LastFacts
  <2> QED
    BY <2>1, <2>2, <2>3, BookFacts DEF Pointers
<1>5. Gt(s, near[s], last)
  <2>1. CASE s = "buy"
    BY <1>1, <2>1 DEF BuyStopsDone
  <2>2. CASE s = "sell"
    BY <1>1, <1>2, <1>4, <2>2 DEF Gt, Geq
  <2> QED
    BY <2>1, <2>2 DEF Sides
<1> QED
  BY <1>3, <1>4, <1>5 DEF Gt, Geq

\* When the check for stops is done, the stops that the last price has reached
\* are on their way to the book, and so are those that conditions have put in
\* the book, or moved, since the trade.
THEOREM AdvReachedStopsTrigger == AdvSpec => AllReachedStopsTrigger
<1>1. ASSUME AdvIInv, BuyStopsDone, WholeNext, need_check_for_stops, ~ need_check_for_stops',
             NEW l \in Levels, NEW s \in Sides, HasOrder(stops, l, s)
      PROVE  Gt(s, l, last)
  <2>1. EndSellScan
    BY <1>1
    DEF WholeNext, AdvClient, WholeWindow, InsertAdvOrder, PullAdvOrder, ReplaceAdvOrder,
        PullLinkedOrder, RouteToBook, RouteToStops, Match, TradeHasOccured, CancelOther,
        TriggerOther, GrowExits, IssueExits, ShrinkOtherExit, Reduce, LeaveLoop,
        LiftTrailingStop, PlaceTrailingStop, LeaveTrade, TakeBuyChain, TakeSellChain, TakeChain,
        CancelForStop, TriggerHead, EndChain, EndBuyScan, Settle, ThrowUnfilled, ConcludeBasic,
        ConcludeOto, InjectSecond, ConcludeOco, ConcludeEntry, ConcludeTarget,
        ConcludeTargetAlone, InsertTrailingStop, NextInternal, CloseWindow
  <2> QED
    BY <1>1, <2>1, NoneLeftReached
<1>2. ASSUME AdvIInv \/ Torn, BuyStopsDone, [AdvNext]_bvars
      PROVE  [need_check_for_stops /\ ~ need_check_for_stops' =>
                  \A l \in Levels, s \in Sides : HasOrder(stops, l, s) => Gt(s, l, last)]_vars
  <2>1. UNCHANGED bvars => UNCHANGED vars
    BY DEF bvars
  <2>2. TearTrade => UNCHANGED need_check_for_stops
    BY DEF TearTrade
  <2> QED
    BY <1>1, <1>2, <2>1, <2>2, StepIsWhole DEF Torn
<1>3. AdvInit => BuyStopsDone
  BY DEF AdvInit, Init, BuyStopsDone
<1>4. BuyStopsDone /\ UNCHANGED bvars => BuyStopsDone'
  BY DEF bvars, vars, BuyStopsDone, Gt
<1>5. ASSUME AdvIInv \/ Torn, BuyStopsDone, [AdvNext]_bvars
      PROVE  BuyStopsDone'
  <2>1. TearTrade => BuyStopsDone'
    BY DEF TearTrade, BuyStopsDone
  <2> QED
    BY <1>4, <1>5, <2>1, StepIsWhole, BuyStopsDoneStep DEF Torn
<1> QED
  BY <1>2, <1>3, <1>5, InvariantOrTorn, PTL DEF AdvSpec, AllReachedStopsTrigger

-----------------------------------------------------------------------------
(* The trailing stops follow the last price.                                *)

\* a stop that trails: the prices are those that are cached
Follows(x, s) ==
    /\ x \in trailing[s] \cap DOMAIN adv \cap DOMAIN id_cache
    /\ adv[x].nticks # 0
    /\ id_cache[x].type = "stop"

IsToMove(x, s) == \E m \in adjusting : m.id = x /\ m.side = s

\* the price that the stops have followed so far
Anchor == IF pc \in Trading THEN swing.old ELSE last

\* A stop that trails is in the set of its side.
TrailsAreKnown ==
    /\ \A x \in DOMAIN adv : adv[x].nticks # 0 => x \in Trails
    /\ \A b \in StopOrders, s \in Sides : b.id \in trailing[s] => b.side = s

\* The stops to move follow the extremes of a trade, which are beyond last.
MovesFit ==
    /\ \A m \in adjusting : Geq(m.side, last, m.from)
    /\ adjusting # {} => need_check_for_stops
    /\ held # NoHold => \E m \in adjusting : NextMove(m) /\ m.id = held.id
    /\ pc = "trade" /\ ~ need_check_for_stops =>
           swing.high = swing.old /\ swing.low = swing.old

NoneIsFar ==
    \A s \in Sides, x \in Nat : Follows(x, s) /\ ~ IsToMove(x, s) =>
        Geq(s, Offset(s, adv[x].nticks, Anchor), id_cache[x].p)

NoneIsReached ==
    /\ pc \notin Trading \cup Scanning \cup {"adjust"} => ~ need_check_for_stops
    /\ ~ need_check_for_stops =>
           \A s \in Sides, x \in Nat : Follows(x, s) => Gt(s, id_cache[x].p, last)

\* While no trailing stop is lost: the exception ends the moving of all.
FollowInv ==
    /\ BuyStopsDone
    /\ TrailsAreKnown
    /\ MovesFit
    /\ Gone = {} => NoneIsFar /\ NoneIsReached

LEMMA FollowFacts ==
    ASSUME AdvIInv, NEW s \in Sides, NEW x \in Nat, Follows(x, s)
    PROVE  /\ adv[x].nticks \in Nat \ {0}
           /\ id_cache[x].p \in Levels /\ id_cache[x].p \in Int
           /\ Offset(s, adv[x].nticks, last) \in Int
           /\ Offset(s, adv[x].nticks, swing.old) \in Int
<1>1. adv[x] \in CondElem
  BY DEF Follows, AdvIInv, AdvTypes, CondTypes
<1>2. adv[x].nticks \in Nat \ {0}
  BY <1>1 DEF CondElem, Follows
<1>3. id_cache[x].p \in Levels /\ Levels \subseteq Int
  BY CacheFacts, BookFacts DEF Follows, Levels
<1>4. \A n, l \in Nat : Offset(s, n, l) \in Int
  BY DEF Offset
<1>5. last \in Nat /\ swing.old \in Nat
  BY LastFacts
<1> QED
  BY <1>2, <1>3, <1>4, <1>5

\* A stop trails since before, as before, unless it was just put in the book.
IsPlaced(x, s) == PlaceTrailingStop /\ x = held.id
IsExit(x, s) == ConcludeTarget /\ x = last_id + 1
IsTrail(x, s) == InsertTrailingStop /\ x = cur.id

FollowedOn(x, s) ==
    /\ Follows(x, s)
    /\ adv'[x].nticks = adv[x].nticks
    /\ id_cache'[x] = id_cache[x]

LEMMA TrailingAfter ==
    ASSUME AdvIInv, WholeNext, NEW s \in Sides, NEW x \in trailing'[s]
    PROVE  \/ x \in trailing[s]
           \/ ConcludeTarget /\ x = last_id + 1 /\ s = cur.p1.side
           \/ InsertTrailingStop /\ x = cur.id /\ s = cur.side
<1>1. trailing \in [Sides -> SUBSET Nat]
  BY DEF AdvIInv, AdvTypes, CondTypes
<1>2. ASSUME NEW id, NEW r, TrailingErase(id, r)
      PROVE  x \in trailing[s]
  BY <1>1, <1>2 DEF TrailingErase
<1>3. CASE ConcludeTarget
  <2>1. \/ UNCHANGED trailing
        \/ trailing' = [trailing EXCEPT ![cur.p1.side] = @ \cup {last_id + 1}]
    BY <1>3 DEF ConcludeTarget
  <2> QED
    BY <1>1, <1>3, <2>1
<1>4. CASE InsertTrailingStop
  <2>1. \/ UNCHANGED trailing
        \/ trailing' = [trailing EXCEPT ![cur.side] = @ \cup {cur.id}]
    BY <1>4 DEF InsertTrailingStop
  <2> QED
    BY <1>1, <1>4, <2>1
<1>5. CASE UNCHANGED trailing
  BY <1>5
<1> QED
  BY <1>2, <1>3, <1>4, <1>5, AdvChanges DEF AdvSteps

LEMMA FollowsAfter ==
    ASSUME AdvIInv, WholeNext, NEW s \in Sides, NEW x \in Nat, Follows(x, s)'
    PROVE  FollowedOn(x, s) \/ IsPlaced(x, s) \/ IsExit(x, s) \/ IsTrail(x, s)
<1>1. x \in trailing'[s] /\ x \in DOMAIN adv' /\ x \in DOMAIN id_cache'
      /\ adv'[x].nticks # 0 /\ id_cache'[x].type = "stop"
  BY DEF Follows
<1> SUFFICES ASSUME ~ IsPlaced(x, s), ~ IsExit(x, s), ~ IsTrail(x, s)
             PROVE  FollowedOn(x, s)
  OBVIOUS
<1>2. x \in trailing[s] /\ x \in Trails
  BY <1>1, TrailingAfter DEF IsExit, IsTrail, Trails
<1>3. cur # NoOrder => x # cur.id
  BY <1>2, CurIsNotNamed
<1>4. Settle \/ RouteToStops => cur # NoOrder
  BY CurFacts DEF Settle, RouteToStops, Between
<1>5. x \in DOMAIN id_cache /\ id_cache'[x] = id_cache[x]
  BY <1>1, <1>3, <1>4, EntriesOfCache DEF CacheEntries, Joins, IsPlaced, IsExit, IsTrail
<1>6. x \in DOMAIN adv
  <2>1. Concludes => cur # NoOrder
    BY ConcludesEnds
  <2>2. CASE ConcludeOco /\ DOMAIN adv' = DOMAIN adv \cup {cur.id, cur.parent}
             /\ adv'[cur.parent] = LinkTo(cur.id)
    <3>1. x = cur.parent => adv'[x].nticks = 0
      BY <2>2 DEF LinkTo, Condition
    <3> QED
      BY <1>1, <1>3, <2>1, <2>2, <3>1 DEF Concludes
  <2>3. CASE Dropped
    BY <1>1, <2>3 DEF Dropped
  <2> QED
    BY <1>1, <1>3, <2>1, <2>2, <2>3, EntryChanges DEF Entries, Concludes, IsExit, IsTrail
<1>7. Keeps(x)
  BY <1>1, <1>6, KeepsOld
<1> QED
  BY <1>1, <1>2, <1>5, <1>6, <1>7 DEF Keeps, FollowedOn, Follows

LEMMA OldSide ==
    ASSUME AdvIInv, TrailsAreKnown, WholeNext, NEW b \in StopOrders, NEW s \in Sides,
           b.id \in trailing'[s]
    PROVE  b.side = s
<1>1. ConcludeTarget => b.id # last_id + 1
  <2>1. ConcludeTarget => last_id + 1 \notin Known /\ held = NoHold
    BY TargetFacts, NothingHeld DEF ConcludeTarget
  <2> QED
    BY <2>1, NewDoesNotStand DEF Known, Standing
<1>2. InsertTrailingStop => b.id # cur.id
  <2>1. InsertTrailingStop => cur.id \notin DOMAIN id_cache /\ held = NoHold
    BY TrailFacts
  <2> QED
    BY <2>1, NewDoesNotStand DEF Standing
<1>3. b.id \in trailing[s]
  BY <1>1, <1>2, TrailingAfter
<1> QED
  BY <1>3 DEF TrailsAreKnown

LEMMA TrailsStay ==
    ASSUME AdvIInv, TrailsAreKnown, WholeNext, NEW x \in DOMAIN adv', adv'[x].nticks # 0
    PROVE  x \in Trails'
<1>1. trailing \in [Sides -> SUBSET Nat]
  BY DEF AdvIInv, AdvTypes, CondTypes
<1>2. ConcludeTarget \/ InsertTrailingStop =>
          cur # NoOrder /\ cur.side \in Sides /\ cur.p1.side \in Sides
  BY CurFacts DEF ConcludeTarget, InsertTrailingStop, Between, AdvElem, ParamsLeft
<1>3. CASE x \in DOMAIN adv
  <2>1. adv[x].nticks # 0
    BY <1>3, KeepsOld DEF Keeps
  <2>2. PICK r \in Sides : x \in trailing[r]
    BY <1>3, <2>1 DEF TrailsAreKnown, Trails
  <2> SUFFICES x \in trailing'[r]
    BY DEF Trails
  <2>3. ASSUME NEW D, NEW id \in D, NEW s, DropAdv(D), TrailingErase(id, s)
        PROVE  x \in trailing'[r]
    <3>1. x # id
      BY <2>3, DropFacts
    <3> QED
      BY <1>1, <2>2, <2>3, <3>1 DEF TrailingErase
  <2>4. CASE UNCHANGED trailing
    BY <2>2, <2>4
  <2>5. CASE ConcludeTarget
    <3>1. \/ UNCHANGED trailing
          \/ trailing' = [trailing EXCEPT ![cur.p1.side] = @ \cup {last_id + 1}]
      BY <2>5 DEF ConcludeTarget
    <3> QED
      BY <1>1, <2>2, <3>1
  <2>6. CASE InsertTrailingStop
    <3>1. \/ UNCHANGED trailing
          \/ trailing' = [trailing EXCEPT ![cur.side] = @ \cup {cur.id}]
      BY <2>6 DEF InsertTrailingStop
    <3> QED
      BY <1>1, <2>2, <3>1
  <2> QED
    BY <2>3, <2>4, <2>5, <2>6, AdvChanges DEF AdvSteps
<1>4. CASE x \notin DOMAIN adv
  <2>1. ~ Dropped
    BY <1>4 DEF Dropped
  <2>2. Own.nticks = 0 /\ Rest.nticks = 0
    BY DEF Own, Rest, Condition
  <2>3. \A id : LinkTo(id).nticks = 0
    BY DEF LinkTo, Condition
  <2>4. \A id, n : ExitTo(id, n).nticks = n
    BY DEF ExitTo, Condition
  <2>5. CASE /\ ConcludeTarget
             /\ DOMAIN adv' = DOMAIN adv \cup {cur.id, last_id + 1}
             /\ adv'[cur.id] = ExitTo(last_id + 1, 0)
             /\ adv'[last_id + 1] = ExitTo(cur.id, Ticks)
    <3>1. x = last_id + 1 /\ Ticks # 0
      BY <1>4, <2>4, <2>5
    <3>2. trailing' = [trailing EXCEPT ![cur.p1.side] = @ \cup {last_id + 1}]
      BY <2>5, <3>1 DEF ConcludeTarget, Ticks
    <3> QED
      BY <1>1, <1>2, <2>5, <3>1, <3>2 DEF Trails
  <2>6. CASE /\ InsertTrailingStop /\ StopLevel(cur.p1, TRUE) \in Book
             /\ DOMAIN adv' = DOMAIN adv \cup {cur.id}
    <3>1. x = cur.id
      BY <1>4, <2>6
    <3>2. trailing' = [trailing EXCEPT ![cur.side] = @ \cup {cur.id}]
      BY <2>6 DEF InsertTrailingStop
    <3> QED
      BY <1>1, <1>2, <2>6, <3>1, <3>2 DEF Trails
  <2> QED
    BY <1>4, <2>1, <2>2, <2>3, <2>5, <2>6, EntryChanges DEF Entries
<1> QED
  BY <1>3, <1>4

LEMMA TrailsKnownStep ==
    ASSUME AdvIInv, TrailsAreKnown, WholeNext
    PROVE  TrailsAreKnown'
<1>1. ASSUME NEW b \in StopOrders', NEW s \in Sides, b.id \in trailing'[s]
      PROVE  b.side = s
  <2>1. CASE b \in StopOrders
    BY <1>1, <2>1, OldSide
  <2>2. ASSUME NEW ids, NEW n \in Int, b \in SizedOf(StopOrders, ids, n)
        PROVE  b.side = s
    <3>1. PICK c \in StopOrders : b = Sized(c, ids, n)
      BY <2>2 DEF SizedOf
    <3>2. c \in StopBndl
      BY StandingTypes
    <3>3. b.id = c.id /\ b.side = c.side
      BY <3>1, <3>2, SizedFields
    <3> QED
      BY <1>1, <3>3, OldSide
  <2>3. CASE RouteToStops /\ b = StopBndlOfCur
    <3>1. b.id = cur.id /\ b.side = cur.side
      BY <2>3 DEF StopBndlOfCur
    <3>2. cur # NoOrder /\ cur.id \notin Trails
      BY <2>3, CurFacts, CurIsNotNamed DEF RouteToStops, Between
    <3> QED
      BY <1>1, <2>3, <3>1, <3>2, TrailingAfter DEF Trails, RouteToStops, ConcludeTarget
  <2>4. CASE ConcludeTarget /\ b = ExitStop
    <3>1. b.id = last_id + 1 /\ b.side = cur.p1.side
      BY <2>4 DEF ExitStop
    <3>2. last_id + 1 \notin Trails
      BY <2>4, TargetFacts DEF Known, Named
    <3> QED
      BY <1>1, <2>4, <3>1, <3>2, TrailingAfter DEF Trails, InsertTrailingStop, ConcludeTarget
  <2>5. CASE InsertTrailingStop /\ b = TrailStop
    <3>1. b.id = cur.id /\ b.side = cur.side
      BY <2>5 DEF TrailStop
    <3>2. cur # NoOrder /\ cur.id \notin Trails
      BY <2>5, CurFacts, CurIsNotNamed DEF InsertTrailingStop, Between
    <3> QED
      BY <1>1, <2>5, <3>1, <3>2, TrailingAfter DEF Trails, InsertTrailingStop, ConcludeTarget
  <2> QED
    BY <1>1, <2>1, <2>2, <2>3, <2>4, <2>5, StandingChanges DEF StandingClasses
<1> QED
  BY <1>1, TrailsStay DEF TrailsAreKnown

LEMMA IntoAdjust ==
    ASSUME AdvIInv, WholeNext, pc' = "adjust"
    PROVE  LeaveLoop \/ LiftTrailingStop \/ PlaceTrailingStop
<1>1. CASE AdvClient
  BY <1>1
  DEF AdvClient, InsertAdvOrder, StartOrder, PullAdvOrder, ReplaceAdvOrder
<1>2. CASE PullLinkedOrder \/ RouteToBook \/ RouteToStops \/ Match \/ CancelOther \/ TriggerOther
           \/ GrowExits \/ IssueExits \/ ShrinkOtherExit \/ Reduce
  BY <1>2
  DEF PullLinkedOrder, RouteToBook, RouteToStops, Match, CancelOther, TriggerOther, GrowExits,
      IssueExits, ShrinkOtherExit, Reduce
<1>3. CASE LeaveTrade \/ TakeBuyChain \/ TakeSellChain \/ CancelForStop \/ TriggerHead \/ EndChain
  BY <1>3
  DEF LeaveTrade, TakeBuyChain, TakeSellChain, TakeChain, CancelForStop, TriggerHead, Handling,
      EndChain
<1>4. CASE EndBuyScan \/ EndSellScan \/ Settle \/ ThrowUnfilled \/ ConcludeBasic \/ ConcludeOto
           \/ InjectSecond
  BY <1>4
  DEF EndBuyScan, EndSellScan, Settle, ThrowUnfilled, ConcludeBasic, ConcludeOto, InjectSecond,
      Done, Abort
<1>5. CASE ConcludeOco \/ ConcludeEntry
  BY <1>5 DEF ConcludeOco, ConcludeEntry, Done, Abort
<1>6. CASE ConcludeTarget \/ ConcludeTargetAlone \/ InsertTrailingStop
           \/ NextInternal \/ CloseWindow
  BY <1>6
  DEF ConcludeTarget, ConcludeTargetAlone, InsertTrailingStop, NextInternal, CloseWindow, Done,
      Abort
<1> QED
  BY <1>1, <1>2, <1>3, <1>4, <1>5, <1>6 DEF WholeNext, WholeWindow

\* A trade begins with its extremes at the last price, and leaves its loop only
\* to move the stops.
LEMMA TradeSteps ==
    ASSUME AdvIInv, WholeNext
    PROVE  /\ pc' \in Trading /\ pc \notin Trading =>
                  /\ RouteToBook
                  /\ swing' = [old |-> last, high |-> last, low |-> last]
           /\ pc' \in Trading /\ pc \in Trading => swing'.old = swing.old
           /\ pc' \notin Trading /\ pc \in Trading => LeaveLoop
           /\ pc' = "trade" => RouteToBook \/ (Reduce /\ UNCHANGED need_check_for_stops)
<1> USE DEF Trading
<1> DEFINE Good4 ==
           /\ pc' \in Trading /\ pc \notin Trading =>
                  /\ RouteToBook
                  /\ swing' = [old |-> last, high |-> last, low |-> last]
           /\ pc' \in Trading /\ pc \in Trading => swing'.old = swing.old
           /\ pc' \notin Trading /\ pc \in Trading => LeaveLoop
           /\ pc' = "trade" => RouteToBook \/ (Reduce /\ UNCHANGED need_check_for_stops)
<1>1. CASE AdvClient
  BY <1>1
  DEF AdvClient, InsertAdvOrder, StartOrder, PullAdvOrder, ReplaceAdvOrder
<1>2. CASE PullLinkedOrder \/ RouteToBook \/ RouteToStops \/ CancelOther \/ TriggerOther
           \/ GrowExits \/ IssueExits \/ ShrinkOtherExit \/ Reduce
  BY <1>2
  DEF PullLinkedOrder, RouteToBook, RouteToStops, CancelOther, TriggerOther,
      GrowExits, IssueExits, ShrinkOtherExit, Reduce, adv_vars
<1>3. CASE Match
  <2>1. /\ swing' = [swing EXCEPT !.high = Max({@, best[Opp(cur.side)]}),
                                  !.low = Min({@, best[Opp(cur.side)]})]
        /\ pc' = "matched" /\ pc = "trade"
    BY <1>3 DEF Match
  <2>2. swing'.old = swing.old
    BY <2>1, LastFacts
  <2> QED
    BY <2>1, <2>2
<1>4. CASE LeaveLoop \/ LiftTrailingStop \/ PlaceTrailingStop \/ LeaveTrade
  BY <1>4 DEF LeaveLoop, LiftTrailingStop, PlaceTrailingStop, LeaveTrade, Abort
<1>5. CASE TakeBuyChain \/ TakeSellChain \/ CancelForStop \/ TriggerHead \/ EndChain
  BY <1>5
  DEF TakeBuyChain, TakeSellChain, TakeChain, CancelForStop, TriggerHead, Handling, EndChain
<1>6. CASE EndBuyScan \/ EndSellScan \/ Settle \/ ThrowUnfilled \/ ConcludeBasic \/ ConcludeOto
           \/ InjectSecond
  BY <1>6
  DEF EndBuyScan, EndSellScan, Settle, ThrowUnfilled, ConcludeBasic, ConcludeOto, InjectSecond,
      Done, Abort
<1>7. CASE ConcludeOco \/ ConcludeEntry
  BY <1>7 DEF ConcludeOco, ConcludeEntry, Done, Abort
<1>8. CASE ConcludeTarget \/ ConcludeTargetAlone \/ InsertTrailingStop
           \/ NextInternal \/ CloseWindow
  BY <1>8
  DEF ConcludeTarget, ConcludeTargetAlone, InsertTrailingStop, NextInternal, CloseWindow, Done,
      Abort
<1>9. Good4
  BY <1>1, <1>2, <1>3, <1>4, <1>5, <1>6, <1>7, <1>8 DEF WholeNext, WholeWindow
<1> QED
  BY <1>9

LoopPlaces == Trading \cup Scanning \cup {"adjust"}

LEMMA FlagSteps ==
    ASSUME AdvIInv, WholeNext
    PROVE  /\ UNCHANGED need_check_for_stops \/ Match \/ EndSellScan
           /\ pc \in LoopPlaces /\ pc' \notin LoopPlaces =>
                  \/ LeaveTrade /\ ~ need_check_for_stops
                  \/ EndSellScan
                  \/ (LiftTrailingStop \/ PlaceTrailingStop) /\ Abort
<1> USE DEF LoopPlaces, Trading, Scanning
<1> DEFINE Good2 ==
           /\ UNCHANGED need_check_for_stops \/ Match \/ EndSellScan
           /\ pc \in LoopPlaces /\ pc' \notin LoopPlaces =>
                  \/ LeaveTrade /\ ~ need_check_for_stops
                  \/ EndSellScan
                  \/ (LiftTrailingStop \/ PlaceTrailingStop) /\ Abort
<1>1. CASE AdvClient
  BY <1>1
  DEF AdvClient, InsertAdvOrder, StartOrder, PullAdvOrder, ReplaceAdvOrder
<1>2. CASE PullLinkedOrder \/ RouteToBook \/ RouteToStops \/ CancelOther \/ TriggerOther
           \/ GrowExits \/ IssueExits \/ ShrinkOtherExit \/ Reduce
  BY <1>2
  DEF PullLinkedOrder, RouteToBook, RouteToStops, CancelOther, TriggerOther,
      GrowExits, IssueExits, ShrinkOtherExit, Reduce
<1>3. CASE Match \/ LeaveLoop \/ LeaveTrade
  BY <1>3 DEF Match, LeaveLoop, LeaveTrade
<1>4. CASE LiftTrailingStop \/ PlaceTrailingStop
  BY <1>4 DEF LiftTrailingStop, PlaceTrailingStop
<1>5. CASE TakeBuyChain \/ TakeSellChain \/ CancelForStop \/ TriggerHead \/ EndChain
  BY <1>5
  DEF TakeBuyChain, TakeSellChain, TakeChain, CancelForStop, TriggerHead, Handling, EndChain
<1>6. CASE EndBuyScan \/ EndSellScan \/ Settle \/ ThrowUnfilled \/ ConcludeBasic \/ ConcludeOto
           \/ InjectSecond
  BY <1>6
  DEF EndBuyScan, Settle, ThrowUnfilled, ConcludeBasic, ConcludeOto, InjectSecond
<1>7. CASE ConcludeOco \/ ConcludeEntry
  BY <1>7 DEF ConcludeOco, ConcludeEntry
<1>8. CASE ConcludeTarget \/ ConcludeTargetAlone \/ InsertTrailingStop
           \/ NextInternal \/ CloseWindow
  BY <1>8
  DEF ConcludeTarget, ConcludeTargetAlone, InsertTrailingStop, NextInternal, CloseWindow
<1>9. Good2
  BY <1>1, <1>2, <1>3, <1>4, <1>5, <1>6, <1>7, <1>8 DEF WholeNext, WholeWindow
<1> QED
  BY <1>9

\* An exception while stops are moved loses one.
LEMMA AbortLoses ==
    ASSUME AdvIInv, WholeNext, LiftTrailingStop \/ PlaceTrailingStop, Abort
    PROVE  Gone' # {}
<1>1. held' = NoHold /\ adjusting' = {}
  BY DEF Abort
<1>2. UNCHANGED trailing
  BY AtAdjust DEF LiftTrailingStop, PlaceTrailingStop
<1>3. \A x \in Trails : x \notin DOMAIN id_cache' => x \in Gone'
  <2>1. HeldIds' = {}
    BY <1>1 DEF HeldIds, HeldOrders
  <2> QED
    BY <1>2, <2>1 DEF Gone, Trails
<1>4. CASE LiftTrailingStop
  <2>1. PICK m \in adjusting : pc = "adjust" /\ held = NoHold /\ NextMove(m)
                               /\ (m.id \in DOMAIN id_cache =>
                                       held' = RestingStop(m.id) /\ UNCHANGED adjusting)
                               /\ (m.id \notin DOMAIN id_cache => UNCHANGED id_cache)
    BY <1>4 DEF LiftTrailingStop, book
  <2>2. m \in adjusting
    BY <2>1 DEF NextMove
  <2>3. m.id \in Trails
    BY <2>2 DEF AdvIInv, AdvTypes, Links, Trails
  <2> QED
    BY <1>1, <1>3, <2>1, <2>2, <2>3
<1>5. CASE PlaceTrailingStop
  <2>1. held # NoHold
    BY <1>5 DEF PlaceTrailingStop
  <2>2. held.id \in Trails /\ held.id \notin DOMAIN id_cache
    BY <1>5, <2>1, PlaceFacts, LinksFacts DEF HeldIds, HeldOrders
  <2>3. PICK m \in adjusting : \/ adjusting' = adjusting \ {m} /\ UNCHANGED pc
                               \/ UNCHANGED <<book, pointers>>
    BY <1>5, PlaceFacts
  <2>4. pc = "adjust" /\ pc' = "idle"
    BY <1>5 DEF PlaceTrailingStop, Abort
  <2>5. UNCHANGED id_cache
    BY <2>3, <2>4 DEF book
  <2> QED
    BY <1>3, <2>2, <2>5
<1> QED
  BY <1>4, <1>5

LEMMA MovesFitStep ==
    ASSUME AdvIInv, MovesFit, WholeNext
    PROVE  MovesFit'
<1>1. AdvControl'
  BY ControlStep
<1>2. LiftTrailingStop \/ PlaceTrailingStop => UNCHANGED <<need_check_for_stops, last>>
  BY DEF LiftTrailingStop, PlaceTrailingStop
<1>3. pc' = "trade" /\ ~ need_check_for_stops' =>
          swing'.high = swing'.old /\ swing'.low = swing'.old
  <2> SUFFICES ASSUME pc' = "trade", ~ need_check_for_stops'
               PROVE  swing'.high = swing'.old /\ swing'.low = swing'.old
    OBVIOUS
  <2>1. CASE RouteToBook
    BY <2>1, TradeSteps DEF Trading, RouteToBook
  <2>2. CASE Reduce /\ UNCHANGED need_check_for_stops
    BY <2>2 DEF Reduce, AdvIInv, AdvControl
  <2> QED
    BY <2>1, <2>2, TradeSteps
<1>4. CASE pc' # "adjust"
  BY <1>1, <1>3, <1>4 DEF MovesFit, AdvControl
<1>5. CASE LeaveLoop
  <2>1. /\ pc = "trade" /\ pc' = "adjust" /\ adjusting' = StopsToMove
        /\ UNCHANGED <<last, need_check_for_stops, held>>
    BY <1>5 DEF LeaveLoop
  <2>2. held' = NoHold
    BY <2>1, NothingHeld
  <2>3. /\ swing.low <= last /\ last <= swing.high
    BY <2>1 DEF AdvIInv, SwingFits, Trading
  <2>4. \A m \in StopsToMove : \/ m.side = "sell" /\ m.from = swing.high
                               \/ m.side = "buy" /\ m.from = swing.low
    BY DEF StopsToMove, Moves
  <2>5. \A m \in StopsToMove : Geq(m.side, last, m.from)
    BY <2>3, <2>4, LastFacts DEF Geq
  <2>6. StopsToMove # {} => need_check_for_stops
    <3>1. StopsToMove # {} => swing.high # swing.old \/ swing.low # swing.old
      BY LastFacts DEF StopsToMove
    <3> QED
      BY <2>1, <3>1 DEF MovesFit
  <2> QED
    BY <2>1, <2>2, <2>5, <2>6 DEF MovesFit, Geq
<1>6. CASE LiftTrailingStop /\ pc' = "adjust"
  <2>1. PICK m \in adjusting : NextMove(m) /\ held'.id = m.id /\ UNCHANGED adjusting
    BY <1>6, LiftFacts DEF Abort
  <2>2. NextMove(m)'
    BY <2>1 DEF NextMove
  <2> QED
    BY <1>2, <1>6, <2>1, <2>2 DEF MovesFit, Geq
<1>7. CASE PlaceTrailingStop /\ pc' = "adjust"
  <2>1. held' = NoHold /\ adjusting' \subseteq adjusting
    BY <1>7, PlaceFacts DEF Abort
  <2> QED
    BY <1>2, <1>7, <2>1 DEF MovesFit, Geq
<1> QED
  BY <1>4, <1>5, <1>6, <1>7, IntoAdjust

LEMMA NextIsOne ==
    ASSUME AdvIInv, NEW m \in adjusting, NEW o \in adjusting, NextMove(m), NextMove(o)
    PROVE  m.id = o.id
<1>1. m \in [id : Nat, side : Sides, from : Book] /\ o \in [id : Nat, side : Sides, from : Book]
  BY DEF AdvIInv, AdvTypes
<1>2. m.side = o.side
  BY <1>1 DEF NextMove, Sides
<1> QED
  BY <1>1, <1>2 DEF NextMove

\* A new trailing stop is as far from last as it was asked for.
LEMMA NewTrails ==
    ASSUME AdvIInv, WholeNext, NEW s \in Sides, NEW x \in Nat, Follows(x, s)',
           IsExit(x, s) \/ IsTrail(x, s)
    PROVE  /\ id_cache'[x].p = Offset(s, adv'[x].nticks, last)
           /\ UNCHANGED last /\ pc' = "drain"
           /\ adv'[x].nticks \in Nat \ {0}
<1>1. x \in trailing'[s] /\ x \in DOMAIN adv' /\ adv'[x].nticks # 0
  BY DEF Follows
<1>2. cur # NoOrder /\ cur \in AdvElem /\ ElemFits(cur)
  BY CurFacts DEF IsExit, IsTrail, ConcludeTarget, InsertTrailingStop, Between
<1>3. CASE IsExit(x, s)
  <2>1. /\ ConcludeTarget /\ x = last_id + 1 /\ UNCHANGED last /\ pc' = "drain"
        /\ PushStop(ExitStop, StopLevel(cur.p1, cur.cond = "trailing_bracket_active"))
    BY <1>3 DEF IsExit, ConcludeTarget, ExitStop, Done
  <2>2. /\ last_id + 1 \notin Known /\ last_id + 1 \notin Trails /\ last_id + 1 # cur.id
    BY <1>2, <2>1, TargetFacts, LastIdFacts, CurIsNotNamed DEF Known, Named
  <2>3. s = cur.p1.side
    BY <1>1, <2>1, <2>2, TrailingAfter DEF Trails, ConcludeTarget, InsertTrailingStop
  <2>4. adv'[x].nticks = Ticks
    <3>1. Tell(cur.parent, <<last_id + 1, cur.id>>,
               [y \in {cur.id, last_id + 1} |->
                   IF y = cur.id THEN ExitTo(last_id + 1, 0) ELSE ExitTo(cur.id, Ticks)])
      BY <2>1 DEF ConcludeTarget, ExitTo, Ticks
    <3>2. adv'[x] = ExitTo(cur.id, Ticks)
      BY <2>1, <2>2, <3>1 DEF Tell
    <3> QED
      BY <3>2 DEF ExitTo, Condition
  <2>5. cur.cond = "trailing_bracket_active" /\ Ticks = cur.p1.stop
    BY <1>1, <2>4 DEF Ticks
  <2>6. id_cache'[x].p = Offset(s, Ticks, last)
    <3>1. last_id + 1 \notin DOMAIN id_cache
      BY <2>2 DEF Known, Standing
    <3>2. Emplace(last_id + 1, [type |-> "stop", p |-> Offset(cur.p1.side, cur.p1.stop, last)])
      BY <2>1, <2>5 DEF PushStop, StopLevel, ExitStop
    <3> QED
      BY <2>1, <2>3, <2>5, <3>1, <3>2 DEF Emplace
  <2> QED
    BY <1>1, <1>2, <2>1, <2>4, <2>5, <2>6 DEF AdvElem, ParamsLeft
<1>4. CASE IsTrail(x, s)
  <2>1. InsertTrailingStop /\ x = cur.id /\ UNCHANGED last /\ ActiveStop(cur) /\ pc = "route"
    BY <1>4 DEF IsTrail, InsertTrailingStop
  <2>2. cur.id \notin Trails /\ cur.id \notin DOMAIN adv /\ cur.p1.side = cur.side
    BY <1>2, <2>1, CurIsNotNamed DEF ElemFits
  <2>3. StopLevel(cur.p1, TRUE) \in Book
    BY <1>1, <2>1, <2>2 DEF InsertTrailingStop
  <2>4. /\ pc' = "drain"
        /\ PushStop(TrailStop, StopLevel(cur.p1, TRUE))
        /\ Tell(cur.parent, <<cur.id, 0>>, [y \in {cur.id} |-> ExitTo(0, cur.p1.stop)])
    BY <2>1, <2>3 DEF InsertTrailingStop, TrailStop, Done, ExitTo
  <2>5. s = cur.side
    BY <1>1, <2>1, <2>2, TrailingAfter DEF Trails, ConcludeTarget
  <2>6. adv'[x].nticks = cur.p1.stop
    BY <2>1, <2>4 DEF Tell, ExitTo, Condition
  <2>7. id_cache'[x].p = Offset(s, cur.p1.stop, last)
    <3>1. cur.id \notin DOMAIN id_cache
      BY <2>1, TrailFacts
    <3>2. Emplace(cur.id, [type |-> "stop", p |-> Offset(cur.p1.side, cur.p1.stop, last)])
      BY <2>4 DEF PushStop, StopLevel, TrailStop
    <3> QED
      BY <2>1, <2>2, <2>5, <3>1, <3>2 DEF Emplace
  <2> QED
    BY <1>1, <1>2, <2>1, <2>4, <2>6, <2>7 DEF AdvElem, ParamsLeft
<1> QED
  BY <1>3, <1>4

LEMMA NoneFarStep ==
    ASSUME AdvIInv, FollowInv, WholeNext, Gone' = {}
    PROVE  NoneIsFar'
<1> SUFFICES ASSUME NEW s \in Sides, NEW x \in Nat, Follows(x, s)', ~ IsToMove(x, s)'
             PROVE  Geq(s, Offset(s, adv'[x].nticks, Anchor'), id_cache'[x].p)
  BY DEF NoneIsFar
<1>1. Gone = {}
  BY GoneStays DEF Gone
<1>2. AdvIInv'
  BY AdvStep
<1>3. NoneIsFar /\ TrailsAreKnown /\ MovesFit
  BY <1>1 DEF FollowInv
<1>4. UNCHANGED last \/ Match
  BY SwingStep
<1>5. CASE FollowedOn(x, s)
  <2> DEFINE n == adv[x].nticks
             p == id_cache[x].p
  <2>1. /\ n \in Nat \ {0} /\ p \in Int /\ Follows(x, s)
        /\ adv'[x].nticks = n /\ id_cache'[x].p = p
    BY <1>5, FollowFacts DEF FollowedOn
  <2>2. x \in DOMAIN id_cache /\ x \in trailing[s]
    BY <2>1 DEF Follows
  <2> HIDE DEF n, p
  <2>3. ~ IsToMove(x, s) => Geq(s, Offset(s, n, Anchor), p)
    BY <1>3, <2>1 DEF NoneIsFar, n, p
  <2>4. CASE pc \in Trading /\ pc' \in Trading
    <3>1. Anchor' = Anchor
      BY <2>4, TradeSteps DEF Anchor
    <3>2. ~ IsToMove(x, s)
      BY <2>4, NothingHeld DEF IsToMove, Trading
    <3> QED
      BY <2>1, <2>3, <3>1, <3>2
  <2>5. CASE pc \notin Trading /\ pc' \in Trading
    <3>1. RouteToBook /\ swing' = [old |-> last, high |-> last, low |-> last]
      BY <2>5, TradeSteps
    <3>2. Anchor' = last /\ Anchor = last
      BY <2>5, <3>1 DEF Anchor
    <3>3. ~ IsToMove(x, s)
      BY <3>1, NothingHeld DEF IsToMove, RouteToBook
    <3> QED
      BY <2>1, <2>3, <3>2, <3>3
  <2>6. CASE pc \in Trading /\ pc' \notin Trading
    <3>1. /\ pc = "trade" /\ adjusting' = StopsToMove /\ UNCHANGED last
      BY <2>6, TradeSteps DEF LeaveLoop
    <3>2. Anchor' = last /\ Anchor = swing.old
      BY <2>6, <3>1 DEF Anchor
    <3>3. ~ IsToMove(x, s)
      BY <3>1, NothingHeld DEF IsToMove
    <3>4. Geq(s, Offset(s, n, swing.old), p)
      BY <2>3, <3>2, <3>3
    <3>5. \A m \in StopsToMove : ~ (m.id = x /\ m.side = s)
      BY <3>1 DEF IsToMove
    <3>6. CASE s = "sell"
      <4>1. ~ (swing.high > swing.old)
        <5>1. [id |-> x, side |-> s, from |-> swing.high] \in Moves("sell", swing.high)
          BY <2>2, <3>6 DEF Moves
        <5> QED
          BY <3>5, <5>1 DEF StopsToMove
      <4>2. last <= swing.old
        BY <3>1, <4>1, LastFacts DEF AdvIInv, SwingFits, Trading
      <4> QED
        BY <2>1, <3>2, <3>4, <3>6, <4>2, LastFacts DEF Geq, Offset
    <3>7. CASE s = "buy"
      <4>1. ~ (swing.low < swing.old)
        <5>1. [id |-> x, side |-> s, from |-> swing.low] \in Moves("buy", swing.low)
          BY <2>2, <3>7 DEF Moves
        <5> QED
          BY <3>5, <5>1 DEF StopsToMove
      <4>2. swing.old <= last
        BY <3>1, <4>1, LastFacts DEF AdvIInv, SwingFits, Trading
      <4> QED
        BY <2>1, <3>2, <3>4, <3>7, <4>2, LastFacts DEF Geq, Offset
    <3> QED
      BY <3>6, <3>7 DEF Sides
  <2>7. CASE pc \notin Trading /\ pc' \notin Trading
    <3>1. UNCHANGED last
      BY <1>4, <2>7 DEF Match, Trading
    <3>2. Anchor' = last /\ Anchor = last
      BY <2>7, <3>1 DEF Anchor
    <3>3. ~ IsToMove(x, s)
      <4>1. CASE pc # "adjust"
        BY <4>1, NothingHeld DEF IsToMove
      <4>2. CASE pc = "adjust" /\ LeaveTrade
        BY <4>2 DEF LeaveTrade, IsToMove
      <4>3. CASE LiftTrailingStop
        BY <4>3, LiftFacts, AbortLoses DEF IsToMove
      <4>4. CASE PlaceTrailingStop
        <5>1. PICK m \in adjusting : NextMove(m) /\ adjusting' = adjusting \ {m}
          BY <4>4, PlaceFacts, AbortLoses
        <5>2. PICK o \in adjusting : NextMove(o) /\ o.id = held.id
          BY <1>3, <4>4 DEF MovesFit, PlaceTrailingStop
        <5>3. m.id = o.id
          BY <5>1, <5>2, NextIsOne
        <5>4. m.id # x
          BY <2>2, <4>4, <5>2, <5>3, PlaceFacts
        <5> QED
          BY <5>1, <5>4 DEF IsToMove
      <4> QED
        BY <4>1, <4>2, <4>3, <4>4, AtAdjust
    <3> QED
      BY <2>1, <2>3, <3>2, <3>3
  <2> QED
    BY <2>4, <2>5, <2>6, <2>7
<1>6. CASE IsPlaced(x, s)
  <2>1. /\ PlaceTrailingStop /\ x = held.id /\ held # NoHold /\ pc = "adjust"
        /\ UNCHANGED <<last, adv>>
    BY <1>6, AbortLoses DEF IsPlaced, PlaceTrailingStop
  <2>2. PICK m \in adjusting :
            /\ NextMove(m)
            /\ JoinsStop(held, Offset(held.side, adv[x].nticks, m.from))
            /\ UNCHANGED pc
    BY <2>1, PlaceFacts, AbortLoses
  <2>3. PICK o \in adjusting : NextMove(o) /\ o.id = held.id
    BY <1>3, <2>1 DEF MovesFit
  <2>4. m.id = x /\ m.side \in Sides /\ m.from \in Int
    <3>1. m.id = o.id
      BY <2>2, <2>3, NextIsOne
    <3>2. m \in [id : Nat, side : Sides, from : Book]
      BY DEF AdvIInv, AdvTypes
    <3> QED
      BY <2>1, <2>3, <3>1, <3>2, CacheFacts, BookFacts
  <2>5. held \in StopOrders /\ x \in trailing[m.side]
    BY <2>1, <2>4 DEF StopOrders, HeldOrders, AdvIInv, Links
  <2>6. held.side = m.side
    BY <1>3, <2>1, <2>4, <2>5 DEF TrailsAreKnown
  <2>7. x \in trailing[s]
    BY <2>1, TrailingAfter, AtAdjust DEF Follows
  <2>8. s = m.side
    BY <1>3, <2>1, <2>5, <2>6, <2>7 DEF TrailsAreKnown
  <2>9. id_cache'[x].p = Offset(s, adv[x].nticks, m.from)
    BY <2>1, <2>2, <2>6, <2>8, PlaceFacts DEF JoinsStop, Emplace
  <2>10. Geq(s, last, m.from) /\ Anchor' = last
    BY <1>3, <2>1, <2>2, <2>8 DEF MovesFit, Anchor, Trading
  <2>11. adv'[x].nticks = adv[x].nticks /\ adv[x].nticks \in Nat
    <3>1. adv[x] \in CondElem
      BY <2>1 DEF Follows, AdvIInv, AdvTypes, CondTypes
    <3> QED
      BY <2>1, <3>1 DEF CondElem
  <2> QED
    BY <2>4, <2>9, <2>10, <2>11, LastFacts DEF Geq, Offset
<1>7. CASE IsExit(x, s) \/ IsTrail(x, s)
  <2>1. /\ id_cache'[x].p = Offset(s, adv'[x].nticks, last)
        /\ UNCHANGED last /\ pc' = "drain"
    BY <1>7, NewTrails
  <2>2. Anchor' = last
    BY <2>1 DEF Anchor, Trading
  <2>3. id_cache'[x].p \in Int
    <3>1. id_cache'[x].p \in Levels /\ Levels \subseteq Int
      <4>1. id_cache'[x] \in CacheElem
        BY <1>2 DEF AdvIInv, AdvTypes, BookTypeOK, Follows
      <4> QED
        BY <4>1 DEF CacheElem, Levels
    <3> QED
      BY <3>1
  <2> QED
    BY <2>1, <2>2, <2>3 DEF Geq
<1> QED
  BY <1>5, <1>6, <1>7, FollowsAfter

\* An order that is cached as a stop rests at its price, if no chain was taken.
LEMMA StopRests ==
    ASSUME AdvIInv, cchain = <<>>, NEW x \in DOMAIN id_cache, id_cache[x].type = "stop"
    PROVE  /\ RestingStop(x) \in ToSet(stops[id_cache[x].p])
           /\ RestingStop(x) \in StopOrders
           /\ RestingStop(x).id = x
<1> DEFINE p == id_cache[x].p
           chain == stops[p]
<1>1. p \in Levels
  BY CacheFacts
<1>2. PICK b \in ToSet(chain) : b.id = x
  <2>1. ToSet(cchain) = {}
    BY DEF ToSet
  <2> QED
    BY <2>1 DEF AdvIInv, Placed, CachedStand, ChainOf
<1>3. \E i \in 1 .. Len(chain) : chain[i].id = x
  BY <1>1, <1>2, CacheFacts DEF ToSet
<1>4. (CHOOSE i \in 1 .. Len(chain) : chain[i].id = x) \in 1 .. Len(chain)
      /\ RestingStop(x).id = x
  BY <1>3 DEF RestingStop
<1>5. RestingStop(x) \in ToSet(chain)
  <2>1. PICK i \in 1 .. Len(chain) : RestingStop(x) = chain[i]
    BY <1>4 DEF RestingStop
  <2>2. chain \in Seq(StopBndl)
    BY <1>1, CacheFacts
  <2> QED
    BY <2>1, <2>2 DEF ToSet
<1> QED
  BY <1>1, <1>4, <1>5 DEF StopOrders

LEMMA NoneReachedStep ==
    ASSUME AdvIInv, FollowInv, WholeNext, Gone' = {}
    PROVE  NoneIsReached'
<1>1. Gone = {}
  BY GoneStays DEF Gone
<1>2. NoneIsReached /\ TrailsAreKnown /\ MovesFit /\ BuyStopsDone
  BY <1>1 DEF FollowInv
<1>3. EndSellScan => /\ ~ need_check_for_stops' /\ pc = "scan_sell"
                     /\ UNCHANGED <<last, id_cache>>
  BY DEF EndSellScan, book
<1>4. Match => need_check_for_stops'
  BY DEF Match, TradeHasOccured
<1>5. pc' \notin LoopPlaces => ~ need_check_for_stops'
  <2>1. CASE pc \in LoopPlaces
    <3>1. LeaveTrade => ~ Match /\ ~ EndSellScan
      BY <1>3, <1>4, FlagSteps DEF LeaveTrade, Match
    <3> QED
      BY <1>3, <2>1, <3>1, FlagSteps, AbortLoses
  <2>2. CASE pc \notin LoopPlaces
    <3>1. ~ need_check_for_stops
      BY <1>2, <2>2 DEF NoneIsReached, LoopPlaces
    <3>2. ~ Match /\ ~ EndSellScan
      BY <2>2 DEF Match, EndSellScan, LoopPlaces, Trading, Scanning
    <3> QED
      BY <3>1, <3>2, FlagSteps
  <2> QED
    BY <2>1, <2>2
<1>6. ASSUME ~ need_check_for_stops', NEW s \in Sides, NEW x \in Nat, Follows(x, s)'
      PROVE  Gt(s, id_cache'[x].p, last')
  <2>1. CASE EndSellScan
    <3>1. FollowedOn(x, s)
      BY <1>3, <1>6, <2>1, FollowsAfter
      DEF IsPlaced, IsExit, IsTrail, PlaceTrailingStop, ConcludeTarget, InsertTrailingStop
    <3> DEFINE p == id_cache[x].p
    <3>2. /\ x \in trailing[s] /\ x \in DOMAIN id_cache /\ id_cache[x].type = "stop"
          /\ id_cache'[x].p = p /\ p \in Levels
      BY <3>1, CacheFacts DEF FollowedOn, Follows
    <3>3. cchain = <<>>
      BY <1>3, <2>1 DEF AdvIInv, AdvControl
    <3>4. RestingStop(x).side = s
      BY <1>2, <3>2, <3>3, StopRests DEF TrailsAreKnown
    <3>5. HasOrder(stops, p, s)
      <4>1. RestingStop(x) \in ToSet(stops[p]) /\ stops[p] \in Seq(StopBndl)
        BY <3>2, <3>3, StopRests, CacheFacts
      <4> QED
        BY <3>4, <4>1 DEF HasOrder, ToSet
    <3>6. Gt(s, p, last)
      BY <1>2, <2>1, <3>2, <3>5, NoneLeftReached
    <3> QED
      BY <1>3, <2>1, <3>2, <3>6
  <2>2. CASE ~ EndSellScan
    <3>1. ~ need_check_for_stops /\ UNCHANGED last
      BY <1>4, <1>6, <2>2, FlagSteps, SwingStep
    <3>2. CASE FollowedOn(x, s)
      BY <1>2, <3>1, <3>2 DEF FollowedOn, NoneIsReached
    <3>3. ~ IsPlaced(x, s)
      BY <1>2, <3>1, PlaceFacts DEF IsPlaced, MovesFit
    <3>4. CASE IsExit(x, s) \/ IsTrail(x, s)
      <4>1. /\ id_cache'[x].p = Offset(s, adv'[x].nticks, last)
            /\ adv'[x].nticks \in Nat \ {0}
        BY <1>6, <3>4, NewTrails
      <4> QED
        BY <3>1, <4>1, LastFacts DEF Gt, Offset
    <3> QED
      BY <1>6, <3>2, <3>3, <3>4, FollowsAfter
  <2> QED
    BY <2>1, <2>2
<1> QED
  BY <1>5, <1>6 DEF NoneIsReached, LoopPlaces

LEMMA FollowStep ==
    ASSUME AdvIInv, FollowInv, WholeNext
    PROVE  FollowInv'
<1>1. BuyStopsDone' /\ TrailsAreKnown' /\ MovesFit'
  BY BuyStopsDoneStep, TrailsKnownStep, MovesFitStep DEF FollowInv
<1> QED
  BY <1>1, NoneFarStep, NoneReachedStep DEF FollowInv

LEMMA FollowStutter ==
    ASSUME FollowInv, UNCHANGED bvars
    PROVE  FollowInv'
<1>1. /\ UNCHANGED <<limits, stops, id_cache, best, worst, near, far>>
      /\ UNCHANGED <<last, beg, end, last_id, total_volume, need_check_for_stops>>
      /\ UNCHANGED <<internal_queue, cur, scan, pc>>
      /\ UNCHANGED <<adv, trailing, swing, hit, adjusting, held, cchain>>
  BY DEF bvars, vars, adv_vars
<1>2. StopOrders' = StopOrders /\ Trails' = Trails /\ Gone' = Gone
  BY <1>1 DEF StopOrders, HeldOrders, Trails, Gone, HeldIds
<1>3. BuyStopsDone' /\ TrailsAreKnown' /\ MovesFit'
  BY <1>1, <1>2 DEF FollowInv, BuyStopsDone, TrailsAreKnown, MovesFit, NextMove, Gt, Geq
<1>4. Gone' = {} => NoneIsFar' /\ NoneIsReached'
  BY <1>1, <1>2
  DEF FollowInv, NoneIsFar, NoneIsReached, Follows, IsToMove, Anchor, Gt, Geq, Offset
<1> QED
  BY <1>3, <1>4 DEF FollowInv

LEMMA FollowInit == AdvInit => FollowInv
<1> SUFFICES ASSUME AdvInit PROVE FollowInv
  OBVIOUS
<1>1. /\ pc = "idle" /\ ~ need_check_for_stops /\ held = NoHold /\ adjusting = {}
      /\ trailing = [s \in Sides |-> {}] /\ DOMAIN adv = {}
  BY DEF AdvInit, Init
<1> QED
  BY <1>1
  DEF FollowInv, BuyStopsDone, TrailsAreKnown, MovesFit, NoneIsFar, NoneIsReached, Follows

\* Between two calls every trailing stop is no farther from the last price than
\* the ticks it was given, and last has not reached it - unless an exception has
\* lost a trailing stop on its way: trade_hit moves the stops from the extremes
\* of the trade, and those that last has then reached must have triggered.
THEOREM AdvTrailingStopsFollow == AdvSpec => []TrailingStopsFollow
<1>1. ASSUME AdvIInv, FollowInv
      PROVE  TrailingStopsFollow
  <2> SUFFICES ASSUME pc = "idle", Lost = {}, NEW id \in DOMAIN adv,
                      adv[id].nticks # 0, id_cache[id].type = "stop"
               PROVE  /\ Geq(StopSide(id), Offset(StopSide(id), adv[id].nticks, last),
                             id_cache[id].p)
                      /\ Gt(StopSide(id), id_cache[id].p, last)
    BY DEF TrailingStopsFollow
  <2>1. cchain = <<>> /\ held = NoHold /\ adjusting = {}
    BY <1>1 DEF AdvIInv, AdvControl
  <2>2. Gone = {}
    BY DEF Gone, Lost, Trails
  <2>3. NoneIsFar /\ NoneIsReached /\ TrailsAreKnown
    BY <1>1, <2>2 DEF FollowInv
  <2>4. PICK s \in Sides : id \in trailing[s]
    BY <2>3 DEF TrailsAreKnown, Trails
  <2>5. id \in DOMAIN id_cache /\ id \in Nat
    <3>1. id \in DOMAIN id_cache
      BY <2>4 DEF Lost
    <3> QED
      BY <1>1, <3>1, CacheFacts
  <2>6. StopSide(id) = s
    BY <1>1, <2>1, <2>3, <2>4, <2>5, StopRests DEF TrailsAreKnown, StopSide
  <2>7. Follows(id, s) /\ ~ IsToMove(id, s) /\ Anchor = last /\ ~ need_check_for_stops
    BY <2>1, <2>3, <2>4, <2>5
    DEF Follows, IsToMove, Anchor, NoneIsReached, Trading, Scanning
  <2> QED
    BY <2>3, <2>5, <2>6, <2>7 DEF NoneIsFar, NoneIsReached
<1>2. ASSUME AdvIInv \/ Torn, Torn \/ FollowInv, [AdvNext]_bvars
      PROVE  Torn' \/ FollowInv'
  <2>1. CASE UNCHANGED bvars
    BY <1>2, <2>1, FollowStutter, TornStutter
  <2>2. CASE AdvNext
    BY <1>2, <2>2, StepIsWhole, FollowStep, TearsForLost DEF Torn
  <2> QED
    BY <1>2, <2>1, <2>2
<1>3. Torn => TrailingStopsFollow
  BY DEF Torn, TrailingStopsFollow
<1> QED
  BY <1>1, <1>2, <1>3, FollowInit, InvariantOrTorn, PTL DEF AdvSpec
=============================================================================
