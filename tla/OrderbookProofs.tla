-------------------------- MODULE OrderbookProofs --------------------------
(***************************************************************************)
(* Proofs about Orderbook, for every size of the book, every set of sizes  *)
(* and every number of orders.                                             *)
(***************************************************************************)
EXTENDS Orderbook, TLAPS, SequenceTheorems

-----------------------------------------------------------------------------
(* Sequences. *)

\* Taking one element out of a sequence keeps the others, in their order.
LEMMA RemoveAtType ==
    ASSUME NEW S, NEW c \in Seq(S), NEW i \in 1 .. Len(c)
    PROVE  /\ RemoveAt(c, i) \in Seq(S)
           /\ Len(RemoveAt(c, i)) = Len(c) - 1
           /\ \A j \in 1 .. Len(c) - 1 :
                  RemoveAt(c, i)[j] = IF j < i THEN c[j] ELSE c[j + 1]
<1> DEFINE left == SubSeq(c, 1, i - 1)
           right == SubSeq(c, i + 1, Len(c))
<1>1. /\ left \in Seq(S) /\ Len(left) = i - 1
      /\ \A j \in 1 .. i - 1 : left[j] = c[j]
  BY SubSeqProperties, ElementOfSeq
<1>2. /\ right \in Seq(S) /\ Len(right) = Len(c) - i
      /\ \A j \in 1 .. Len(c) - i : right[j] = c[i + j]
  BY SubSeqProperties, ElementOfSeq
<1>3. RemoveAt(c, i) = left \o right
  BY DEF RemoveAt
<1> HIDE DEF left, right
<1>4. /\ left \o right \in Seq(S)
      /\ Len(left \o right) = Len(left) + Len(right)
      /\ \A j \in 1 .. Len(left) + Len(right) : (left \o right)[j] =
             IF j <= Len(left) THEN left[j] ELSE right[j - Len(left)]
  BY <1>1, <1>2, ConcatProperties, Zenon
<1>5. Len(left) + Len(right) = Len(c) - 1
  BY <1>1, <1>2, LenProperties
<1>6. ASSUME NEW j \in 1 .. Len(c) - 1
      PROVE  RemoveAt(c, i)[j] = IF j < i THEN c[j] ELSE c[j + 1]
  <2>1. CASE j < i
    BY <1>1, <1>3, <1>4, <1>5, <2>1
  <2>2. CASE j >= i
    <3>1. /\ (left \o right)[j] = right[j - (i - 1)]
          /\ j - (i - 1) \in 1 .. Len(c) - i
          /\ i + (j - (i - 1)) = j + 1
      BY <1>1, <1>2, <1>4, <1>5, <2>2, LenProperties
    <3> QED
      BY <1>2, <1>3, <2>2, <3>1
  <2> QED
    BY <2>1, <2>2
<1> QED
  BY <1>3, <1>4, <1>5, <1>6

\* Taking the front off a chain is taking the element at 1 out of it.
LEMMA TailIsRemoveAt ==
    ASSUME NEW S, NEW b \in Seq(S), b # <<>>
    PROVE  Tail(b) = RemoveAt(b, 1)
<1>1. /\ Tail(b) \in Seq(S) /\ Len(Tail(b)) = Len(b) - 1 /\ Len(b) \in Nat
      /\ \A i \in 1 .. Len(Tail(b)) : Tail(b)[i] = b[i + 1]
      /\ 1 \in 1 .. Len(b)
  BY HeadTailProperties, LenProperties, EmptySeq
<1>2. /\ RemoveAt(b, 1) \in Seq(S) /\ Len(RemoveAt(b, 1)) = Len(b) - 1
      /\ \A i \in 1 .. Len(b) - 1 : RemoveAt(b, 1)[i] = b[i + 1]
  <2>1. /\ RemoveAt(b, 1) \in Seq(S) /\ Len(RemoveAt(b, 1)) = Len(b) - 1
        /\ \A i \in 1 .. Len(b) - 1 :
               RemoveAt(b, 1)[i] = IF i < 1 THEN b[i] ELSE b[i + 1]
    BY <1>1, RemoveAtType
  <2>2. \A i \in 1 .. Len(b) - 1 : ~ (i < 1)
    BY <1>1
  <2> QED
    BY <2>1, <2>2, Zenon
<1> QED
  BY <1>1, <1>2, SeqEqual

\* What a client may send is a queue element with a size and prices in the
\* book: what check_order_params and the price checks let through.
LEMMA ClientOrderFacts ==
    ASSUME TypeOK, NEW e \in ClientOrders
    PROVE  /\ e \in QueueElem
           /\ e.sz > 0
           /\ e.type = "limit" => e.limit \in Book
           /\ e.type = "stop" => e.stop \in Book /\ e.limit \in Book \cup {0}
<1>1. \/ \E s \in Sides, p \in Book, n \in Sizes : e = LimitOrder(s, p, n)
      \/ \E s \in Sides, n \in Sizes : e = MarketOrder(s, n)
      \/ \E s \in Sides, p \in Book, lim \in Book \cup {0}, n \in Sizes :
             e = StopOrder(s, p, lim, n)
  BY DEF ClientOrders
<1> USE SizesAssumption, BookAssumption
    DEF QueueElem, Book, TypeOK, BookTypeOK, Levels, Sides
<1>2. CASE \E s \in Sides, p \in Book, n \in Sizes : e = LimitOrder(s, p, n)
  BY <1>2 DEF LimitOrder
<1>3. CASE \E s \in Sides, n \in Sizes : e = MarketOrder(s, n)
  BY <1>3 DEF MarketOrder
<1>4. CASE \E s \in Sides, p \in Book, lim \in Book \cup {0}, n \in Sizes :
              e = StopOrder(s, p, lim, n)
  BY <1>4 DEF StopOrder
<1> QED
  BY <1>1, <1>2, <1>3, <1>4

\* The book that create() makes has its type.
LEMMA InitTypeOK == Init => TypeOK
<1> SUFFICES ASSUME Init PROVE TypeOK
  OBVIOUS
<1>1. limits \in [Levels -> Seq(LimitBndl)] /\ stops \in [Levels -> Seq(StopBndl)]
  BY EmptySeq DEF Init
<1>2. /\ DOMAIN id_cache \subseteq Nat
      /\ \A i \in DOMAIN id_cache : id_cache[i] \in CacheElem
  BY DEF Init
<1>3. /\ best \in [Sides -> Pointers] /\ worst \in [Sides -> Pointers]
      /\ near \in [Sides -> Pointers] /\ far \in [Sides -> Pointers]
  BY BookAssumption DEF Init, Sides, Pointers
<1>4. cur \in QueueElem /\ internal_queue \in Seq(QueueElem)
  BY BookAssumption, EmptySeq DEF Init, NoOrder, QueueElem, Sides
<1>5. /\ last \in 0 .. MaxLevel /\ scan \in Pointers
      /\ beg \in Levels /\ end \in 2 .. MaxLevel + 1 /\ beg + 3 <= end
      /\ last_id \in Nat /\ total_volume \in Nat
  BY BookAssumption DEF Init, Levels, Pointers
<1>6. /\ need_check_for_stops \in BOOLEAN
      /\ pc \in {"idle", "route", "trade", "scan_buy", "scan_sell", "settle",
                 "drain"}
  BY DEF Init
<1> QED
  BY <1>1, <1>2, <1>3, <1>4, <1>5, <1>6, Zenon DEF TypeOK, BookTypeOK

\* An empty book satisfies the inductive invariant.
LEMMA InitIInv == Init => IInv
<1> SUFFICES ASSUME Init PROVE IInv
  OBVIOUS
<1>1. TypeOK
  BY InitTypeOK
<1>2. PricesInBook /\ ControlState
  BY BookAssumption, EmptySeq
     DEF Init, PricesInBook, ControlState, NoOrder, Levels, Book
<1>3. \A l \in Levels, s \in Sides :
          ~ HasOrder(limits, l, s) /\ ~ HasOrder(stops, l, s)
  BY DEF Init, HasOrder
<1>4. LimitWindows /\ StopWindows
  BY <1>3 DEF Init, LimitWindows, StopWindows, NullLow, NullHigh, Sides
<1>5. Uncrossed /\ BestIsNotTradable /\ ScanPosition
  BY BookAssumption DEF Init, Uncrossed, BestIsNotTradable, ScanPosition, Sides
<1> QED
  BY <1>1, <1>2, <1>4, <1>5 DEF IInv

-----------------------------------------------------------------------------
(* Facts that the steps use. *)

\* The price _trade is given, simulated for a market order, is in the book.
LEMMA PLevelInBook ==
    ASSUME IInv, cur.type # "stop"
    PROVE  PLevel(cur) \in Book
<1>1. beg \in Book /\ end - 1 \in Book
  BY BookAssumption DEF IInv, TypeOK, BookTypeOK, Book, Levels
<1> QED
  BY <1>1 DEF IInv, PricesInBook, PLevel

\* while the loop of _trade runs, the chain it hits is in the book and has orders
LEMMA TradeHitsAChain ==
    ASSUME IInv, pc = "trade", KeepsTrading(cur), NEW r, r = Opp(cur.side)
    PROVE  /\ r \in Sides
           /\ best[r] \in Book
           /\ best[r] \in Levels
           /\ limits[best[r]] \in Seq(LimitBndl)
           /\ limits[best[r]] # <<>>
           /\ Head(limits[best[r]]) \in LimitBndl
           /\ cur.sz > 0
<1>1. r \in Sides /\ cur.side \in Sides /\ cur.sz > 0
  BY DEF IInv, TypeOK, BookTypeOK, QueueElem, Opp, Sides, KeepsTrading
<1>2. PLevel(cur) \in Book
  BY PLevelInBook DEF IInv, ControlState
<1>3. beg \in Nat /\ end \in Nat /\ beg \in 1 .. MaxLevel /\ end <= MaxLevel + 1
  BY BookAssumption DEF IInv, TypeOK, BookTypeOK, Levels
<1>4. best[r] # NullLow(r)
  BY <1>1, <1>2, <1>3 DEF KeepsTrading, Geq, NullLow, Book, Sides
<1>5. best[r] \in Book /\ limits[best[r]] # <<>>
  BY <1>1, <1>4 DEF IInv, LimitWindows
<1>6. best[r] \in Levels
  BY <1>3, <1>5, BookAssumption DEF Book, Levels
<1>7. limits[best[r]] \in Seq(LimitBndl)
  BY <1>6 DEF IInv, TypeOK, BookTypeOK
<1> QED
  BY <1>1, <1>5, <1>6, <1>7, HeadTailProperties

\* The loop over the stops only visits levels of the book.
LEMMA ScanInLevels ==
    ASSUME IInv, NEW s \in Sides,
           \/ s = "buy" /\ pc = "scan_buy"
           \/ s = "sell" /\ pc = "scan_sell",
           Geq(s, last, scan)
    PROVE  scan \in Book /\ scan \in Levels /\ last \in Book
<1>1. last \in Book
  BY DEF IInv, ControlState
<1>2. scan \in Book \cup {NullHigh(s)}
  BY DEF IInv, ScanPosition
<1>3. beg \in 1 .. MaxLevel /\ end \in 2 .. MaxLevel + 1 /\ MaxLevel \in Nat
  BY BookAssumption DEF IInv, TypeOK, BookTypeOK, Levels
<1>4. scan \in Book
  BY <1>1, <1>2, <1>3 DEF Book, NullHigh, Geq, Sides
<1> QED
  BY <1>1, <1>3, <1>4 DEF Book, Levels

-----------------------------------------------------------------------------
(* The part of IInv that is about the book and its pointers alone.  The     *)
(* lemmas that need no more of IInv assume only this part.                  *)

BookInv ==
    /\ BookTypeOK
    /\ LimitWindows
    /\ Uncrossed
    /\ StopWindows

LEMMA BookOfIInv == IInv => BookInv
BY DEF IInv, TypeOK, BookInv

-----------------------------------------------------------------------------
(* Types.  First the operators that set the pointers, then the actions. *)

\* The ends of the book, its null pointers and the steps of a pointer lie in
\* the ranges that the pointers have.
LEMMA PointerFacts ==
    ASSUME BookTypeOK
    PROVE  /\ MaxLevel \in Nat
           /\ beg \in 1 .. MaxLevel /\ end \in 2 .. MaxLevel + 1
           /\ beg + 3 <= end
           /\ Book \subseteq Levels /\ Levels \subseteq Pointers
           /\ \A s \in Sides : /\ NullLow(s) \in Pointers
                               /\ NullHigh(s) \in Pointers
                               /\ \A p \in Levels : Inc(s, p) \in Pointers
BY BookAssumption
   DEF BookTypeOK, Book, Levels, Pointers, Sides, NullLow, NullHigh, Inc

\* find_new_best_inside leaves best and worst in range.
LEMMA FindNewBestType ==
    ASSUME BookTypeOK, NEW s \in Sides, NEW lims, NEW low \in Pointers,
           FindNewBestInside(s, lims, low)
    PROVE  best' \in [Sides -> Pointers] /\ worst' \in [Sides -> Pointers]
<1>1. PICK b \in Book \cup {NullLow(s)} :
          /\ best' = [best EXCEPT ![s] = b]
          /\ worst' = [worst EXCEPT ![s] =
                          IF b = NullLow(s) THEN NullHigh(s)
                          ELSE IF Gt(s, low, b) THEN b ELSE low]
  BY DEF FindNewBestInside
<1>2. b \in Pointers /\ NullHigh(s) \in Pointers
  BY PointerFacts
<1> QED
  BY <1>1, <1>2 DEF BookTypeOK

\* Erasing ids keeps the type of the cache.
LEMMA EraseType ==
    ASSUME BookTypeOK, NEW ids, Erase(ids)
    PROVE  /\ DOMAIN id_cache' \subseteq Nat
           /\ \A i \in DOMAIN id_cache' : id_cache'[i] \in CacheElem
BY DEF BookTypeOK, Erase

\* Emplacing an order keeps the type of the cache.
LEMMA EmplaceType ==
    ASSUME BookTypeOK, NEW id \in Nat, NEW elem \in CacheElem, Emplace(id, elem)
    PROVE  /\ DOMAIN id_cache' \subseteq Nat
           /\ \A i \in DOMAIN id_cache' : id_cache'[i] \in CacheElem
BY DEF BookTypeOK, Emplace

\* _pull_order keeps the types of the chains, the cache and the pointers.
LEMMA PullType ==
    ASSUME BookTypeOK, NEW id, Pull(id)
    PROVE  /\ limits' \in [Levels -> Seq(LimitBndl)]
           /\ stops' \in [Levels -> Seq(StopBndl)]
           /\ DOMAIN id_cache' \subseteq Nat
           /\ \A i \in DOMAIN id_cache' : id_cache'[i] \in CacheElem
           /\ best' \in [Sides -> Pointers] /\ worst' \in [Sides -> Pointers]
           /\ near' \in [Sides -> Pointers] /\ far' \in [Sides -> Pointers]
<1>1. BookTypeOK /\ id_cache[id].p \in Levels
  BY DEF Pull, BookTypeOK, CacheElem
<1>2. CASE id_cache[id].type = "limit" /\ PopLimit(id)
  <2> DEFINE p == id_cache[id].p
             s == IF p <= best["buy"] THEN "buy" ELSE "sell"
  <2>1. PICK i \in 1 .. Len(limits[p]) :
            /\ limits' = [limits EXCEPT ![p] = RemoveAt(@, i)]
            /\ Erase({id})
            /\ IF limits'[p] = <<>>
               THEN LimitAfterPull(s, limits', p)
               ELSE UNCHANGED <<best, worst>>
            /\ UNCHANGED <<stops, near, far>>
    BY <1>2, Zenon DEF PopLimit
  <2>2. limits' \in [Levels -> Seq(LimitBndl)]
    BY <1>1, <2>1, RemoveAtType DEF BookTypeOK
  <2>3. s \in Sides
    BY DEF Sides
  <2>4. best' \in [Sides -> Pointers] /\ worst' \in [Sides -> Pointers]
    <3>1. CASE LimitAfterPull(s, limits', p)
      <4> DEFINE low == IF p = worst[s] THEN Inc(s, p) ELSE worst[s]
      <4>1. low \in Pointers
        BY <1>1, <2>3, PointerFacts DEF BookTypeOK
      <4>2. \/ FindNewBestInside(s, limits', low)
            \/ worst' = [worst EXCEPT ![s] = low] /\ UNCHANGED best
        BY <3>1, Zenon DEF LimitAfterPull
      <4> HIDE DEF s, low
      <4> QED
        BY <1>1, <2>3, <4>1, <4>2, FindNewBestType DEF BookTypeOK
    <3>2. CASE UNCHANGED <<best, worst>>
      BY <3>2 DEF BookTypeOK
    <3> QED
      BY <2>1, <3>1, <3>2, Zenon
  <2> QED
    BY <1>1, <2>1, <2>2, <2>4, EraseType DEF BookTypeOK
<1>3. CASE id_cache[id].type = "stop" /\ PopStop(id)
  <2> DEFINE p == id_cache[id].p
  <2>1. PICK i \in 1 .. Len(stops[p]) :
            /\ stops' = [stops EXCEPT ![p] = RemoveAt(@, i)]
            /\ Erase({id})
            /\ IF stops'[p] = <<>>
               THEN StopAfterPull(stops[p][i].side, p)
               ELSE UNCHANGED <<near, far>>
            /\ UNCHANGED <<limits, best, worst>>
    BY <1>3, Zenon DEF PopStop
  <2>2. stops' \in [Levels -> Seq(StopBndl)]
    BY <1>1, <2>1, RemoveAtType DEF BookTypeOK
  <2>3. stops[p][i].side \in Sides
    <3>1. stops[p] \in Seq(StopBndl)
      BY <1>1 DEF BookTypeOK
    <3>2. stops[p][i] \in StopBndl
      BY <3>1, ElementOfSeq
    <3> QED
      BY <3>2 DEF StopBndl
  <2>4. near' \in [Sides -> Pointers] /\ far' \in [Sides -> Pointers]
    <3>1. CASE StopAfterPull(stops[p][i].side, p)
      <4>1. ASSUME NEW s \in Sides, StopAfterPull(s, p)
            PROVE  near' \in [Sides -> Pointers] /\ far' \in [Sides -> Pointers]
        <5>1. /\ NullLow(s) \in Pointers /\ NullHigh(s) \in Pointers
              /\ Inc(s, p) \in Pointers /\ Inc(Opp(s), p) \in Pointers
          BY <1>1, PointerFacts DEF Opp, Sides
        <5> QED
          BY <4>1, <5>1 DEF StopAfterPull, BookTypeOK
      <4> QED
        BY <2>3, <3>1, <4>1
    <3>2. CASE UNCHANGED <<near, far>>
      BY <3>2 DEF BookTypeOK
    <3> QED
      BY <2>1, <3>1, <3>2, Zenon
  <2> QED
    BY <1>1, <2>1, <2>2, <2>4, EraseType DEF BookTypeOK
<1> QED
  BY <1>2, <1>3 DEF Pull

\* A call between two windows keeps all types.
LEMMA ClientType ==
    ASSUME IInv, Client
    PROVE  TypeOK'
<1> USE DEF IInv
<1>1. ASSUME NEW e \in ClientOrders, StartOrder(e)
      PROVE  cur' \in QueueElem /\ last_id' \in Nat /\ pc' = "route"
  <2>1. last_id + 1 \in Nat
    BY DEF TypeOK, BookTypeOK
  <2> QED
    BY <1>1, <2>1, ClientOrderFacts DEF StartOrder, QueueElem, TypeOK, BookTypeOK
<1>2. CASE \E e \in ClientOrders : InsertOrder(e)
  BY <1>1, <1>2 DEF InsertOrder, TypeOK, BookTypeOK, book, pointers
<1>3. CASE \E id \in DOMAIN id_cache : PullOrder(id)
  BY <1>3, PullType, Zenon DEF PullOrder, TypeOK, BookTypeOK
<1>4. CASE \E id \in DOMAIN id_cache, e \in ClientOrders : ReplaceOrder(id, e)
  <2>1. PICK id \in DOMAIN id_cache, e \in ClientOrders : ReplaceOrder(id, e)
    BY <1>4
  <2>2. Pull(id) /\ StartOrder(e)
    BY <2>1 DEF ReplaceOrder
  <2> QED
    BY <1>1, <2>1, <2>2, PullType DEF ReplaceOrder, TypeOK, BookTypeOK
<1>5. CASE \E e \in InitEnd .. MaxLevel + 1 : GrowBookAbove(e)
  <2>1. PICK e \in InitEnd .. MaxLevel + 1 : GrowBookAbove(e)
    BY <1>5
  <2>2. e \in Pointers /\ e \in 2 .. MaxLevel + 1
    BY BookAssumption DEF Pointers
  <2> QED
    BY <2>1, <2>2, BookAssumption
       DEF GrowBookAbove, TypeOK, BookTypeOK, book, Sides, Levels
<1>6. CASE \E b \in 1 .. InitBeg : GrowBookBelow(b)
  <2>1. PICK b \in 1 .. InitBeg : GrowBookBelow(b)
    BY <1>6
  <2>2. b \in Levels /\ b - 1 \in Pointers
    BY BookAssumption DEF Pointers, Levels
  <2> QED
    BY <2>1, <2>2, BookAssumption
       DEF GrowBookBelow, TypeOK, BookTypeOK, book, Sides, Levels
<1> QED
  BY <1>2, <1>3, <1>4, <1>5, <1>6 DEF Client

\* A trade of no more than is unfilled keeps the types of what it sets.
LEMMA TradeHasOccuredType ==
    ASSUME TypeOK, NEW p \in Levels, NEW amount \in 0 .. cur.sz,
           TradeHasOccured(p, amount)
    PROVE  /\ last' \in 0 .. MaxLevel /\ total_volume' \in Nat
           /\ need_check_for_stops' \in BOOLEAN
           /\ cur' \in QueueElem
<1>1. cur \in QueueElem /\ total_volume \in Nat
  BY DEF TypeOK, BookTypeOK
<1>2. cur.sz \in Nat /\ cur.sz - amount \in Nat
  BY <1>1 DEF QueueElem
<1>3. cur' \in QueueElem
  BY <1>1, <1>2 DEF TradeHasOccured, QueueElem
<1> QED
  BY <1>1, <1>2, <1>3, BookAssumption DEF TradeHasOccured, Levels

\* One turn of _hit_chain keeps all types; no size becomes negative.
LEMMA TradeType ==
    ASSUME IInv, FillFront \/ FillPartOfFront
    PROVE  TypeOK'
<1> USE DEF IInv
<1> DEFINE r == Opp(cur.side)
           p == best[r]
           front == Head(limits[p])
<1>1. /\ r \in Sides /\ p \in Levels
      /\ limits[p] \in Seq(LimitBndl) /\ limits[p] # <<>>
      /\ front \in LimitBndl
      /\ front = limits[p][1]
      /\ cur.sz \in Nat /\ cur.sz > 0
      /\ pc = "trade"
  BY TradeHitsAChain DEF FillFront, FillPartOfFront, TypeOK, BookTypeOK, QueueElem
<1>2. front.sz \in Nat
  BY <1>1 DEF LimitBndl
<1> HIDE DEF front
<1>4. CASE FillFront
  <2>1. limits' = [limits EXCEPT ![p] = Tail(@)] /\ Erase({front.id})
    BY <1>4 DEF FillFront, front
  <2>2. limits' \in [Levels -> Seq(LimitBndl)]
    BY <1>1, <2>1, HeadTailProperties DEF TypeOK, BookTypeOK
  <2>3. TradeHasOccured(p, front.sz) /\ front.sz <= cur.sz
    BY <1>4 DEF FillFront, front
  <2>4. best' \in [Sides -> Pointers] /\ worst' \in [Sides -> Pointers]
    <3>1. \/ FindNewBestInside(r, limits', worst[r])
          \/ UNCHANGED <<best, worst>>
      BY <1>4, Zenon DEF FillFront
    <3>2. worst[r] \in Pointers
      BY <1>1 DEF TypeOK, BookTypeOK
    <3> QED
      BY <1>1, <3>1, <3>2, FindNewBestType DEF TypeOK, BookTypeOK
  <2>5. UNCHANGED <<stops, near, far, beg, end, last_id, internal_queue,
                    scan, pc>>
    BY <1>4 DEF FillFront
  <2>6. /\ last' \in 0 .. MaxLevel /\ total_volume' \in Nat
        /\ need_check_for_stops' \in BOOLEAN /\ cur' \in QueueElem
    BY <1>1, <1>2, <2>3, TradeHasOccuredType
  <2> QED
    BY <2>1, <2>2, <2>4, <2>5, <2>6, EraseType DEF TypeOK, BookTypeOK
<1>5. CASE FillPartOfFront
  <2>1. /\ limits' = [limits EXCEPT ![p][1].sz = @ - cur.sz]
        /\ cur.sz < front.sz
        /\ TradeHasOccured(p, cur.sz)
    BY <1>5 DEF FillPartOfFront, front
  <2>2. limits' \in [Levels -> Seq(LimitBndl)]
    <3>1. limits[p][1].sz - cur.sz \in Nat \ {0}
      BY <1>1, <1>2, <2>1
    <3>2. [limits[p][1] EXCEPT !.sz = @ - cur.sz] \in LimitBndl
      BY <1>1, <3>1 DEF LimitBndl
    <3>3. [limits[p] EXCEPT ![1] = [limits[p][1] EXCEPT !.sz = @ - cur.sz]]
              \in Seq(LimitBndl)
      BY <1>1, <3>2, ExceptSeq, LenProperties, EmptySeq
    <3>4. limits' = [limits EXCEPT ![p] =
              [limits[p] EXCEPT ![1] = [limits[p][1] EXCEPT !.sz = @ - cur.sz]]]
      BY <1>1, <2>1 DEF TypeOK, BookTypeOK
    <3> QED
      BY <1>1, <3>3, <3>4 DEF TypeOK, BookTypeOK
  <2>3. UNCHANGED <<stops, id_cache, pointers, beg, end, last_id,
                    internal_queue, scan, pc>>
    BY <1>5 DEF FillPartOfFront
  <2>4. /\ last' \in 0 .. MaxLevel /\ total_volume' \in Nat
        /\ need_check_for_stops' \in BOOLEAN /\ cur' \in QueueElem
    BY <1>1, <2>1, TradeHasOccuredType
  <2> QED
    BY <2>2, <2>3, <2>4 DEF TypeOK, BookTypeOK, pointers
<1> QED
  BY <1>4, <1>5

\* What a stop chain becomes when it triggers is a list of orders for the
\* internal queue.
LEMMA TriggeredType ==
    ASSUME IInv, NEW p \in Levels
    PROVE  [i \in 1 .. Len(stops[p]) |-> TriggeredOrder(stops[p][i], last_id + i)]
               \in Seq(QueueElem)
<1> DEFINE chain == stops[p]
           new == [i \in 1 .. Len(chain) |-> TriggeredOrder(chain[i], last_id + i)]
<1>1. chain \in Seq(StopBndl) /\ Len(chain) \in Nat
  BY LenProperties DEF IInv, TypeOK, BookTypeOK
<1>2. ASSUME NEW i \in 1 .. Len(chain)
      PROVE  TriggeredOrder(chain[i], last_id + i) \in QueueElem
  <2>1. chain[i] \in StopBndl
    BY <1>1, ElementOfSeq
  <2>2. last_id + i \in Nat /\ 0 \in 0 .. MaxLevel
    BY <1>1, BookAssumption DEF IInv, TypeOK, BookTypeOK
  <2> HIDE DEF chain
  <2> QED
    BY <2>1, <2>2 DEF StopBndl, TriggeredOrder, QueueElem
<1>3. new \in [1 .. Len(chain) -> QueueElem]
  BY <1>2
<1> QED
  BY <1>1, <1>3, SeqDef


\* Triggering a chain of stops keeps all types.
LEMMA ScanType ==
    ASSUME IInv, NEW s \in Sides, NEW at,
           Scan(s, at), scan \in Levels
    PROVE  TypeOK'
<1> USE DEF IInv
<1> DEFINE chain == stops[scan]
           new == [i \in 1 .. Len(chain) |-> TriggeredOrder(chain[i], last_id + i)]
<1>1. HandleTriggeredStopChain(s, scan)
  BY DEF Scan
<1>2. chain \in Seq(StopBndl) /\ Len(chain) \in Nat
  BY LenProperties DEF TypeOK, BookTypeOK
<1>3. stops' \in [Levels -> Seq(StopBndl)]
  BY <1>1, EmptySeq DEF HandleTriggeredStopChain, TypeOK, BookTypeOK
<1>4. near' \in [Sides -> Pointers] /\ far' \in [Sides -> Pointers]
  <2>1. StopAfterTrigger(s, scan)
    BY <1>1 DEF HandleTriggeredStopChain
  <2> QED
    BY <2>1, PointerFacts DEF StopAfterTrigger, TypeOK, BookTypeOK
<1>5. internal_queue' \in Seq(QueueElem)
  <2>3. new \in Seq(QueueElem)
    BY TriggeredType, Zenon
  <2>4. internal_queue' = internal_queue \o new
    BY <1>1, Zenon DEF HandleTriggeredStopChain
  <2> HIDE DEF new
  <2> QED
    BY <2>3, <2>4, ConcatProperties DEF TypeOK, BookTypeOK
<1>6. last_id' \in Nat
  BY <1>1, <1>2 DEF HandleTriggeredStopChain, TypeOK, BookTypeOK
<1>7. /\ DOMAIN id_cache' \subseteq Nat
      /\ \A i \in DOMAIN id_cache' : id_cache'[i] \in CacheElem
  BY <1>1, BookOfIInv, EraseType, Zenon DEF HandleTriggeredStopChain, BookInv
<1>8. scan' \in Pointers
  BY BookOfIInv, PointerFacts DEF Scan, BookInv
<1>9. UNCHANGED <<limits, best, worst, last, beg, end, total_volume,
                  need_check_for_stops, cur, pc>>
  BY DEF Scan
<1> QED
  BY <1>3, <1>4, <1>5, <1>6, <1>7, <1>8, <1>9, Zenon DEF TypeOK, BookTypeOK

\* Putting an order on a chain keeps all types.
LEMMA PlaceType ==
    ASSUME IInv, InsertStop \/ RestLimit
    PROVE  TypeOK'
<1> USE DEF IInv
<1>1. /\ cur \in QueueElem /\ cur.id \in Nat /\ cur.sz \in Nat
      /\ cur.side \in Sides /\ cur.limit \in 0 .. MaxLevel
      /\ NoOrder \in QueueElem
  BY BookAssumption DEF TypeOK, BookTypeOK, QueueElem, NoOrder, Sides
<1>2. CASE InsertStop
  <2> DEFINE bndl == [id |-> cur.id, sz |-> cur.sz, side |-> cur.side,
                      limit |-> cur.limit]
  <2>1. cur.stop \in Levels /\ bndl \in StopBndl
    BY <1>1, <1>2, BookOfIInv, PointerFacts
       DEF InsertStop, PricesInBook, ControlState, StopBndl, BookInv
  <2>2. stops' \in [Levels -> Seq(StopBndl)]
    <3>1. stops' = [stops EXCEPT ![cur.stop] = Append(@, bndl)]
      BY <1>2 DEF InsertStop, ChainEmplace
    <3> HIDE DEF bndl
    <3> QED
      BY <2>1, <3>1 DEF TypeOK, BookTypeOK
  <2>3. /\ DOMAIN id_cache' \subseteq Nat
        /\ \A i \in DOMAIN id_cache' : id_cache'[i] \in CacheElem
    <3>1. [type |-> "stop", p |-> cur.stop] \in CacheElem
      BY <2>1 DEF CacheElem
    <3> QED
      BY <1>1, <1>2, <3>1, EmplaceType DEF InsertStop, TypeOK
  <2>4. near' \in [Sides -> Pointers] /\ far' \in [Sides -> Pointers]
    BY <1>1, <1>2, <2>1, PointerFacts DEF InsertStop, StopAfterInsert, TypeOK, BookTypeOK
  <2>5. /\ cur' = NoOrder /\ pc' = "drain"
        /\ UNCHANGED <<limits, best, worst, last, beg, end, last_id,
                       total_volume, need_check_for_stops, internal_queue, scan>>
    BY <1>2 DEF InsertStop
  <2> QED
    BY <1>1, <2>2, <2>3, <2>4, <2>5 DEF TypeOK, BookTypeOK
<1>3. CASE RestLimit
  <2> DEFINE bndl == [id |-> cur.id, sz |-> cur.sz, side |-> cur.side]
  <2>1. cur.limit \in Levels /\ bndl \in LimitBndl
    BY <1>1, <1>3, PointerFacts DEF RestLimit, PricesInBook, LimitBndl, TypeOK
  <2>2. limits' \in [Levels -> Seq(LimitBndl)]
    <3>1. limits' = [limits EXCEPT ![cur.limit] = Append(@, bndl)]
      BY <1>3 DEF RestLimit, ChainEmplace
    <3> HIDE DEF bndl
    <3> QED
      BY <2>1, <3>1 DEF TypeOK, BookTypeOK
  <2>3. /\ DOMAIN id_cache' \subseteq Nat
        /\ \A i \in DOMAIN id_cache' : id_cache'[i] \in CacheElem
    <3>1. [type |-> "limit", p |-> cur.limit] \in CacheElem
      BY <2>1 DEF CacheElem
    <3> QED
      BY <1>1, <1>3, <3>1, EmplaceType DEF RestLimit, TypeOK
  <2>4. best' \in [Sides -> Pointers] /\ worst' \in [Sides -> Pointers]
    BY <1>1, <1>3, <2>1, PointerFacts DEF RestLimit, LimitAfterInsert, TypeOK, BookTypeOK
  <2>5. /\ cur' = NoOrder /\ pc' = "drain"
        /\ UNCHANGED <<stops, near, far, last, beg, end, last_id,
                       total_volume, need_check_for_stops, internal_queue, scan>>
    BY <1>3 DEF RestLimit
  <2> QED
    BY <1>1, <2>2, <2>3, <2>4, <2>5 DEF TypeOK, BookTypeOK
<1> QED
  BY <1>2, <1>3

\* Types are preserved by every step.
LEMMA TypeStep == IInv /\ [Next]_vars => TypeOK'
<1> SUFFICES ASSUME IInv, [Next]_vars PROVE TypeOK'
  OBVIOUS
<1> USE DEF IInv
<1>1. NoOrder \in QueueElem /\ 0 \in Pointers
  BY BookAssumption DEF NoOrder, QueueElem, Sides, Pointers
<1>2. CASE Client
  BY <1>2, ClientType
<1>3. CASE RouteLimit \/ RouteMarket \/ CloseWindow
  BY <1>3 DEF RouteLimit, RouteMarket, CloseWindow, TypeOK, BookTypeOK, book, pointers
<1>4. CASE InsertStop \/ RestLimit
  BY <1>4, PlaceType
<1>5. CASE FillFront \/ FillPartOfFront
  BY <1>5, TradeType
<1>6. CASE EndTrade \/ EndBuyScan \/ EndSellScan
  <2>1. near["buy"] \in Pointers /\ near["sell"] \in Pointers
    BY DEF TypeOK, BookTypeOK, Sides
  <2> QED
    BY <1>1, <1>6, <2>1
       DEF EndTrade, EndBuyScan, EndSellScan, TypeOK, BookTypeOK, book, pointers
<1>7. CASE ScanBuyStops \/ ScanSellStops
  BY <1>7, ScanInLevels, ScanType
     DEF ScanBuyStops, ScanSellStops, Scan, Sides
<1>8. CASE Filled \/ ThrowLiquidity
  BY <1>1, <1>8, EmptySeq DEF Filled, ThrowLiquidity, TypeOK, BookTypeOK, book, pointers
<1>9. CASE NextInternal
  <2>1. Head(internal_queue) \in QueueElem
        /\ Tail(internal_queue) \in Seq(QueueElem)
    BY <1>9, HeadTailProperties DEF NextInternal, TypeOK, BookTypeOK
  <2> QED
    BY <1>9, <2>1 DEF NextInternal, TypeOK, BookTypeOK, book, pointers
<1>10. CASE UNCHANGED vars
  BY <1>10 DEF vars, TypeOK, BookTypeOK
<1> QED
  BY <1>2, <1>3, <1>4, <1>5, <1>6, <1>7, <1>8, <1>9, <1>10 DEF Next, Window

-----------------------------------------------------------------------------
(* What a step does to the chains and to the ends of the book. *)

\* the orders on the chains after, c, were there before, on b
Kept(b, c) ==
    \A l \in Levels : \A i \in 1 .. Len(c[l]) :
        \E j \in 1 .. Len(b[l]) : c[l][i] = b[l][j]

\* Taking an order out of a chain adds none.
LEMMA RemoveKeeps ==
    ASSUME NEW S, NEW b \in [Levels -> Seq(S)], NEW p \in Levels,
           NEW k \in 1 .. Len(b[p])
    PROVE  Kept(b, [b EXCEPT ![p] = RemoveAt(@, k)])
<1> DEFINE c == [b EXCEPT ![p] = RemoveAt(@, k)]
<1>1. SUFFICES ASSUME NEW l \in Levels, NEW i \in 1 .. Len(c[l])
               PROVE  \E j \in 1 .. Len(b[l]) : c[l][i] = b[l][j]
  BY DEF Kept
<1>2. CASE l = p
  <2>1. b[p] \in Seq(S) /\ Len(b[p]) \in Nat
    BY LenProperties
  <2>2. c[l] = RemoveAt(b[p], k)
    BY <1>2
  <2>3. /\ i \in 1 .. Len(b[p]) - 1
        /\ c[l][i] = IF i < k THEN b[p][i] ELSE b[p][i + 1]
    BY <2>1, <2>2, RemoveAtType
  <2> QED
    BY <1>2, <2>1, <2>3
<1>3. CASE l # p
  BY <1>3
<1> QED
  BY <1>2, <1>3

\* Taking the front order off a chain adds none.
LEMMA TailKeeps ==
    ASSUME NEW S, NEW b \in [Levels -> Seq(S)], NEW p \in Levels, b[p] # <<>>
    PROVE  Kept(b, [b EXCEPT ![p] = Tail(@)])
<1> DEFINE c == [b EXCEPT ![p] = Tail(@)]
<1>1. SUFFICES ASSUME NEW l \in Levels, NEW i \in 1 .. Len(c[l])
               PROVE  \E j \in 1 .. Len(b[l]) : c[l][i] = b[l][j]
  BY DEF Kept
<1>2. CASE l = p
  <2>1. b[p] \in Seq(S) /\ Len(b[p]) \in Nat /\ c[l] = Tail(b[p])
    BY <1>2, LenProperties
  <2>2. /\ Len(Tail(b[p])) = Len(b[p]) - 1
        /\ \A k \in 1 .. Len(Tail(b[p])) : Tail(b[p])[k] = b[p][k + 1]
    BY <2>1, HeadTailProperties
  <2> HIDE DEF c
  <2>3. i \in 1 .. Len(b[p]) - 1 /\ c[l][i] = b[p][i + 1]
    BY <2>1, <2>2
  <2>4. i + 1 \in 1 .. Len(b[p])
    BY <2>1, <2>3
  <2> QED
    BY <1>2, <2>3, <2>4
<1>3. CASE l # p
  BY <1>3
<1> QED
  BY <1>2, <1>3

\* Chains that do not change keep what they have.
LEMMA SameIsKept ==
    ASSUME NEW b
    PROVE  Kept(b, b)
BY DEF Kept

\* _pull_order adds no order to any chain.
LEMMA PullKeeps ==
    ASSUME BookTypeOK, NEW id, Pull(id)
    PROVE  Kept(limits, limits') /\ Kept(stops, stops')
<1>1. id_cache[id].p \in Levels
  BY DEF Pull, BookTypeOK, CacheElem
<1>2. limits \in [Levels -> Seq(LimitBndl)] /\ stops \in [Levels -> Seq(StopBndl)]
  BY DEF BookTypeOK
<1>3. CASE PopLimit(id)
  <2>1. PICK i \in 1 .. Len(limits[id_cache[id].p]) :
            limits' = [limits EXCEPT ![id_cache[id].p] = RemoveAt(@, i)]
    BY <1>3, Zenon DEF PopLimit
  <2>2. Kept(limits, [limits EXCEPT ![id_cache[id].p] = RemoveAt(@, i)])
    BY <1>1, <1>2, RemoveKeeps
  <2>3. stops' = stops
    BY <1>3 DEF PopLimit
  <2> QED
    BY <2>1, <2>2, <2>3, SameIsKept
<1>4. CASE PopStop(id)
  <2>1. PICK i \in 1 .. Len(stops[id_cache[id].p]) :
            stops' = [stops EXCEPT ![id_cache[id].p] = RemoveAt(@, i)]
    BY <1>4, Zenon DEF PopStop
  <2>2. Kept(stops, [stops EXCEPT ![id_cache[id].p] = RemoveAt(@, i)])
    BY <1>1, <1>2, RemoveKeeps
  <2>3. limits' = limits
    BY <1>4 DEF PopStop
  <2> QED
    BY <2>1, <2>2, <2>3, SameIsKept
<1> QED
  BY <1>3, <1>4 DEF Pull

\* A side that is on a level afterwards was on it before.
LEMMA KeptOrders ==
    ASSUME NEW b, NEW c, Kept(b, c), NEW l \in Levels, NEW s, HasOrder(c, l, s)
    PROVE  HasOrder(b, l, s)
BY DEF Kept, HasOrder

\* The book never shrinks, and does not grow inside a window.
LEMMA BookOnlyGrows ==
    ASSUME IInv, [Next]_vars
    PROVE  /\ Book \subseteq Book'
           /\ pc # "idle" => beg' = beg /\ end' = end
<1>1. CASE \E e \in InitEnd .. MaxLevel + 1 : GrowBookAbove(e)
  BY <1>1, BookAssumption DEF IInv, TypeOK, BookTypeOK, GrowBookAbove, Book, Levels
<1>2. CASE \E b \in 1 .. InitBeg : GrowBookBelow(b)
  BY <1>2, BookAssumption DEF IInv, TypeOK, BookTypeOK, GrowBookBelow, Book, Levels
<1>3. CASE beg' = beg /\ end' = end
  BY <1>3 DEF Book
<1>4. CASE UNCHANGED vars
  BY <1>3, <1>4 DEF vars
<1>5. CASE Window
  BY <1>3, <1>5
     DEF Window, RouteLimit, RouteMarket, InsertStop, FillFront,
         FillPartOfFront, EndTrade, ScanBuyStops, EndBuyScan, ScanSellStops,
         EndSellScan, Scan, Filled, RestLimit, ThrowLiquidity, NextInternal,
         CloseWindow
<1> QED
  BY <1>1, <1>2, <1>3, <1>4, <1>5
     DEF Next, Client, InsertOrder, PullOrder, ReplaceOrder

-----------------------------------------------------------------------------
(* The windows of the limit orders. *)

\* No two sides share a level, so the level tells the side.
LEMMA LevelTellsSide ==
    ASSUME BookTypeOK, LimitWindows, Uncrossed
    PROVE  SideFromLevel
<1> SUFFICES ASSUME NEW l \in Levels, NEW s \in Sides, HasOrder(limits, l, s)
             PROVE  /\ s = "buy" <=> l <= best["buy"]
                    /\ s = "buy" <=> l < best["sell"]
  BY DEF SideFromLevel
<1>1. Geq(s, best[s], l)
  BY DEF LimitWindows
<1>2. best["buy"] \in Int /\ best["sell"] \in Int /\ l \in Int
  BY BookAssumption DEF BookTypeOK, Sides, Pointers, Levels
<1> QED
  BY <1>1, <1>2 DEF Geq, Sides, Uncrossed

\* An order on a chain is of one of the two sides.
LEMMA SomeOrder ==
    ASSUME NEW c \in [Levels -> Seq(LimitBndl)], NEW l \in Levels, c[l] # <<>>
    PROVE  \E s \in Sides : HasOrder(c, l, s)
<1>1. c[l] \in Seq(LimitBndl) /\ Len(c[l]) \in Nat /\ Len(c[l]) # 0
  BY LenProperties, EmptySeq
<1>2. 1 \in 1 .. Len(c[l]) /\ c[l][1] \in LimitBndl
  BY <1>1, ElementOfSeq
<1> QED
  BY <1>2 DEF HasOrder, LimitBndl

\* An empty chain has an order of neither side.
LEMMA NoOrderOnEmpty ==
    ASSUME NEW c, NEW l, c[l] = <<>>, NEW s
    PROVE  ~ HasOrder(c, l, s)
BY DEF HasOrder

\* When best is not null its chain has an order of that very side, and the
\* window of the side is in the book.
LEMMA BestHasOrder ==
    ASSUME BookTypeOK, LimitWindows, Uncrossed, NEW s \in Sides, best[s] \in Book
    PROVE  /\ HasOrder(limits, best[s], s)
           /\ best[s] \in Levels
           /\ worst[s] \in Book
           /\ Geq(s, best[s], worst[s])
<1>1. best[s] \in Levels /\ best["buy"] \in Int /\ best["sell"] \in Int
  BY PointerFacts DEF BookTypeOK, Sides, Pointers
<1>2. best[s] # NullLow(s)
  BY PointerFacts DEF Book, NullLow
<1>3. limits[best[s]] # <<>> /\ worst[s] \in Book
  BY <1>2 DEF LimitWindows
<1>4. PICK t \in Sides : HasOrder(limits, best[s], t)
  BY <1>1, <1>3, SomeOrder DEF BookTypeOK
<1>5. t = "buy" <=> best[s] <= best["buy"]
  BY <1>1, <1>4, LevelTellsSide DEF SideFromLevel
<1>6. t = s
  BY <1>1, <1>5 DEF Sides, Uncrossed
<1> QED
  BY <1>1, <1>3, <1>4, <1>6 DEF LimitWindows

\* An order is on the chain of a level in the book, and so is its window.
LEMMA OrderInBook ==
    ASSUME BookTypeOK, LimitWindows, NEW l \in Levels, NEW s \in Sides,
           HasOrder(limits, l, s)
    PROVE  /\ best[s] \in Book /\ worst[s] \in Book /\ l \in Book
           /\ Geq(s, best[s], l) /\ Geq(s, l, worst[s])
<1>1. Geq(s, best[s], l) /\ Geq(s, l, worst[s])
  BY DEF LimitWindows
<1>2. \/ best[s] = NullLow(s) /\ worst[s] = NullHigh(s)
      \/ best[s] \in Book /\ worst[s] \in Book
  BY DEF LimitWindows
<1>3. beg \in Int /\ end \in Int /\ beg < end /\ l \in Int
  BY PointerFacts DEF Levels
<1>4. best[s] \in Book /\ worst[s] \in Book
  BY <1>1, <1>2, <1>3 DEF NullLow, NullHigh, Geq, Sides
<1> QED
  BY <1>1, <1>3, <1>4 DEF Book, Geq, Sides

\* The chain at best has become empty and find_new_best_inside has run.
LEMMA NewBestWindows ==
    ASSUME BookTypeOK, LimitWindows, Uncrossed, NEW s \in Sides,
           best[s] \in Book,
           limits' \in [Levels -> Seq(LimitBndl)], Kept(limits, limits'),
           limits'[best[s]] = <<>>,
           \A l \in Levels : l # best[s] => limits'[l] = limits[l],
           NEW low,
           \/ low = worst[s]
           \/ best[s] = worst[s] /\ low = Inc(s, best[s]),
           FindNewBestInside(s, limits', low),
           beg' = beg, end' = end
    PROVE  LimitWindows' /\ Uncrossed'
<1> DEFINE o == Opp(s)
<1>1. PICK b \in Book \cup {NullLow(s)} :
          /\ IsNewBest(s, limits', b)
          /\ best' = [best EXCEPT ![s] = b]
          /\ worst' = [worst EXCEPT ![s] =
                          IF b = NullLow(s) THEN NullHigh(s)
                          ELSE IF Gt(s, low, b) THEN b ELSE low]
  BY DEF FindNewBestInside
<1>2. /\ o \in Sides /\ o # s /\ \A t \in Sides : t = s \/ t = o
      /\ best'[s] = b /\ best'[o] = best[o] /\ worst'[o] = worst[o]
      /\ worst'[s] = IF b = NullLow(s) THEN NullHigh(s)
                     ELSE IF Gt(s, low, b) THEN b ELSE low
  BY <1>1 DEF BookTypeOK, Opp, Sides
<1>3. /\ beg \in Int /\ end \in Int /\ beg < end /\ b \in Int
      /\ best["buy"] \in Int /\ best["sell"] \in Int
      /\ worst[s] \in Book /\ best[s] \in Levels
      /\ Book' = Book /\ Book \subseteq Levels /\ Levels \subseteq Int
      /\ NullLow(s)' = NullLow(s) /\ NullHigh(s)' = NullHigh(s)
      /\ NullLow(o)' = NullLow(o) /\ NullHigh(o)' = NullHigh(o)
      /\ best[s] \in Int /\ worst[s] \in Int
  <2>1. beg \in Int /\ end \in Int /\ beg < end
    BY PointerFacts DEF Levels
  <2>2. Book' = Book /\ Book \subseteq Levels /\ Levels \subseteq Int
    BY PointerFacts DEF Book, Levels
  <2>3. b \in Int
    BY <2>1 DEF Book, NullLow
  <2>4. best["buy"] \in Int /\ best["sell"] \in Int
    BY PointerFacts DEF BookTypeOK, Sides, Pointers
  <2>5. worst[s] \in Book /\ best[s] \in Levels
    BY BestHasOrder
  <2> QED
    BY <2>1, <2>2, <2>3, <2>4, <2>5 DEF NullLow, NullHigh
<1>4. Geq(s, best[s], b)
  BY <1>1 DEF IsNewBest
<1>5. Uncrossed'
  BY <1>2, <1>3, <1>4 DEF Uncrossed, Geq, Sides, Opp
<1>6. ASSUME NEW l \in Levels, NEW t \in Sides, HasOrder(limits', l, t)
      PROVE  Geq(t, best'[t], l) /\ Geq(t, l, worst'[t])
  <2>1. HasOrder(limits, l, t)
    BY <1>6, KeptOrders
  <2>2. CASE t = o
    BY <1>2, <2>1, <2>2 DEF LimitWindows
  <2>3. CASE t = s
    <3>1. /\ Geq(s, best[s], l) /\ Geq(s, l, worst[s]) /\ l \in Book
      BY <2>1, <2>3, OrderInBook
    <3>2. limits'[l] # <<>> /\ l # best[s]
      BY <1>6, NoOrderOnEmpty
    <3>3. ~ Gt(s, l, b)
      BY <1>1, <3>1, <3>2 DEF IsNewBest
    <3>4. Geq(s, b, l) /\ b # NullLow(s) /\ l \in Int
      BY <1>3, <3>1, <3>3 DEF Gt, Geq, NullLow, Book, Sides
    <3>5. low = worst[s]
      BY <1>3, <3>1, <3>2, <3>4 DEF Geq, Inc, Sides
    <3> QED
      BY <1>2, <1>3, <2>3, <3>1, <3>4, <3>5 DEF Gt, Geq, Sides
  <2> QED
    BY <1>2, <2>2, <2>3
<1>7. ASSUME NEW t \in Sides
      PROVE  \/ best'[t] = NullLow(t)' /\ worst'[t] = NullHigh(t)'
             \/ best'[t] \in Book' /\ worst'[t] \in Book'
                /\ limits'[best'[t]] # <<>>
  <2>1. CASE t = o
    <3>1. \/ best[o] = NullLow(o) /\ worst[o] = NullHigh(o)
          \/ best[o] \in Book /\ worst[o] \in Book /\ limits[best[o]] # <<>>
      BY <1>2 DEF LimitWindows
    <3>2. best[o] # best[s]
      BY <1>2, <1>3 DEF Uncrossed, Opp, Sides
    <3> QED
      BY <1>2, <1>3, <2>1, <3>1, <3>2
  <2>2. CASE t = s /\ b = NullLow(s)
    BY <1>2, <1>3, <2>2
  <2>3. CASE t = s /\ b # NullLow(s)
    <3>1. b \in Book /\ limits'[b] # <<>>
      BY <1>1, <2>3 DEF IsNewBest
    <3>2. worst'[s] \in Book
      BY <1>2, <1>3, <1>4, <2>3, <3>1 DEF Gt, Geq, Inc, Sides
    <3> QED
      BY <1>2, <1>3, <2>3, <3>1, <3>2
  <2> QED
    BY <1>2, <2>1, <2>2, <2>3
<1> HIDE DEF o
<1> QED
  BY <1>5, <1>6, <1>7 DEF LimitWindows

\* The chains, best, worst and the ends of the book stay.
LEMMA LimitFrame ==
    ASSUME LimitWindows, Uncrossed,
           UNCHANGED <<limits, best, worst, beg, end>>
    PROVE  LimitWindows' /\ Uncrossed'
BY DEF LimitWindows, Uncrossed, HasOrder, NullLow, NullHigh, Book

\* Fewer orders, but none of the chains at best has become empty.
LEMMA FewerOrders ==
    ASSUME BookTypeOK, LimitWindows, Uncrossed, Kept(limits, limits'),
           UNCHANGED <<best, worst, beg, end>>,
           \A s \in Sides : best[s] \in Book => limits'[best[s]] # <<>>
    PROVE  LimitWindows' /\ Uncrossed'
<1>1. \A l \in Levels, s \in Sides : HasOrder(limits', l, s) =>
          Geq(s, best[s], l) /\ Geq(s, l, worst[s])
  BY KeptOrders DEF LimitWindows
<1>2. \A s \in Sides :
          \/ best[s] = NullLow(s) /\ worst[s] = NullHigh(s)
          \/ best[s] \in Book /\ worst[s] \in Book /\ limits'[best[s]] # <<>>
  BY DEF LimitWindows
<1> QED
  BY <1>1, <1>2 DEF LimitWindows, Uncrossed, NullLow, NullHigh, Book, HasOrder

\* Pulling a limit order keeps the limit windows exact and the book uncrossed:
\* pop reads the right side off the level.
LEMMA PullLimitWindows ==
    ASSUME BookInv, NEW id \in DOMAIN id_cache, PopLimit(id), beg' = beg, end' = end,
           limits' \in [Levels -> Seq(LimitBndl)]
    PROVE  LimitWindows' /\ Uncrossed'
<1> DEFINE p == id_cache[id].p
           s == IF p <= best["buy"] THEN "buy" ELSE "sell"
           low == IF p = worst[s] THEN Inc(s, p) ELSE worst[s]
<1>0. BookTypeOK /\ LimitWindows /\ Uncrossed
  BY DEF BookInv
<1>1. p \in Levels /\ limits \in [Levels -> Seq(LimitBndl)] /\ s \in Sides
  BY <1>0 DEF BookTypeOK, CacheElem, Sides
<1>2. PICK i \in 1 .. Len(limits[p]) :
          /\ limits' = [limits EXCEPT ![p] = RemoveAt(@, i)]
          /\ IF limits'[p] = <<>>
             THEN LimitAfterPull(s, limits', p)
             ELSE UNCHANGED <<best, worst>>
  BY Zenon DEF PopLimit
<1>3. Kept(limits, limits')
  BY <1>1, <1>2, RemoveKeeps
<1>4. \A l \in Levels : l # p => limits'[l] = limits[l]
  BY <1>1, <1>2
<1>5. limits[p] # <<>>
  BY <1>1, <1>2, EmptySeq
<1>6. HasOrder(limits, p, s)
  <2>1. PICK t \in Sides : HasOrder(limits, p, t)
    BY <1>1, <1>5, SomeOrder
  <2>2. t = "buy" <=> p <= best["buy"]
    BY <1>0, <1>1, <2>1, LevelTellsSide DEF SideFromLevel
  <2>3. t = s
    BY <1>1, <2>2 DEF Sides
  <2> QED
    BY <2>1, <2>3
<1> HIDE DEF s, p
<1>7. /\ best[s] \in Book /\ worst[s] \in Book /\ p \in Book
      /\ Geq(s, best[s], p) /\ Geq(s, p, worst[s])
  BY <1>0, <1>1, <1>6, OrderInBook
<1>8. /\ Book \subseteq Int /\ beg \in Int /\ end \in Int
      /\ best["buy"] \in Int /\ best["sell"] \in Int
  BY <1>0, PointerFacts DEF BookTypeOK, Sides, Pointers, Levels
<1>9. \A t \in Sides : t # s => best[t] # p
  BY <1>0, <1>1, <1>7, <1>8 DEF Uncrossed, Geq, Sides
<1>10. CASE limits'[p] # <<>>
  <2>1. UNCHANGED <<best, worst>>
    BY <1>2, <1>10, Zenon
  <2>2. \A t \in Sides : best[t] \in Book => limits'[best[t]] # <<>>
    BY <1>0, <1>4, <1>10, BestHasOrder, NoOrderOnEmpty
  <2> QED
    BY <1>0, <1>3, <2>1, <2>2, FewerOrders
<1>11. CASE limits'[p] = <<>> /\ p = best[s]
  <2>1. FindNewBestInside(s, limits', low)
    BY <1>2, <1>11, Zenon DEF LimitAfterPull
  <2>2. \/ low = worst[s]
        \/ best[s] = worst[s] /\ low = Inc(s, best[s])
    BY <1>11
  <2> HIDE DEF low
  <2> QED
    BY <1>0, <1>1, <1>3, <1>4, <1>7, <1>11, <2>1, <2>2, NewBestWindows
<1>12. CASE limits'[p] = <<>> /\ p # best[s]
  <2>1. worst' = [worst EXCEPT ![s] = low] /\ best' = best
    BY <1>2, <1>12, Zenon DEF LimitAfterPull
  <2>2. worst'[s] = low /\ \A t \in Sides : t # s => worst'[t] = worst[t]
    BY <1>0, <1>1, <2>1 DEF BookTypeOK
  <2>3. /\ Book' = Book /\ \A t \in Sides : NullLow(t)' = NullLow(t)
                                         /\ NullHigh(t)' = NullHigh(t)
    BY DEF Book, NullLow, NullHigh
  <2>4. ASSUME NEW l \in Levels, NEW t \in Sides, HasOrder(limits', l, t)
        PROVE  Geq(t, best'[t], l) /\ Geq(t, l, worst'[t])
    <3>0. HasOrder(limits, l, t)
      BY <1>3, <2>4, KeptOrders
    <3>1. l # p /\ l \in Int
      <4>1. l # p
        BY <1>12, <2>4 DEF HasOrder
      <4> QED
        BY <4>1 DEF Levels
    <3>2. Geq(t, best[t], l) /\ Geq(t, l, worst[t])
      BY <1>0, <3>0 DEF LimitWindows
    <3> QED
      BY <1>7, <1>8, <2>1, <2>2, <3>1, <3>2 DEF Geq, Inc, Sides
  <2>5. ASSUME NEW t \in Sides
        PROVE  \/ best'[t] = NullLow(t)' /\ worst'[t] = NullHigh(t)'
               \/ best'[t] \in Book' /\ worst'[t] \in Book'
                  /\ limits'[best'[t]] # <<>>
    <3>1. \/ best[t] = NullLow(t) /\ worst[t] = NullHigh(t)
          \/ best[t] \in Book /\ worst[t] \in Book /\ limits[best[t]] # <<>>
      BY <1>0 DEF LimitWindows
    <3>2. best[t] \in Book => limits'[best[t]] = limits[best[t]]
      BY <1>0, <1>4, <1>9, <1>12, PointerFacts
    <3>3. low \in Book
      BY <1>1, <1>7, <1>8, <1>12 DEF Book, Geq, Inc, Sides
    <3>4. best[s] # NullLow(s)
      BY <1>1, <1>7, <1>8 DEF Book, NullLow, Sides
    <3> HIDE DEF low
    <3> QED
      BY <2>1, <2>2, <2>3, <3>1, <3>2, <3>3, <3>4
  <2> HIDE DEF low
  <2> QED
    BY <1>0, <2>1, <2>4, <2>5 DEF LimitWindows, Uncrossed
<1> QED
  BY <1>10, <1>11, <1>12

\* When the front order of the best chain leaves, find_new_best_inside moves the
\* window to the next level that has orders.
LEMMA FrontLimitWindows ==
    ASSUME BookInv, NEW r \in Sides, best[r] \in Book,
           limits' = [limits EXCEPT ![best[r]] = Tail(@)],
           IF limits'[best[r]] = <<>>
           THEN FindNewBestInside(r, limits', worst[r])
           ELSE UNCHANGED <<best, worst>>,
           limits' \in [Levels -> Seq(LimitBndl)], beg' = beg, end' = end
    PROVE  LimitWindows' /\ Uncrossed'
<1> DEFINE p == best[r]
<1>0. BookTypeOK /\ LimitWindows /\ Uncrossed
  BY DEF BookInv
<1>1. /\ p \in Levels /\ limits[p] # <<>>
      /\ limits \in [Levels -> Seq(LimitBndl)]
  <2>1. HasOrder(limits, p, r) /\ p \in Levels
    BY <1>0, BestHasOrder
  <2> QED
    BY <1>0, <2>1, NoOrderOnEmpty DEF BookTypeOK
<1>2. Kept(limits, limits')
  BY <1>1, TailKeeps
<1>3. \A l \in Levels : l # p => limits'[l] = limits[l]
  BY <1>1
<1>4. CASE limits'[p] = <<>>
  <2>1. FindNewBestInside(r, limits', worst[r])
    BY <1>4
  <2> QED
    BY <1>0, <1>2, <1>3, <1>4, <2>1, NewBestWindows
<1>5. CASE limits'[p] # <<>>
  <2>1. UNCHANGED <<best, worst>>
    BY <1>5
  <2>2. \A t \in Sides : best[t] \in Book => limits'[best[t]] # <<>>
    BY <1>0, <1>3, <1>5, BestHasOrder, NoOrderOnEmpty
  <2> QED
    BY <1>0, <1>2, <2>1, <2>2, FewerOrders
<1> QED
  BY <1>4, <1>5

\* Orders that change their sizes only stay inside the windows.
SameSides(b, c) ==
    \A l \in Levels : /\ Len(c[l]) = Len(b[l])
                      /\ \A i \in 1 .. Len(b[l]) : c[l][i].side = b[l][i].side

LEMMA SameSidesHave ==
    ASSUME NEW b, NEW c, SameSides(b, c), NEW l \in Levels, NEW s,
           HasOrder(c, l, s)
    PROVE  HasOrder(b, l, s)
BY DEF SameSides, HasOrder

LEMMA ResizedLimitWindows ==
    ASSUME BookInv, SameSides(limits, limits'),
           limits' \in [Levels -> Seq(LimitBndl)],
           UNCHANGED <<best, worst, beg, end>>
    PROVE  LimitWindows' /\ Uncrossed'
<1>0. BookTypeOK /\ LimitWindows /\ Uncrossed
  BY DEF BookInv
<1>1. \A t \in Sides : best[t] \in Book => limits'[best[t]] # <<>>
  <2> SUFFICES ASSUME NEW t \in Sides, best[t] \in Book
               PROVE  limits'[best[t]] # <<>>
    OBVIOUS
  <2>1. best[t] \in Levels /\ limits[best[t]] # <<>>
    BY <1>0, BestHasOrder, NoOrderOnEmpty
  <2>2. limits[best[t]] \in Seq(LimitBndl) /\ limits'[best[t]] \in Seq(LimitBndl)
    BY <1>0, <2>1 DEF BookTypeOK
  <2>3. Len(limits'[best[t]]) = Len(limits[best[t]])
    BY <2>1 DEF SameSides
  <2> QED
    BY <2>1, <2>2, <2>3, EmptySeq
<1>2. \A t \in Sides :
          \/ best[t] = NullLow(t) /\ worst[t] = NullHigh(t)
          \/ best[t] \in Book /\ worst[t] \in Book /\ limits'[best[t]] # <<>>
  BY <1>0, <1>1 DEF LimitWindows
<1>3. \A l \in Levels, s \in Sides : HasOrder(limits', l, s) =>
          Geq(s, best[s], l) /\ Geq(s, l, worst[s])
  BY <1>0, SameSidesHave DEF LimitWindows
<1> QED
  BY <1>0, <1>2, <1>3 DEF LimitWindows, Uncrossed, NullLow, NullHigh, Book

\* A turn of _hit_chain keeps the limit windows exact and the book uncrossed.
LEMMA TradeLimitWindows ==
    ASSUME IInv, FillFront \/ FillPartOfFront,
           limits' \in [Levels -> Seq(LimitBndl)]
    PROVE  LimitWindows' /\ Uncrossed'
<1> DEFINE r == Opp(cur.side)
           p == best[r]
<1>0. BookInv /\ TypeOK
  BY BookOfIInv DEF IInv
<1>1. /\ r \in Sides /\ p \in Book /\ p \in Levels
      /\ limits[p] \in Seq(LimitBndl) /\ limits[p] # <<>>
      /\ limits \in [Levels -> Seq(LimitBndl)]
  BY <1>0, TradeHitsAChain DEF FillFront, FillPartOfFront, TypeOK, BookTypeOK
<1>2. beg' = beg /\ end' = end
  BY DEF FillFront, FillPartOfFront
<1>3. CASE FillFront
  <2>1. /\ limits' = [limits EXCEPT ![p] = Tail(@)]
        /\ IF limits'[p] = <<>>
           THEN FindNewBestInside(r, limits', worst[r])
           ELSE UNCHANGED <<best, worst>>
    BY <1>3, Zenon DEF FillFront
  <2> QED
    BY <1>0, <1>1, <1>2, <2>1, FrontLimitWindows
<1>4. CASE FillPartOfFront
  <2>1. /\ limits' = [limits EXCEPT ![p][1].sz = @ - cur.sz]
        /\ UNCHANGED <<best, worst>>
    BY <1>4 DEF FillPartOfFront, pointers
  <2>2. /\ Len(limits'[p]) = Len(limits[p])
        /\ Len(limits[p]) \in Nat /\ Len(limits[p]) # 0
        /\ \A i \in 1 .. Len(limits[p]) :
               limits'[p][i].side = limits[p][i].side
    <3>1. 1 \in 1 .. Len(limits[p]) /\ Len(limits[p]) \in Nat
      BY <1>1, LenProperties, EmptySeq
    <3>2. limits'[p] = [limits[p] EXCEPT ![1].sz = @ - cur.sz]
      BY <1>1, <2>1
    <3>3. limits[p][1] \in LimitBndl
      BY <1>1, <3>1, ElementOfSeq
    <3>4. [limits[p][1] EXCEPT !.sz = @ - cur.sz].side = limits[p][1].side
      BY <3>3 DEF LimitBndl
    <3>5. \A i \in 1 .. Len(limits[p]) :
              limits'[p][i] = IF i = 1
                              THEN [limits[p][1] EXCEPT !.sz = @ - cur.sz]
                              ELSE limits[p][i]
      BY <1>1, <3>1, <3>2
    <3>6. Len(limits'[p]) = Len(limits[p])
      <4>1. limits'[p] \in Seq(LimitBndl)
        BY <1>1
      <4>2. DOMAIN limits'[p] = 1 .. Len(limits'[p])
            /\ DOMAIN limits[p] = 1 .. Len(limits[p])
            /\ Len(limits'[p]) \in Nat
        BY <1>1, <4>1, LenProperties
      <4>3. DOMAIN limits'[p] = DOMAIN limits[p]
        BY <3>2
      <4> HIDE DEF p
      <4> QED
        BY <3>1, <4>2, <4>3
    <3> HIDE DEF p
    <3>7. limits'[p][1] = [limits[p][1] EXCEPT !.sz = @ - cur.sz]
      BY <3>1, <3>5
    <3>8. \A i \in 1 .. Len(limits[p]) : i # 1 => limits'[p][i] = limits[p][i]
      BY <3>5
    <3>9. limits'[p][1].side = limits[p][1].side
      BY <3>4, <3>7
    <3>10. \A i \in 1 .. Len(limits[p]) : limits'[p][i].side = limits[p][i].side
      BY <3>8, <3>9
    <3> QED
      BY <3>1, <3>6, <3>10
  <2>3. \A l \in Levels : l # p => limits'[l] = limits[l]
    BY <1>1, <2>1
  <2>4. SameSides(limits, limits')
    BY <2>2, <2>3 DEF SameSides
  <2> QED
    BY <1>0, <1>2, <2>1, <2>4, ResizedLimitWindows
<1> QED
  BY <1>3, <1>4

\* A limit order that crosses nothing goes inside the windows it widens, and
\* does not cross the other side.
LEMMA NewLimitWindows ==
    ASSUME BookInv, NEW s \in Sides, NEW p \in Book, NEW bndl, bndl.side = s,
           ~ Geq(s, p, best[Opp(s)]),
           limits' = ChainEmplace(limits, p, bndl), LimitAfterInsert(s, p),
           beg' = beg, end' = end
    PROVE  LimitWindows' /\ Uncrossed'
<1> DEFINE o == Opp(s)
<1>0. BookTypeOK /\ LimitWindows /\ Uncrossed
  BY DEF BookInv
<1>1. /\ s \in Sides /\ o \in Sides /\ o # s /\ \A t \in Sides : t = s \/ t = o
  BY DEF Opp, Sides
<1>2. p \in Book /\ p \in Levels /\ Book \subseteq Levels
  BY <1>0, PointerFacts
<1>3. ~ Geq(s, p, best[o])
  OBVIOUS
<1>4. /\ limits' = [limits EXCEPT ![p] = Append(@, bndl)]
      /\ best' = [best EXCEPT ![s] = IF Geq(s, p, @) THEN p ELSE @]
      /\ worst' = [worst EXCEPT ![s] = IF Gt(s, @, p) THEN p ELSE @]
      /\ beg' = beg /\ end' = end
  BY DEF ChainEmplace, LimitAfterInsert
<1>5. /\ best'[s] = (IF Geq(s, p, best[s]) THEN p ELSE best[s])
      /\ worst'[s] = (IF Gt(s, worst[s], p) THEN p ELSE worst[s])
      /\ best'[o] = best[o] /\ worst'[o] = worst[o]
  BY <1>0, <1>1, <1>4 DEF BookTypeOK
<1>6. /\ best[s] \in Int /\ best[o] \in Int
      /\ worst[s] \in Int /\ worst[o] \in Int
      /\ beg \in Int /\ end \in Int /\ p \in Int
  <2>1. best \in [Sides -> Pointers] /\ worst \in [Sides -> Pointers]
    BY <1>0 DEF BookTypeOK
  <2>2. MaxLevel \in Nat /\ beg \in Int /\ end \in Int
    BY <1>0, PointerFacts
  <2>3. p \in Int
    BY <1>2, <2>2 DEF Levels
  <2>4. \A l \in Pointers : l \in Int
    BY <2>2 DEF Pointers
  <2> HIDE DEF o
  <2> QED
    BY <1>1, <2>1, <2>2, <2>3, <2>4
<1>7. Uncrossed'
  <2>1. CASE s = "buy"
    BY <1>0, <1>3, <1>5, <1>6, <2>1 DEF Uncrossed, Geq, Opp
  <2>2. CASE s = "sell"
    BY <1>0, <1>3, <1>5, <1>6, <2>2 DEF Uncrossed, Geq, Opp
  <2> QED
    BY <1>1, <2>1, <2>2 DEF Sides
<1>8. /\ limits[p] \in Seq(LimitBndl)
      /\ Len(limits[p]) \in Nat
      /\ limits'[p] = Append(limits[p], bndl)
      /\ \A l \in Levels : l # p => limits'[l] = limits[l]
  BY <1>0, <1>2, <1>4, LenProperties DEF BookTypeOK
<1>9. /\ Len(limits'[p]) = Len(limits[p]) + 1
      /\ limits'[p][Len(limits[p]) + 1].side = s
      /\ \A i \in 1 .. Len(limits[p]) : limits'[p][i] = limits[p][i]
  BY <1>8
<1>10. ASSUME NEW l \in Levels, NEW t \in Sides, HasOrder(limits', l, t)
       PROVE  HasOrder(limits, l, t) \/ (l = p /\ t = s)
  <2>1. CASE l = p
    <3>1. PICK i \in 1 .. Len(limits'[p]) : limits'[p][i].side = t
      BY <1>10, <2>1 DEF HasOrder
    <3>2. i \in 1 .. Len(limits[p]) \/ i = Len(limits[p]) + 1
      BY <1>8, <1>9, <3>1
    <3> QED
      BY <1>9, <2>1, <3>1, <3>2 DEF HasOrder
  <2>2. CASE l # p
    BY <1>8, <1>10, <2>2 DEF HasOrder
  <2> QED
    BY <2>1, <2>2
<1> HIDE DEF o
<1>11. ASSUME NEW l \in Levels, NEW t \in Sides, HasOrder(limits', l, t)
       PROVE  Geq(t, best'[t], l) /\ Geq(t, l, worst'[t])
  <2>1. l \in Int
    BY DEF Levels
  <2>2. CASE HasOrder(limits, l, t)
    <3>1. Geq(t, best[t], l) /\ Geq(t, l, worst[t])
      BY <1>0, <2>2 DEF LimitWindows
    <3> QED
      BY <1>1, <1>5, <1>6, <2>1, <3>1 DEF Geq, Gt, Sides
  <2>3. CASE l = p /\ t = s
    BY <1>1, <1>5, <1>6, <2>3 DEF Geq, Gt, Sides
  <2> QED
    BY <1>10, <1>11, <2>2, <2>3
<1>12. ASSUME NEW t \in Sides
       PROVE  \/ best'[t] = NullLow(t)' /\ worst'[t] = NullHigh(t)'
              \/ best'[t] \in Book' /\ worst'[t] \in Book'
                 /\ limits'[best'[t]] # <<>>
  <2>1. /\ NullLow(t)' = NullLow(t) /\ NullHigh(t)' = NullHigh(t)
        /\ Book' = Book
    BY <1>4 DEF NullLow, NullHigh, Book
  <2>2. limits'[p] # <<>>
    BY <1>8, <1>9, EmptySeq
  <2>3. \A l \in Book : limits[l] # <<>> => limits'[l] # <<>>
    BY <1>2, <1>8, <2>2
  <2>4. \/ best[t] = NullLow(t) /\ worst[t] = NullHigh(t)
        \/ best[t] \in Book /\ worst[t] \in Book /\ limits[best[t]] # <<>>
    BY <1>0 DEF LimitWindows
  <2>5. CASE t = o
    BY <1>5, <2>1, <2>3, <2>4, <2>5
  <2>6. CASE t = s /\ best[s] = NullLow(s) /\ worst[s] = NullHigh(s)
    <3>1. Geq(s, p, best[s]) /\ Gt(s, worst[s], p)
      BY <1>1, <1>2, <1>6, <2>6 DEF Geq, Gt, NullLow, NullHigh, Book, Sides
    <3> QED
      BY <1>2, <1>5, <2>1, <2>2, <2>6, <3>1
  <2>7. CASE t = s /\ best[s] \in Book /\ worst[s] \in Book
             /\ limits[best[s]] # <<>>
    BY <1>2, <1>5, <2>1, <2>2, <2>3, <2>7
  <2> QED
    BY <1>1, <2>4, <2>5, <2>6, <2>7
<1> QED
  BY <1>7, <1>11, <1>12 DEF LimitWindows

\* So does the rest of a limit order that has traded.
LEMMA RestLimitWindows ==
    ASSUME IInv, RestLimit
    PROVE  LimitWindows' /\ Uncrossed'
<1> DEFINE s == cur.side
           p == cur.limit
           bndl == [id |-> cur.id, sz |-> cur.sz, side |-> cur.side]
<1>1. BookInv /\ s \in Sides /\ p \in Book
  BY BookOfIInv DEF IInv, TypeOK, QueueElem, PricesInBook, RestLimit
<1>2. ~ Geq(s, p, best[Opp(s)])
  BY DEF IInv, BestIsNotTradable, RestLimit, IsTradable, PLevel
<1>3. /\ limits' = ChainEmplace(limits, p, bndl)
      /\ LimitAfterInsert(s, p)
      /\ beg' = beg /\ end' = end
  BY DEF RestLimit
<1>4. bndl.side = s
  OBVIOUS
<1> HIDE DEF s, p, bndl
<1> QED
  BY <1>1, <1>2, <1>3, <1>4, NewLimitWindows

\* Growing the book keeps all windows: null pointers follow the ends and the
\* others stay (_reset_internal_pointers).
LEMMA GrowWindows ==
    ASSUME IInv,
           \/ \E e \in InitEnd .. MaxLevel + 1 : GrowBookAbove(e)
           \/ \E b \in 1 .. InitBeg : GrowBookBelow(b)
    PROVE  LimitWindows' /\ Uncrossed' /\ StopWindows'
<1>0. TypeOK /\ LimitWindows /\ Uncrossed /\ StopWindows
  BY DEF IInv
<1>1. /\ beg \in Int /\ end \in Int /\ beg + 3 <= end
      /\ \A s \in Sides : /\ best[s] \in Int /\ worst[s] \in Int
                          /\ near[s] \in Int /\ far[s] \in Int
  BY <1>0, PointerFacts DEF TypeOK, BookTypeOK, Pointers
<1>2. /\ limits' = limits /\ stops' = stops
      /\ beg' \in Int /\ end' \in Int /\ beg' <= beg /\ end <= end'
      /\ Book \subseteq Book'
  <2>1. CASE \E e \in InitEnd .. MaxLevel + 1 : GrowBookAbove(e)
    BY <1>1, <2>1, BookAssumption DEF GrowBookAbove, book, Book
  <2>2. CASE \E b \in 1 .. InitBeg : GrowBookBelow(b)
    BY <1>1, <2>2, BookAssumption DEF GrowBookBelow, book, Book
  <2> QED
    BY <2>1, <2>2
<1>3. ASSUME NEW s \in Sides
      PROVE  /\ best'[s] = (IF best[s] = NullLow(s) THEN NullLow(s)' ELSE best[s])
             /\ worst'[s] = (IF worst[s] = NullHigh(s) THEN NullHigh(s)' ELSE worst[s])
             /\ near'[s] = (IF near[s] = NullHigh(s) THEN NullHigh(s)' ELSE near[s])
             /\ far'[s] = (IF far[s] = NullLow(s) THEN NullLow(s)' ELSE far[s])
  <2>1. CASE \E e \in InitEnd .. MaxLevel + 1 : GrowBookAbove(e)
    BY <1>0, <2>1 DEF GrowBookAbove, TypeOK, BookTypeOK, Sides, NullLow, NullHigh
  <2>2. CASE \E b \in 1 .. InitBeg : GrowBookBelow(b)
    <3>1. PICK b \in 1 .. InitBeg : GrowBookBelow(b)
      BY <2>2
    <3>2. /\ beg' = b /\ end' = end
          /\ best'["buy"] = (IF best["buy"] = beg - 1 THEN b - 1 ELSE best["buy"])
          /\ best'["sell"] = best["sell"] /\ worst'["buy"] = worst["buy"]
          /\ worst'["sell"] = (IF worst["sell"] = beg - 1 THEN b - 1 ELSE worst["sell"])
          /\ near'["sell"] = (IF near["sell"] = beg - 1 THEN b - 1 ELSE near["sell"])
          /\ near'["buy"] = near["buy"] /\ far'["sell"] = far["sell"]
          /\ far'["buy"] = (IF far["buy"] = beg - 1 THEN b - 1 ELSE far["buy"])
      BY <1>0, <3>1 DEF GrowBookBelow, TypeOK, BookTypeOK, Sides
    <3>3. CASE s = "buy"
      BY <3>2, <3>3 DEF NullLow, NullHigh
    <3>4. CASE s = "sell"
      BY <3>2, <3>4 DEF NullLow, NullHigh
    <3> QED
      BY <3>3, <3>4 DEF Sides
  <2> QED
    BY <2>1, <2>2
<1>4. \A s \in Sides : NullLow(s) \notin Book /\ NullHigh(s) \notin Book
  BY <1>1 DEF NullLow, NullHigh, Book
<1>5. ASSUME NEW s \in Sides
      PROVE  /\ \/ best'[s] = NullLow(s)' /\ worst'[s] = NullHigh(s)'
                \/ best'[s] \in Book' /\ worst'[s] \in Book'
                   /\ limits'[best'[s]] # <<>>
                   /\ best'[s] = best[s] /\ worst'[s] = worst[s]
             /\ \/ near'[s] = NullHigh(s)' /\ far'[s] = NullLow(s)'
                \/ near'[s] \in Book' /\ far'[s] \in Book'
                   /\ Geq(s, far'[s], near'[s])
                   /\ near'[s] = near[s] /\ far'[s] = far[s]
  <2>1. \/ best[s] = NullLow(s) /\ worst[s] = NullHigh(s)
        \/ best[s] \in Book /\ worst[s] \in Book /\ limits[best[s]] # <<>>
    BY <1>0 DEF LimitWindows
  <2>2. \/ near[s] = NullHigh(s) /\ far[s] = NullLow(s)
        \/ near[s] \in Book /\ far[s] \in Book /\ Geq(s, far[s], near[s])
    BY <1>0 DEF StopWindows
  <2>3. \/ best'[s] = NullLow(s)' /\ worst'[s] = NullHigh(s)'
        \/ best'[s] \in Book' /\ worst'[s] \in Book'
           /\ limits'[best'[s]] # <<>>
           /\ best'[s] = best[s] /\ worst'[s] = worst[s]
    BY <1>2, <1>3, <1>4, <2>1
  <2>4. \/ near'[s] = NullHigh(s)' /\ far'[s] = NullLow(s)'
        \/ near'[s] \in Book' /\ far'[s] \in Book'
           /\ Geq(s, far'[s], near'[s])
           /\ near'[s] = near[s] /\ far'[s] = far[s]
    <3>1. CASE near[s] = NullHigh(s) /\ far[s] = NullLow(s)
      BY <1>3, <3>1
    <3>2. CASE near[s] \in Book /\ far[s] \in Book /\ Geq(s, far[s], near[s])
      <4>1. near'[s] = near[s] /\ far'[s] = far[s]
        BY <1>3, <1>4, <3>2
      <4> QED
        BY <1>2, <3>2, <4>1
    <3> QED
      BY <2>2, <3>1, <3>2
  <2> QED
    BY <2>3, <2>4
<1>6. ASSUME NEW l \in Levels, NEW s \in Sides, HasOrder(limits', l, s)
      PROVE  Geq(s, best'[s], l) /\ Geq(s, l, worst'[s])
  <2>1. HasOrder(limits, l, s)
    BY <1>2, <1>6
  <2>2. best[s] \in Book /\ worst[s] \in Book
        /\ Geq(s, best[s], l) /\ Geq(s, l, worst[s])
    BY <1>0, <2>1, OrderInBook DEF TypeOK
  <2> QED
    BY <1>3, <1>4, <2>2
<1>7. ASSUME NEW l \in Levels, NEW s \in Sides, HasOrder(stops', l, s)
      PROVE  Geq(s, l, near'[s]) /\ Geq(s, far'[s], l)
  <2>1. HasOrder(stops, l, s)
    BY <1>2, <1>7
  <2>2. Geq(s, l, near[s]) /\ Geq(s, far[s], l) /\ l \in Int
    BY <1>0, <2>1 DEF StopWindows, Levels
  <2>3. \/ near[s] = NullHigh(s) /\ far[s] = NullLow(s)
        \/ near[s] \in Book /\ far[s] \in Book
    BY <1>0 DEF StopWindows
  <2>4. near[s] \in Book /\ far[s] \in Book
    BY <1>1, <2>2, <2>3 DEF Geq, NullLow, NullHigh, Sides
  <2> QED
    BY <1>3, <1>4, <2>2, <2>4
<1>8. Uncrossed'
  <2>1. /\ best["buy"] \in Int /\ best["sell"] \in Int
        /\ best["buy"] < best["sell"]
    BY <1>0, <1>1 DEF Uncrossed, Sides
  <2>2. best'["buy"] <= best["buy"] /\ best["sell"] <= best'["sell"]
    BY <1>1, <1>2, <1>3 DEF NullLow, Sides
  <2>3. best'["buy"] \in Int /\ best'["sell"] \in Int
    BY <1>1, <1>2, <1>3 DEF NullLow, Sides
  <2> QED
    BY <2>1, <2>2, <2>3 DEF Uncrossed
<1> QED
  BY <1>5, <1>6, <1>7, <1>8 DEF LimitWindows, StopWindows

\* Every step keeps the limit windows and the book uncrossed.
LEMMA LimitWindowsStep == IInv /\ [Next]_vars => LimitWindows' /\ Uncrossed'
<1> SUFFICES ASSUME IInv, [Next]_vars PROVE LimitWindows' /\ Uncrossed'
  OBVIOUS
<1>1. LimitWindows /\ Uncrossed
  BY DEF IInv
<1>2. limits' \in [Levels -> Seq(LimitBndl)]
  BY TypeStep DEF TypeOK, BookTypeOK
<1>3. ASSUME NEW id \in DOMAIN id_cache, Pull(id), beg' = beg, end' = end
      PROVE  LimitWindows' /\ Uncrossed'
  <2>1. CASE PopLimit(id)
    BY <1>2, <1>3, <2>1, PullLimitWindows, BookOfIInv
  <2>2. CASE PopStop(id)
    BY <1>1, <1>3, <2>2, LimitFrame DEF PopStop
  <2> QED
    BY <1>3, <2>1, <2>2 DEF Pull
<1>4. CASE \E id \in DOMAIN id_cache : PullOrder(id)
  BY <1>3, <1>4 DEF PullOrder
<1>5. CASE \E id \in DOMAIN id_cache, e \in ClientOrders : ReplaceOrder(id, e)
  BY <1>3, <1>5 DEF ReplaceOrder
<1>6. CASE \/ \E e \in InitEnd .. MaxLevel + 1 : GrowBookAbove(e)
           \/ \E b \in 1 .. InitBeg : GrowBookBelow(b)
  BY <1>6, GrowWindows
<1>7. CASE FillFront \/ FillPartOfFront
  BY <1>2, <1>7, TradeLimitWindows
<1>8. CASE RestLimit
  BY <1>8, RestLimitWindows
<1>9. CASE UNCHANGED <<limits, best, worst, beg, end>>
  BY <1>1, <1>9, LimitFrame
<1>10. CASE \E e \in ClientOrders : InsertOrder(e)
  BY <1>9, <1>10 DEF InsertOrder, book, pointers
<1>11. CASE InsertStop \/ ScanBuyStops \/ ScanSellStops
  BY <1>9, <1>11 DEF InsertStop, ScanBuyStops, ScanSellStops, Scan
<1>12. CASE \/ RouteLimit \/ RouteMarket \/ EndTrade \/ EndBuyScan
            \/ EndSellScan \/ Filled \/ ThrowLiquidity \/ NextInternal
            \/ CloseWindow
  BY <1>9, <1>12
     DEF RouteLimit, RouteMarket, EndTrade, EndBuyScan, EndSellScan, Filled,
         ThrowLiquidity, NextInternal, CloseWindow, book, pointers
<1>13. CASE UNCHANGED vars
  BY <1>9, <1>13 DEF vars
<1> QED
  BY <1>4, <1>5, <1>6, <1>7, <1>8, <1>10, <1>11, <1>12, <1>13
     DEF Next, Client, Window

-----------------------------------------------------------------------------
(* The windows of the stop orders. *)

\* The chains, near, far and the ends of the book stay.
LEMMA StopFrame ==
    ASSUME StopWindows, UNCHANGED <<stops, near, far, beg, end>>
    PROVE  StopWindows'
BY DEF StopWindows, HasOrder, NullLow, NullHigh, Book

\* A stop order is inside its window, and the window in the book.
LEMMA StopInBook ==
    ASSUME BookTypeOK, StopWindows, NEW l \in Levels, NEW s \in Sides,
           HasOrder(stops, l, s)
    PROVE  /\ near[s] \in Book /\ far[s] \in Book
           /\ Geq(s, l, near[s]) /\ Geq(s, far[s], l)
<1>1. Geq(s, l, near[s]) /\ Geq(s, far[s], l) /\ l \in Int
  BY DEF StopWindows, Levels
<1>2. \/ near[s] = NullHigh(s) /\ far[s] = NullLow(s)
      \/ near[s] \in Book /\ far[s] \in Book
  BY DEF StopWindows
<1>3. beg \in Int /\ end \in Int /\ beg < end
  BY PointerFacts
<1> QED
  BY <1>1, <1>2, <1>3 DEF NullLow, NullHigh, Geq, Sides

\* The window of one side closes in, after the chain at p has become empty.
LEMMA NarrowerStopWindow ==
    ASSUME BookTypeOK, StopWindows, NEW s \in Sides, NEW p \in Levels,
           Kept(stops, stops'), stops'[p] = <<>>,
           near' \in [Sides -> Pointers], far' \in [Sides -> Pointers],
           \A t \in Sides : t # s => near'[t] = near[t] /\ far'[t] = far[t],
           \A l \in Levels : /\ l # p
                             /\ Geq(s, l, near[s]) /\ Geq(s, far[s], l)
                             => Geq(s, l, near'[s]) /\ Geq(s, far'[s], l),
           \/ near'[s] = NullHigh(s) /\ far'[s] = NullLow(s)
           \/ /\ near'[s] \in Book /\ far'[s] \in Book
              /\ Geq(s, far'[s], near'[s]),
           beg' = beg, end' = end
    PROVE  StopWindows'
<1>1. ASSUME NEW l \in Levels, NEW t \in Sides, HasOrder(stops', l, t)
      PROVE  Geq(t, l, near'[t]) /\ Geq(t, far'[t], l)
  <2>1. HasOrder(stops, l, t)
    BY <1>1, KeptOrders
  <2>2. l # p
    BY <1>1 DEF HasOrder
  <2>3. Geq(t, l, near[t]) /\ Geq(t, far[t], l)
    BY <2>1 DEF StopWindows
  <2>4. CASE t = s
    BY <2>2, <2>3, <2>4
  <2>5. CASE t # s
    BY <2>3, <2>5
  <2> QED
    BY <2>4, <2>5
<1>2. /\ Book' = Book
      /\ \A t \in Sides : NullLow(t)' = NullLow(t) /\ NullHigh(t)' = NullHigh(t)
  BY DEF Book, NullLow, NullHigh
<1>3. ASSUME NEW t \in Sides
      PROVE  \/ near'[t] = NullHigh(t)' /\ far'[t] = NullLow(t)'
             \/ near'[t] \in Book' /\ far'[t] \in Book'
                /\ Geq(t, far'[t], near'[t])
  <2>1. CASE t = s
    BY <1>2, <2>1
  <2>2. CASE t # s
    <3>1. \/ near[t] = NullHigh(t) /\ far[t] = NullLow(t)
          \/ near[t] \in Book /\ far[t] \in Book /\ Geq(t, far[t], near[t])
      BY DEF StopWindows
    <3>2. near'[t] = near[t] /\ far'[t] = far[t]
      BY <2>2
    <3> QED
      BY <1>2, <3>1, <3>2
  <2> QED
    BY <2>1, <2>2
<1> QED
  BY <1>1, <1>3 DEF StopWindows

\* Pulling a stop order keeps the windows of both sides, though only one moves.
LEMMA PullStopWindows ==
    ASSUME BookInv, NEW id \in DOMAIN id_cache, PopStop(id), beg' = beg, end' = end,
           near' \in [Sides -> Pointers], far' \in [Sides -> Pointers]
    PROVE  StopWindows'
<1> DEFINE p == id_cache[id].p
<1>0. BookTypeOK /\ StopWindows
  BY DEF BookInv
<1>1. p \in Levels /\ stops \in [Levels -> Seq(StopBndl)]
  BY <1>0 DEF BookTypeOK, CacheElem
<1>2. PICK i \in 1 .. Len(stops[p]) :
          /\ stops' = [stops EXCEPT ![p] = RemoveAt(@, i)]
          /\ IF stops'[p] = <<>>
             THEN StopAfterPull(stops[p][i].side, p)
             ELSE UNCHANGED <<near, far>>
  BY Zenon DEF PopStop
<1> DEFINE s == stops[p][i].side
<1>3. Kept(stops, stops')
  BY <1>1, <1>2, RemoveKeeps
<1>4. s \in Sides
  <2>1. stops[p] \in Seq(StopBndl)
    BY <1>1
  <2>2. stops[p][i] \in StopBndl
    BY <2>1, ElementOfSeq
  <2> QED
    BY <2>2 DEF StopBndl
<1>5. HasOrder(stops, p, s)
  BY DEF HasOrder
<1> HIDE DEF s, p
<1>6. /\ near[s] \in Book /\ far[s] \in Book
      /\ Geq(s, p, near[s]) /\ Geq(s, far[s], p)
  BY <1>0, <1>1, <1>4, <1>5, StopInBook
<1>7. CASE stops'[p] = <<>>
  <2>1. StopAfterPull(s, p)
    BY <1>2, <1>7, Zenon DEF s
  <2>2. /\ p \in Int /\ near[s] \in Int /\ far[s] \in Int
        /\ beg \in Int /\ end \in Int /\ Levels \subseteq Int
    BY <1>0, <1>1, <1>4, PointerFacts DEF BookTypeOK, Levels, Pointers
  <2>3. \A t \in Sides : t # s => near'[t] = near[t] /\ far'[t] = far[t]
    BY <1>0, <1>4, <2>1 DEF StopAfterPull, BookTypeOK
  <2>4. CASE far[s] = near[s]
    <3>1. near'[s] = NullHigh(s) /\ far'[s] = NullLow(s)
      BY <1>0, <1>4, <2>1, <2>4 DEF StopAfterPull, BookTypeOK
    <3>2. \A l \in Levels : Geq(s, l, near[s]) /\ Geq(s, far[s], l) => l = p
      BY <1>4, <1>6, <2>2, <2>4 DEF Geq, Sides
    <3> QED
      BY <1>0, <1>1, <1>3, <1>4, <1>7, <2>3, <3>1, <3>2, NarrowerStopWindow
  <2>5. CASE far[s] # near[s] /\ p = far[s]
    <3>1. near'[s] = near[s] /\ far'[s] = Inc(Opp(s), p)
      BY <1>0, <1>4, <2>1, <2>5 DEF StopAfterPull, BookTypeOK
    <3>2. \A l \in Levels : l # p /\ Geq(s, l, near[s]) /\ Geq(s, far[s], l)
              => Geq(s, l, near'[s]) /\ Geq(s, far'[s], l)
      BY <1>4, <2>2, <2>5, <3>1 DEF Geq, Inc, Opp, Sides
    <3>3. /\ near'[s] \in Book /\ far'[s] \in Book /\ Geq(s, far'[s], near'[s])
      BY <1>4, <1>6, <2>2, <2>5, <3>1 DEF Geq, Inc, Opp, Sides, Book
    <3> QED
      BY <1>0, <1>1, <1>3, <1>4, <1>7, <2>3, <3>2, <3>3, NarrowerStopWindow
  <2>6. CASE far[s] # near[s] /\ p # far[s]
    <3>1. /\ near'[s] = (IF p = near[s] THEN Inc(s, p) ELSE near[s])
          /\ far'[s] = far[s]
      BY <1>0, <1>4, <2>1, <2>6 DEF StopAfterPull, BookTypeOK
    <3>2. \A l \in Levels : l # p /\ Geq(s, l, near[s]) /\ Geq(s, far[s], l)
              => Geq(s, l, near'[s]) /\ Geq(s, far'[s], l)
      BY <1>4, <2>2, <2>6, <3>1 DEF Geq, Inc, Sides
    <3>3. /\ near'[s] \in Book /\ far'[s] \in Book /\ Geq(s, far'[s], near'[s])
      BY <1>4, <1>6, <2>2, <2>6, <3>1 DEF Geq, Inc, Sides, Book
    <3> QED
      BY <1>0, <1>1, <1>3, <1>4, <1>7, <2>3, <3>2, <3>3, NarrowerStopWindow
  <2> QED
    BY <2>4, <2>5, <2>6
<1>8. CASE stops'[p] # <<>>
  <2>1. UNCHANGED <<near, far>>
    BY <1>2, <1>8, Zenon
  <2>2. \A l \in Levels, t \in Sides : HasOrder(stops', l, t) =>
            Geq(t, l, near[t]) /\ Geq(t, far[t], l)
    BY <1>0, <1>3, KeptOrders DEF StopWindows
  <2> QED
    BY <1>0, <2>1, <2>2 DEF StopWindows, NullLow, NullHigh, Book
<1> QED
  BY <1>7, <1>8

\* When the chain at p has triggered, near moves past p, and the window stays
\* around the stops that are left.
LEMMA TriggerStopWindows ==
    ASSUME BookInv, NEW s \in Sides, NEW p \in Book, Geq(s, near[s], p),
           stops' = [stops EXCEPT ![p] = <<>>], StopAfterTrigger(s, p),
           BookTypeOK', beg' = beg, end' = end
    PROVE  /\ StopWindows'
           /\ Inc(s, p) \in Book \cup {NullHigh(s)}
           /\ near'[s] \in {Inc(s, p), NullHigh(s)}
           /\ Kept(stops, stops')
<1>0. BookTypeOK /\ StopWindows /\ BookTypeOK'
  BY DEF BookInv
<1>1. /\ p \in Book /\ p \in Levels
      /\ Geq(s, near[s], p)
  BY <1>0, PointerFacts
<1>2. /\ stops' = [stops EXCEPT ![p] = <<>>]
      /\ StopAfterTrigger(s, p)
  OBVIOUS
<1>3. stops'[p] = <<>> /\ \A l \in Levels : l # p => stops'[l] = stops[l]
  BY <1>0, <1>1, <1>2 DEF BookTypeOK
<1>4. Kept(stops, stops')
  <2> SUFFICES ASSUME NEW l \in Levels, NEW i \in 1 .. Len(stops'[l])
               PROVE  \E j \in 1 .. Len(stops[l]) : stops'[l][i] = stops[l][j]
    BY DEF Kept
  <2>1. l # p
    BY <1>3, EmptySeq
  <2> QED
    BY <1>3, <2>1
<1>5. /\ p \in Int /\ near[s] \in Int /\ far[s] \in Int
      /\ beg \in Int /\ end \in Int /\ beg < end /\ Levels \subseteq Int
  BY <1>0, <1>1, PointerFacts DEF BookTypeOK, Levels, Pointers
<1>6. \A t \in Sides : t # s => near'[t] = near[t] /\ far'[t] = far[t]
  BY <1>0, <1>2 DEF StopAfterTrigger, BookTypeOK
<1>7. Inc(s, p) \in Book \cup {NullHigh(s)}
  BY <1>1, <1>5 DEF Inc, Book, NullHigh, Sides
<1>8. \/ near[s] = NullHigh(s) /\ far[s] = NullLow(s)
      \/ near[s] \in Book /\ far[s] \in Book /\ Geq(s, far[s], near[s])
  BY <1>0 DEF StopWindows
<1>9. near' \in [Sides -> Pointers] /\ far' \in [Sides -> Pointers]
  BY <1>0 DEF BookTypeOK
<1>10. CASE Gt(s, Inc(s, p), far[s])
  <2>1. near'[s] = NullHigh(s) /\ far'[s] = NullLow(s)
    BY <1>0, <1>2, <1>10 DEF StopAfterTrigger, BookTypeOK
  <2>2. \A l \in Levels : Geq(s, l, near[s]) /\ Geq(s, far[s], l) => l = p
    BY <1>0, <1>1, <1>5, <1>8, <1>10 DEF Geq, Gt, Inc, NullHigh, NullLow, Book, Sides
  <2>3. StopWindows'
    BY <1>0, <1>1, <1>3, <1>4, <1>6, <1>9, <2>1, <2>2, NarrowerStopWindow
  <2> QED
    BY <1>4, <1>7, <2>1, <2>3
<1>11. CASE ~ Gt(s, Inc(s, p), far[s])
  <2>1. near'[s] = Inc(s, p) /\ far'[s] = far[s]
    BY <1>0, <1>2, <1>11 DEF StopAfterTrigger, BookTypeOK
  <2>2. far[s] \in Book
    BY <1>1, <1>5, <1>8, <1>11
       DEF Gt, Inc, NullHigh, NullLow, Book, Sides
  <2>3. \A l \in Levels : l # p /\ Geq(s, l, near[s]) /\ Geq(s, far[s], l)
            => Geq(s, l, near'[s]) /\ Geq(s, far'[s], l)
    BY <1>1, <1>5, <2>1, <2>2 DEF Geq, Inc, Sides
  <2>4. near'[s] \in Book /\ far'[s] \in Book /\ Geq(s, far'[s], near'[s])
    BY <1>1, <1>5, <1>11, <2>1, <2>2 DEF Gt, Geq, Inc, Book, Sides
  <2>5. StopWindows'
    BY <1>0, <1>1, <1>3, <1>4, <1>6, <1>9, <2>3, <2>4, NarrowerStopWindow
  <2> QED
    BY <1>1, <1>4, <1>7, <2>1, <2>5
<1> QED
  BY <1>10, <1>11

\* Triggering the chain at scan keeps the windows of both sides, and near
\* follows the loop variable.
LEMMA ScanStopWindows ==
    ASSUME IInv, NEW s \in Sides, NEW at, Scan(s, at), TypeOK',
           \/ s = "buy" /\ pc = "scan_buy"
           \/ s = "sell" /\ pc = "scan_sell"
    PROVE  /\ StopWindows'
           /\ scan' \in Book \cup {NullHigh(s)}
           /\ near'[s] \in {scan', NullHigh(s)}
           /\ Kept(stops, stops')
<1>0. BookInv /\ BookTypeOK'
  BY BookOfIInv DEF TypeOK
<1>1. /\ scan \in Book /\ scan \in Levels
      /\ near[s] \in {scan, NullHigh(s)}
      /\ scan' = Inc(s, scan) /\ beg' = beg /\ end' = end
      /\ HandleTriggeredStopChain(s, scan)
  BY ScanInLevels DEF Scan, IInv, ScanPosition
<1>2. /\ stops' = [stops EXCEPT ![scan] = <<>>]
      /\ StopAfterTrigger(s, scan)
  BY <1>1 DEF HandleTriggeredStopChain
<1>3. Geq(s, near[s], scan)
  BY <1>0, <1>1, PointerFacts DEF BookInv, Geq, NullHigh, Book, Levels, Sides
<1> QED
  BY <1>0, <1>1, <1>2, <1>3, TriggerStopWindows

\* A new stop order widens the window of its side to its level.
LEMMA NewStopWindows ==
    ASSUME BookInv, NEW s \in Sides, NEW p \in Book, NEW bndl, bndl.side = s,
           stops' = ChainEmplace(stops, p, bndl), StopAfterInsert(s, p),
           beg' = beg, end' = end
    PROVE  StopWindows'
<1>0. BookTypeOK /\ StopWindows
  BY DEF BookInv
<1>1. s \in Sides /\ p \in Book /\ p \in Levels
  BY <1>0, PointerFacts
<1>2. /\ stops' = [stops EXCEPT ![p] = Append(@, bndl)]
      /\ near' = [near EXCEPT ![s] = IF Gt(s, @, p) THEN p ELSE @]
      /\ far' = [far EXCEPT ![s] = IF Gt(s, p, @) THEN p ELSE @]
      /\ beg' = beg /\ end' = end
  BY DEF ChainEmplace, StopAfterInsert
<1>3. /\ near'[s] = (IF Gt(s, near[s], p) THEN p ELSE near[s])
      /\ far'[s] = (IF Gt(s, p, far[s]) THEN p ELSE far[s])
      /\ \A t \in Sides : t # s => near'[t] = near[t] /\ far'[t] = far[t]
  BY <1>0, <1>1, <1>2 DEF BookTypeOK
<1>4. /\ near[s] \in Int /\ far[s] \in Int /\ p \in Int
      /\ beg \in Int /\ end \in Int
  BY <1>0, <1>1, PointerFacts DEF BookTypeOK, Pointers, Levels
<1>5. /\ stops[p] \in Seq(StopBndl)
      /\ Len(stops[p]) \in Nat
      /\ stops'[p] = Append(stops[p], bndl)
      /\ \A l \in Levels : l # p => stops'[l] = stops[l]
  BY <1>0, <1>1, <1>2, LenProperties DEF BookTypeOK
<1>6. /\ Len(stops'[p]) = Len(stops[p]) + 1
      /\ stops'[p][Len(stops[p]) + 1].side = s
      /\ \A i \in 1 .. Len(stops[p]) : stops'[p][i] = stops[p][i]
  BY <1>5
<1>7. ASSUME NEW l \in Levels, NEW t \in Sides, HasOrder(stops', l, t)
      PROVE  HasOrder(stops, l, t) \/ (l = p /\ t = s)
  <2>1. CASE l = p
    <3>1. PICK i \in 1 .. Len(stops'[p]) : stops'[p][i].side = t
      BY <1>7, <2>1 DEF HasOrder
    <3>2. i \in 1 .. Len(stops[p]) \/ i = Len(stops[p]) + 1
      BY <1>5, <1>6, <3>1
    <3> QED
      BY <1>6, <2>1, <3>1, <3>2 DEF HasOrder
  <2>2. CASE l # p
    BY <1>5, <1>7, <2>2 DEF HasOrder
  <2> QED
    BY <2>1, <2>2
<1>8. ASSUME NEW l \in Levels, NEW t \in Sides, HasOrder(stops', l, t)
      PROVE  Geq(t, l, near'[t]) /\ Geq(t, far'[t], l)
  <2>1. l \in Int
    BY DEF Levels
  <2>2. CASE HasOrder(stops, l, t)
    <3>1. Geq(t, l, near[t]) /\ Geq(t, far[t], l)
      BY <1>0, <2>2 DEF StopWindows
    <3>2. CASE t = s
      BY <1>1, <1>3, <1>4, <2>1, <3>1, <3>2 DEF Geq, Gt, Sides
    <3>3. CASE t # s
      BY <1>3, <3>1, <3>3
    <3> QED
      BY <3>2, <3>3
  <2>3. CASE l = p /\ t = s
    BY <1>1, <1>3, <1>4, <2>3 DEF Geq, Gt, Sides
  <2> QED
    BY <1>7, <1>8, <2>2, <2>3
<1>9. ASSUME NEW t \in Sides
      PROVE  \/ near'[t] = NullHigh(t)' /\ far'[t] = NullLow(t)'
             \/ near'[t] \in Book' /\ far'[t] \in Book'
                /\ Geq(t, far'[t], near'[t])
  <2>1. /\ NullLow(t)' = NullLow(t) /\ NullHigh(t)' = NullHigh(t)
        /\ Book' = Book
    BY <1>2 DEF NullLow, NullHigh, Book
  <2>2. \/ near[t] = NullHigh(t) /\ far[t] = NullLow(t)
        \/ near[t] \in Book /\ far[t] \in Book /\ Geq(t, far[t], near[t])
    BY <1>0 DEF StopWindows
  <2>3. CASE t # s
    <3>1. near'[t] = near[t] /\ far'[t] = far[t]
      BY <1>3, <2>3
    <3> QED
      BY <2>1, <2>2, <3>1
  <2>4. CASE t = s /\ near[s] = NullHigh(s) /\ far[s] = NullLow(s)
    <3>1. near'[s] = p /\ far'[s] = p
      BY <1>1, <1>3, <1>4, <2>4 DEF Gt, NullLow, NullHigh, Book, Sides
    <3>2. Geq(s, p, p)
      BY <1>4 DEF Geq
    <3> QED
      BY <1>1, <2>1, <2>4, <3>1, <3>2
  <2>5. CASE t = s /\ near[s] \in Book /\ far[s] \in Book
             /\ Geq(s, far[s], near[s])
    <3>1. near'[s] \in Book /\ far'[s] \in Book
      BY <1>1, <1>3, <2>5
    <3>2. Geq(s, far'[s], near'[s])
      BY <1>1, <1>3, <1>4, <2>5 DEF Gt, Geq, Sides
    <3> QED
      BY <2>1, <2>5, <3>1, <3>2
  <2> QED
    BY <2>2, <2>3, <2>4, <2>5
<1> QED
  BY <1>8, <1>9 DEF StopWindows

\* So does a stop order that is inserted.
LEMMA InsertStopWindows ==
    ASSUME IInv, InsertStop
    PROVE  StopWindows'
<1> DEFINE s == cur.side
           p == cur.stop
           bndl == [id |-> cur.id, sz |-> cur.sz, side |-> cur.side,
                    limit |-> cur.limit]
<1>1. BookInv /\ s \in Sides /\ p \in Book
  BY BookOfIInv DEF IInv, TypeOK, QueueElem, PricesInBook, InsertStop
<1>2. /\ stops' = ChainEmplace(stops, p, bndl)
      /\ StopAfterInsert(s, p)
      /\ beg' = beg /\ end' = end
  BY DEF InsertStop
<1>3. bndl.side = s
  OBVIOUS
<1> HIDE DEF s, p, bndl
<1> QED
  BY <1>1, <1>2, <1>3, NewStopWindows

\* A stop chain whose orders change their sizes stays inside the windows.
LEMMA ResizedStopWindows ==
    ASSUME BookInv, SameSides(stops, stops'), UNCHANGED <<near, far, beg, end>>
    PROVE  StopWindows'
BY SameSidesHave DEF BookInv, StopWindows, NullLow, NullHigh, Book

\* Every step keeps the stop windows.
LEMMA StopWindowsStep == IInv /\ [Next]_vars => StopWindows'
<1> SUFFICES ASSUME IInv, [Next]_vars PROVE StopWindows'
  OBVIOUS
<1>1. StopWindows /\ TypeOK'
  BY TypeStep DEF IInv
<1>2. near' \in [Sides -> Pointers] /\ far' \in [Sides -> Pointers]
  BY <1>1 DEF TypeOK, BookTypeOK
<1>3. ASSUME NEW id \in DOMAIN id_cache, Pull(id), beg' = beg, end' = end
      PROVE  StopWindows'
  <2>1. CASE PopLimit(id)
    BY <1>1, <1>3, <2>1, StopFrame DEF PopLimit
  <2>2. CASE PopStop(id)
    BY <1>2, <1>3, <2>2, PullStopWindows, BookOfIInv
  <2> QED
    BY <1>3, <2>1, <2>2 DEF Pull
<1>4. CASE \E id \in DOMAIN id_cache : PullOrder(id)
  BY <1>3, <1>4 DEF PullOrder
<1>5. CASE \E id \in DOMAIN id_cache, e \in ClientOrders : ReplaceOrder(id, e)
  BY <1>3, <1>5 DEF ReplaceOrder
<1>6. CASE \/ \E e \in InitEnd .. MaxLevel + 1 : GrowBookAbove(e)
           \/ \E b \in 1 .. InitBeg : GrowBookBelow(b)
  BY <1>6, GrowWindows
<1>7. CASE InsertStop
  BY <1>7, InsertStopWindows
<1>8. CASE ScanBuyStops
  BY <1>1, <1>8, ScanStopWindows DEF ScanBuyStops, Scan, Sides
<1>9. CASE ScanSellStops
  BY <1>1, <1>9, ScanStopWindows DEF ScanSellStops, Scan, Sides
<1>10. CASE UNCHANGED <<stops, near, far, beg, end>>
  BY <1>1, <1>10, StopFrame
<1>11. CASE \E e \in ClientOrders : InsertOrder(e)
  BY <1>10, <1>11 DEF InsertOrder, book, pointers
<1>12. CASE FillFront \/ FillPartOfFront \/ RestLimit
  BY <1>10, <1>12 DEF FillFront, FillPartOfFront, RestLimit, pointers
<1>13. CASE \/ RouteLimit \/ RouteMarket \/ EndTrade \/ EndBuyScan
            \/ EndSellScan \/ Filled \/ ThrowLiquidity \/ NextInternal
            \/ CloseWindow
  BY <1>10, <1>13
     DEF RouteLimit, RouteMarket, EndTrade, EndBuyScan, EndSellScan, Filled,
         ThrowLiquidity, NextInternal, CloseWindow, book, pointers
<1>14. CASE UNCHANGED vars
  BY <1>10, <1>14 DEF vars
<1> QED
  BY <1>4, <1>5, <1>6, <1>7, <1>8, <1>9, <1>11, <1>12, <1>13, <1>14
     DEF Next, Client, Window

-----------------------------------------------------------------------------
(* Prices and control. *)

\* What waits in the internal queue has its type, a price in the book and a size.
LEMMA QueuePrices ==
    ASSUME IInv, NEW i \in 1 .. Len(internal_queue)
    PROVE  /\ internal_queue[i] \in QueueElem
           /\ internal_queue[i].type = "limit" => internal_queue[i].limit \in Book
           /\ internal_queue[i].type # "stop"
           /\ internal_queue[i].sz > 0
<1>1. internal_queue[i] \in QueueElem
  BY ElementOfSeq DEF IInv, TypeOK, BookTypeOK
<1> QED
  BY <1>1 DEF IInv, PricesInBook

\* The order being executed, and the flag, after a step.
LEMMA CurStep ==
    ASSUME IInv, [Next]_vars
    PROVE  /\ cur'.type = "limit" => cur'.limit \in Book
           /\ cur'.type = "stop" => /\ cur'.stop \in Book
                                    /\ cur'.limit \in Book \cup {0}
           /\ ControlState'
<1> DEFINE Goal == /\ cur'.type = "limit" => cur'.limit \in Book
                   /\ cur'.type = "stop" => /\ cur'.stop \in Book
                                            /\ cur'.limit \in Book \cup {0}
                   /\ ControlState'
<1>1. /\ cur.type = "limit" => cur.limit \in Book
      /\ cur.type = "stop" => cur.stop \in Book /\ cur.limit \in Book \cup {0}
  BY DEF IInv, PricesInBook
<1>2. /\ ControlState /\ TypeOK /\ cur \in QueueElem
      /\ pc = "idle" => cur = NoOrder
  BY DEF IInv, TypeOK, BookTypeOK, ControlState
<1>3. Book \subseteq Book' /\ (pc # "idle" => Book' = Book)
  BY BookOnlyGrows DEF Book
<1>4. NoOrder.type = "market" /\ NoOrder.sz = 0
  BY DEF NoOrder
<1>5. ASSUME NEW e \in ClientOrders, StartOrder(e), pc = "idle",
             UNCHANGED <<last, beg, end, internal_queue, need_check_for_stops>>
      PROVE  Goal
  <2>1. /\ e \in QueueElem /\ e.sz > 0
        /\ e.type = "limit" => e.limit \in Book
        /\ e.type = "stop" => e.stop \in Book /\ e.limit \in Book \cup {0}
    BY <1>2, ClientOrderFacts
  <2>2. /\ cur' = [e EXCEPT !.id = last_id + 1] /\ pc' = "route"
    BY <1>5 DEF StartOrder
  <2>3. /\ cur'.type = e.type /\ cur'.limit = e.limit /\ cur'.stop = e.stop
        /\ cur'.sz = e.sz
    BY <2>1, <2>2 DEF QueueElem
  <2>4. ~ need_check_for_stops
    BY <1>2, <1>5 DEF ControlState
  <2>5. ControlState'
    BY <1>5, <2>1, <2>2, <2>3, <2>4 DEF ControlState
  <2> QED
    BY <2>1, <2>3, <2>5
<1>6. CASE \E e \in ClientOrders : InsertOrder(e)
  BY <1>5, <1>6 DEF InsertOrder
<1>7. CASE \E id \in DOMAIN id_cache, e \in ClientOrders : ReplaceOrder(id, e)
  BY <1>5, <1>7 DEF ReplaceOrder
<1>8. CASE \/ \E id \in DOMAIN id_cache : PullOrder(id)
           \/ \E e \in InitEnd .. MaxLevel + 1 : GrowBookAbove(e)
           \/ \E b \in 1 .. InitBeg : GrowBookBelow(b)
  <2>1. pc = "idle" /\ UNCHANGED <<cur, internal_queue, need_check_for_stops,
                                   pc, last>>
    BY <1>8 DEF PullOrder, GrowBookAbove, GrowBookBelow
  <2> QED
    BY <1>1, <1>2, <1>4, <2>1 DEF ControlState
<1>9. CASE RouteLimit \/ RouteMarket
  BY <1>1, <1>2, <1>9 DEF RouteLimit, RouteMarket, ControlState
<1>10. CASE InsertStop \/ Filled \/ RestLimit
  BY <1>2, <1>4, <1>10 DEF InsertStop, Filled, RestLimit, ControlState
<1>11. CASE FillFront \/ FillPartOfFront
  <2>1. PICK p, amount : p \in Book /\ TradeHasOccured(p, amount)
    BY <1>11, TradeHitsAChain DEF FillFront, FillPartOfFront
  <2>2. /\ cur'.type = cur.type /\ cur'.limit = cur.limit
        /\ cur'.stop = cur.stop
        /\ last' = p /\ need_check_for_stops'
    BY <1>2, <2>1 DEF TradeHasOccured, QueueElem
  <2>3. pc = "trade" /\ pc' = "trade"
    BY <1>11 DEF FillFront, FillPartOfFront
  <2>4. Book' = Book
    BY <1>3, <2>3
  <2> QED
    BY <1>1, <1>2, <2>1, <2>2, <2>3, <2>4 DEF ControlState
<1>12. CASE EndTrade \/ EndBuyScan \/ EndSellScan
  BY <1>1, <1>2, <1>3, <1>12 DEF EndTrade, EndBuyScan, EndSellScan, ControlState
<1>13. CASE ScanBuyStops \/ ScanSellStops
  BY <1>1, <1>2, <1>3, <1>13
     DEF ScanBuyStops, ScanSellStops, Scan, ControlState
<1>14. CASE ThrowLiquidity \/ CloseWindow
  BY <1>1, <1>2, <1>4, <1>14 DEF ThrowLiquidity, CloseWindow, ControlState
<1>15. CASE NextInternal
  <2>1. /\ cur' = Head(internal_queue) /\ pc' = "route" /\ pc = "drain"
        /\ internal_queue # <<>> /\ UNCHANGED need_check_for_stops
    BY <1>15 DEF NextInternal
  <2>2. internal_queue \in Seq(QueueElem) /\ 1 \in 1 .. Len(internal_queue)
    BY <1>2, <2>1, LenProperties, EmptySeq DEF TypeOK, BookTypeOK
  <2>3. cur' = internal_queue[1]
    BY <2>1, <2>2
  <2>4. /\ cur'.type = "limit" => cur'.limit \in Book
        /\ cur'.type # "stop" /\ cur'.sz > 0
    BY <2>2, <2>3, QueuePrices
  <2> QED
    BY <1>2, <2>1, <2>4 DEF ControlState
<1>16. CASE UNCHANGED vars
  BY <1>1, <1>2, <1>16 DEF vars, ControlState, Book
<1> QED
  BY <1>6, <1>7, <1>8, <1>9, <1>10, <1>11, <1>12, <1>13, <1>14, <1>15, <1>16
     DEF Next, Client, Window

\* The last trade was in the book.
LEMMA LastStep ==
    ASSUME IInv, [Next]_vars
    PROVE  last' \in Book' \cup {0}
<1>1. last \in Book \cup {0}
  BY DEF IInv, PricesInBook
<1>2. Book \subseteq Book'
  BY BookOnlyGrows
<1>3. CASE FillFront \/ FillPartOfFront
  BY <1>2, <1>3, TradeHitsAChain
     DEF FillFront, FillPartOfFront, TradeHasOccured
<1>4. CASE last' = last
  BY <1>1, <1>2, <1>4
<1>5. CASE Client
  BY <1>4, <1>5
     DEF Client, InsertOrder, PullOrder, ReplaceOrder, GrowBookAbove,
         GrowBookBelow
<1> QED
  BY <1>3, <1>4, <1>5
     DEF Next, Window, RouteLimit, RouteMarket, InsertStop, EndTrade,
         ScanBuyStops, EndBuyScan, ScanSellStops, EndSellScan, Scan, Filled,
         RestLimit, ThrowLiquidity, NextInternal, CloseWindow, vars

\* What a step does to the stop orders: it takes some away, or adds cur.
LEMMA StopChainsStep ==
    ASSUME IInv, [Next]_vars
    PROVE  Kept(stops, stops') \/ InsertStop
<1>1. CASE stops' = stops
  BY <1>1, SameIsKept
<1>2. ASSUME NEW id, Pull(id)
      PROVE  Kept(stops, stops')
  BY <1>2, PullKeeps DEF IInv, TypeOK
<1>3. CASE ScanBuyStops \/ ScanSellStops
  BY <1>3, ScanStopWindows, TypeStep
     DEF ScanBuyStops, ScanSellStops, Scan, Sides
<1>4. CASE Client
  BY <1>1, <1>2, <1>4
     DEF Client, InsertOrder, PullOrder, ReplaceOrder, GrowBookAbove,
         GrowBookBelow, book
<1>5. CASE UNCHANGED vars
  BY <1>1, <1>5 DEF vars
<1> QED
  BY <1>1, <1>3, <1>4, <1>5
     DEF Next, Window, RouteLimit, RouteMarket, FillFront, FillPartOfFront,
         EndTrade, EndBuyScan, EndSellScan, Filled, RestLimit,
         ThrowLiquidity, NextInternal, CloseWindow, book

\* Stop-limit orders on the chains keep limits in the book, also when it grows.
LEMMA StopPricesStep ==
    ASSUME IInv, [Next]_vars
    PROVE  \A l \in Levels : \A i \in 1 .. Len(stops'[l]) :
               stops'[l][i].limit \in Book' \cup {0}
<1>1. \A l \in Levels : \A i \in 1 .. Len(stops[l]) :
          stops[l][i].limit \in Book \cup {0}
  BY DEF IInv, PricesInBook
<1>2. Book \subseteq Book'
  BY BookOnlyGrows
<1>3. CASE Kept(stops, stops')
  BY <1>1, <1>2, <1>3 DEF Kept
<1>4. CASE InsertStop
  <2> DEFINE p == cur.stop
             bndl == [id |-> cur.id, sz |-> cur.sz, side |-> cur.side,
                      limit |-> cur.limit]
  <2>1. p \in Levels /\ cur.limit \in Book \cup {0}
    BY <1>4, PointerFacts DEF IInv, TypeOK, PricesInBook, InsertStop
  <2>2. stops' = [stops EXCEPT ![p] = Append(@, bndl)]
    BY <1>4 DEF InsertStop, ChainEmplace
  <2>3. /\ stops[p] \in Seq(StopBndl)
        /\ Len(stops[p]) \in Nat
        /\ stops'[p] = Append(stops[p], bndl)
        /\ \A l \in Levels : l # p => stops'[l] = stops[l]
    BY <2>1, <2>2, LenProperties DEF IInv, TypeOK, BookTypeOK
  <2>4. /\ Len(stops'[p]) = Len(stops[p]) + 1
        /\ stops'[p][Len(stops[p]) + 1].limit = cur.limit
        /\ \A i \in 1 .. Len(stops[p]) : stops'[p][i] = stops[p][i]
    BY <2>3
  <2> SUFFICES ASSUME NEW l \in Levels, NEW i \in 1 .. Len(stops'[l])
               PROVE  stops'[l][i].limit \in Book' \cup {0}
    OBVIOUS
  <2> HIDE DEF p, bndl
  <2>5. CASE l # p
    BY <1>1, <1>2, <2>3, <2>5
  <2>6. CASE l = p
    <3>1. i \in 1 .. Len(stops[p]) \/ i = Len(stops[p]) + 1
      BY <2>3, <2>4, <2>6
    <3> QED
      BY <1>1, <1>2, <2>1, <2>4, <2>6, <3>1
  <2> QED
    BY <2>5, <2>6
<1> QED
  BY <1>3, <1>4, StopChainsStep

\* A triggered order has a price in the book and a size.
LEMMA QueuePricesStep ==
    ASSUME IInv, [Next]_vars
    PROVE  \A i \in 1 .. Len(internal_queue') :
               /\ internal_queue'[i].type = "limit" =>
                      internal_queue'[i].limit \in Book'
               /\ internal_queue'[i].type # "stop"
               /\ internal_queue'[i].sz > 0
<1>1. /\ Book \subseteq Book'
      /\ internal_queue \in Seq(QueueElem) /\ Len(internal_queue) \in Nat
  BY BookOnlyGrows, LenProperties DEF IInv, TypeOK, BookTypeOK
<1>2. CASE internal_queue' = internal_queue
  BY <1>1, <1>2, QueuePrices
<1>3. CASE ThrowLiquidity
  BY <1>3, EmptySeq DEF ThrowLiquidity
<1>4. CASE NextInternal
  <2>1. internal_queue' = Tail(internal_queue) /\ internal_queue # <<>>
    BY <1>4 DEF NextInternal
  <2>2. /\ Len(internal_queue') = Len(internal_queue) - 1
        /\ \A i \in 1 .. Len(internal_queue') :
               /\ i + 1 \in 1 .. Len(internal_queue)
               /\ internal_queue'[i] = internal_queue[i + 1]
    BY <1>1, <2>1, HeadTailProperties
  <2> QED
    BY <1>1, <2>2, QueuePrices
<1>5. ASSUME NEW s \in Sides, NEW at, Scan(s, at), scan \in Levels
      PROVE  \A i \in 1 .. Len(internal_queue') :
                 /\ internal_queue'[i].type = "limit" =>
                        internal_queue'[i].limit \in Book'
                 /\ internal_queue'[i].type # "stop"
                 /\ internal_queue'[i].sz > 0
  <2> DEFINE chain == stops[scan]
             new == [i \in 1 .. Len(chain) |-> TriggeredOrder(chain[i], last_id + i)]
  <2>1. internal_queue' = internal_queue \o new
    BY <1>5, Zenon DEF Scan, HandleTriggeredStopChain
  <2>2. chain \in Seq(StopBndl) /\ Len(chain) \in Nat
    BY <1>5, LenProperties DEF IInv, TypeOK, BookTypeOK
  <2>3. ASSUME NEW i \in 1 .. Len(chain)
        PROVE  /\ new[i].type = "limit" => new[i].limit \in Book'
               /\ new[i].type # "stop"
               /\ new[i].sz > 0
    <3>1. chain[i].limit \in Book \cup {0}
      BY <1>5 DEF IInv, PricesInBook
    <3>2. chain[i] \in StopBndl
      BY <2>2, ElementOfSeq
    <3>3. chain[i].sz \in Nat /\ chain[i].sz # 0
      BY <3>2 DEF StopBndl
    <3>4. new[i] = TriggeredOrder(chain[i], last_id + i)
      OBVIOUS
    <3> HIDE DEF new, chain
    <3> QED
      BY <1>1, <3>1, <3>3, <3>4 DEF TriggeredOrder
  <2>4. new \in Seq(QueueElem) /\ Len(new) = Len(chain)
    <3>1. ASSUME NEW i \in 1 .. Len(chain)
          PROVE  TriggeredOrder(chain[i], last_id + i) \in QueueElem
      <4>1. chain[i] \in StopBndl
        BY <2>2, ElementOfSeq
      <4>2. last_id + i \in Nat /\ 0 \in 0 .. MaxLevel
        BY <2>2, BookAssumption DEF IInv, TypeOK, BookTypeOK
      <4> HIDE DEF chain
      <4> QED
        BY <4>1, <4>2 DEF StopBndl, TriggeredOrder, QueueElem
    <3>2. new \in [1 .. Len(chain) -> QueueElem]
      BY <3>1
    <3> HIDE DEF chain
    <3>3. new \in Seq(QueueElem)
      BY <2>2, <3>2, SeqDef
    <3>4. DOMAIN new = 1 .. Len(chain) /\ DOMAIN new = 1 .. Len(new)
          /\ Len(new) \in Nat
      BY <3>2, <3>3, LenProperties
    <3> HIDE DEF new
    <3> QED
      BY <2>2, <3>3, <3>4
  <2> HIDE DEF new, chain
  <2>5. /\ Len(internal_queue') = Len(internal_queue) + Len(new)
        /\ \A i \in 1 .. Len(internal_queue) + Len(new) :
               internal_queue'[i] = IF i <= Len(internal_queue)
                                    THEN internal_queue[i]
                                    ELSE new[i - Len(internal_queue)]
    BY <1>1, <2>1, <2>4, ConcatProperties
  <2> SUFFICES ASSUME NEW i \in 1 .. Len(internal_queue')
               PROVE  /\ internal_queue'[i].type = "limit" =>
                             internal_queue'[i].limit \in Book'
                      /\ internal_queue'[i].type # "stop"
                      /\ internal_queue'[i].sz > 0
    OBVIOUS
  <2>6. CASE i <= Len(internal_queue)
    <3>1. i \in 1 .. Len(internal_queue) /\ internal_queue'[i] = internal_queue[i]
      BY <1>1, <2>2, <2>4, <2>5, <2>6
    <3> QED
      BY <1>1, <3>1, QueuePrices
  <2>7. CASE i > Len(internal_queue)
    <3>1. /\ i - Len(internal_queue) \in 1 .. Len(chain)
          /\ internal_queue'[i] = new[i - Len(internal_queue)]
      BY <1>1, <2>2, <2>4, <2>5, <2>7
    <3> QED
      BY <2>3, <3>1
  <2> QED
    BY <1>1, <2>2, <2>4, <2>5, <2>6, <2>7
<1>6. CASE ScanBuyStops \/ ScanSellStops
  BY <1>5, <1>6, ScanInLevels DEF ScanBuyStops, ScanSellStops, Scan, Sides
<1>7. CASE Client
  BY <1>2, <1>7
     DEF Client, InsertOrder, PullOrder, ReplaceOrder, GrowBookAbove,
         GrowBookBelow
<1>8. CASE UNCHANGED vars
  BY <1>2, <1>8 DEF vars
<1> QED
  BY <1>2, <1>3, <1>4, <1>6, <1>7, <1>8
     DEF Next, Window, RouteLimit, RouteMarket, InsertStop, FillFront,
         FillPartOfFront, EndTrade, EndBuyScan, EndSellScan, Filled,
         RestLimit, CloseWindow

\* Every step keeps all prices in the book.
LEMMA PricesStep == IInv /\ [Next]_vars => PricesInBook'
<1> SUFFICES ASSUME IInv, [Next]_vars PROVE PricesInBook'
  OBVIOUS
<1>1. /\ cur'.type = "limit" => cur'.limit \in Book'
      /\ cur'.type = "stop" => cur'.stop \in Book' /\ cur'.limit \in Book' \cup {0}
  BY CurStep, BookOnlyGrows
<1> QED
  BY <1>1, LastStep, StopPricesStep, QueuePricesStep DEF PricesInBook

-----------------------------------------------------------------------------
(* The ends of the loops. *)

\* _trade returns with something unfilled only when best does not cross.
LEMMA LoopEnds ==
    ASSUME BookInv, cur.side \in Sides, PLevel(cur) \in Book,
           ~ KeepsTrading(cur), cur.sz > 0
    PROVE  ~ IsTradable(cur)
<1> DEFINE r == Opp(cur.side)
<1>0. BookTypeOK /\ LimitWindows /\ Uncrossed
  BY DEF BookInv
<1>1. cur.side \in Sides /\ r \in Sides
  BY DEF Opp, Sides
<1>2. PLevel(cur) \in Book
  OBVIOUS
<1>3. /\ best[r] \in Int /\ PLevel(cur) \in Int
      /\ beg \in Int /\ end \in Int
  BY <1>0, <1>1, <1>2, PointerFacts DEF BookTypeOK, Pointers, Levels
<1>4. ~ Geq(r, best[r], PLevel(cur)) \/ ~ Geq(r, best[r], worst[r])
  BY DEF KeepsTrading
<1>5. CASE best[r] \in Book
  <2>1. ~ Geq(r, best[r], PLevel(cur))
    BY <1>0, <1>1, <1>4, <1>5, BestHasOrder
  <2> QED
    BY <1>1, <1>3, <2>1 DEF IsTradable, Geq, Opp, Sides
<1>6. CASE best[r] = NullLow(r)
  BY <1>1, <1>2, <1>3, <1>6 DEF IsTradable, Geq, NullLow, Book, Opp, Sides
<1> QED
  BY <1>0, <1>1, <1>5, <1>6 DEF LimitWindows

\* _trade returns with something unfilled only when best does not cross.
LEMMA EndOfTrade ==
    ASSUME IInv, pc = "trade", ~ KeepsTrading(cur), cur.sz > 0
    PROVE  ~ IsTradable(cur)
BY BookOfIInv, PLevelInBook, LoopEnds
   DEF IInv, TypeOK, QueueElem, ControlState

\* No step makes best tradable again before the executed order is settled.
LEMMA NotTradableStep == IInv /\ [Next]_vars => BestIsNotTradable'
<1> SUFFICES ASSUME IInv, [Next]_vars,
                    pc' \in {"scan_buy", "scan_sell", "settle"}, cur'.sz > 0
             PROVE  ~ IsTradable(cur)'
  BY DEF BestIsNotTradable
<1>1. ASSUME ~ IsTradable(cur), UNCHANGED <<cur, best, beg, end>>
      PROVE  ~ IsTradable(cur)'
  BY <1>1 DEF IsTradable, PLevel
<1>2. BestIsNotTradable
  BY DEF IInv
<1>3. CASE EndTrade
  <2>1. ~ IsTradable(cur)
    BY <1>3, EndOfTrade DEF EndTrade
  <2> QED
    BY <1>1, <1>3, <2>1 DEF EndTrade, pointers
<1>4. CASE RouteLimit
  BY <1>1, <1>4 DEF RouteLimit, pointers
<1>5. CASE EndBuyScan \/ EndSellScan
  BY <1>1, <1>2, <1>5 DEF EndBuyScan, EndSellScan, pointers, BestIsNotTradable
<1>6. CASE ScanBuyStops \/ ScanSellStops
  BY <1>1, <1>2, <1>6 DEF ScanBuyStops, ScanSellStops, Scan, BestIsNotTradable
<1>7. CASE UNCHANGED vars
  BY <1>1, <1>2, <1>7 DEF vars, BestIsNotTradable
<1>8. CASE Client
  BY <1>8 DEF Client, InsertOrder, PullOrder, ReplaceOrder, StartOrder,
              GrowBookAbove, GrowBookBelow
<1> QED
  BY <1>3, <1>4, <1>5, <1>6, <1>7, <1>8
     DEF Next, Window, RouteMarket, InsertStop, FillFront, FillPartOfFront,
         Filled, RestLimit, ThrowLiquidity, NextInternal, CloseWindow

\* The loops over the stops leave nothing behind that last has reached.
LEMMA ScanPositionStep == IInv /\ [Next]_vars => ScanPosition'
<1> SUFFICES ASSUME IInv, [Next]_vars PROVE ScanPosition'
  OBVIOUS
<1>0. TypeOK /\ TypeOK' /\ StopWindows /\ ScanPosition
  BY TypeStep DEF IInv
<1>1. ASSUME NEW s \in Sides
      PROVE  near[s] \in Book \cup {NullHigh(s)}
  BY <1>0 DEF StopWindows
<1>2. /\ beg \in Int /\ end \in Int /\ last \in Int
      /\ near["buy"] \in Int /\ scan \in Int
  BY <1>0, PointerFacts DEF TypeOK, BookTypeOK, Pointers, Levels, Sides
<1>3. CASE EndTrade
  <2>1. pc' = "scan_buy" => scan' = near["buy"]
    BY <1>3, Zenon DEF EndTrade
  <2>2. pc' # "scan_sell" /\ UNCHANGED <<near, beg, end>>
    BY <1>3 DEF EndTrade, pointers
  <2> QED
    BY <1>1, <2>1, <2>2 DEF ScanPosition, NullHigh, Book, Sides
<1>4. CASE ScanBuyStops
  <2>1. /\ scan' \in Book \cup {NullHigh("buy")}
        /\ near'["buy"] \in {scan', NullHigh("buy")}
    BY <1>0, <1>4, ScanStopWindows DEF ScanBuyStops, Scan, Sides
  <2>2. pc' = "scan_buy" /\ beg' = beg /\ end' = end
    BY <1>4 DEF ScanBuyStops, Scan
  <2> QED
    BY <2>1, <2>2 DEF ScanPosition, NullHigh, Book
<1>5. CASE EndBuyScan
  <2>1. /\ pc = "scan_buy" /\ Gt("buy", scan, last) /\ pc' = "scan_sell"
        /\ scan' = near["sell"]
        /\ UNCHANGED <<stops, near, beg, end, last>>
    BY <1>5 DEF EndBuyScan, pointers, book
  <2>2. last \in Book
    BY <2>1 DEF IInv, ControlState
  <2>3. near["buy"] > last
    BY <1>0, <1>2, <2>1, <2>2 DEF ScanPosition, Gt, NullHigh, Book
  <2>4. ASSUME NEW l \in Levels, HasOrder(stops, l, "buy")
        PROVE  l > last
    <3>1. Geq("buy", l, near["buy"])
      BY <1>0, <2>4 DEF StopWindows, Sides
    <3> QED
      BY <1>2, <2>3, <3>1 DEF Geq, Levels
  <2> QED
    BY <1>1, <2>1, <2>4 DEF ScanPosition, NullHigh, Book, Sides
<1>6. CASE ScanSellStops
  <2>1. /\ scan' \in Book \cup {NullHigh("sell")}
        /\ near'["sell"] \in {scan', NullHigh("sell")}
        /\ Kept(stops, stops')
    BY <1>0, <1>6, ScanStopWindows DEF ScanSellStops, Scan, Sides
  <2>2. /\ pc = "scan_sell" /\ pc' = "scan_sell"
        /\ beg' = beg /\ end' = end /\ last' = last
    BY <1>6 DEF ScanSellStops, Scan
  <2>3. \A l \in Levels : HasOrder(stops', l, "buy") => l > last
    BY <1>0, <2>1, <2>2, KeptOrders DEF ScanPosition
  <2> QED
    BY <2>1, <2>2, <2>3 DEF ScanPosition, NullHigh, Book
<1>7. CASE pc' \notin {"scan_buy", "scan_sell"}
  BY <1>7 DEF ScanPosition
<1>8. CASE UNCHANGED vars
  BY <1>0, <1>8 DEF vars, ScanPosition, HasOrder, NullHigh, Book
<1>9. CASE Client
  <2>1. pc' \in {"idle", "route"}
    BY <1>9 DEF Client, InsertOrder, PullOrder, ReplaceOrder, StartOrder,
                GrowBookAbove, GrowBookBelow
  <2> QED
    BY <1>7, <2>1
<1> QED
  BY <1>3, <1>4, <1>5, <1>6, <1>7, <1>8, <1>9
     DEF Next, Window, RouteLimit, RouteMarket, InsertStop, FillFront,
         FillPartOfFront, EndSellScan, Filled, RestLimit, ThrowLiquidity,
         NextInternal, CloseWindow

-----------------------------------------------------------------------------
(* The theorems. *)

\* IInv is inductive.
LEMMA Inductive == IInv /\ [Next]_vars => IInv'
BY TypeStep, PricesStep, CurStep, LimitWindowsStep, StopWindowsStep,
   NotTradableStep, ScanPositionStep DEF IInv

\* The inductive invariant holds in every state: for every book, every set
\* of sizes and every number of orders.
THEOREM InductiveInvariant == Spec => []IInv
<1>1. Init => IInv
  BY InitIInv
<1>2. IInv /\ [Next]_vars => IInv'
  BY Inductive
<1> QED
  BY <1>1, <1>2, PTL DEF Spec

\* Every variable keeps its type, so no pointer leaves the book by more than
\* one level and no size becomes negative (find_new_best_inside, _hit_chain).
THEOREM TypeCorrect == Spec => []TypeOK
<1>1. IInv => TypeOK
  BY DEF IInv
<1> QED
  BY <1>1, InductiveInvariant, PTL

\* The bid stays below the ask through every insert, trade and pull.
THEOREM NeverCrossed == Spec => []Uncrossed
<1>1. IInv => Uncrossed
  BY DEF IInv
<1> QED
  BY <1>1, InductiveInvariant, PTL

\* The level of a limit order tells its side, both for chain<limit>::pop
\* (against _bid) and for _is_buy_order (against _ask).
THEOREM SideIsKnown == Spec => []SideFromLevel
<1>1. IInv => SideFromLevel
  BY LevelTellsSide DEF IInv, TypeOK
<1> QED
  BY <1>1, InductiveInvariant, PTL

\* All limit orders are inside the windows of exec::limit, and best is exact.
THEOREM LimitWindowsHold == Spec => []LimitWindows
<1>1. IInv => LimitWindows
  BY DEF IInv
<1> QED
  BY <1>1, InductiveInvariant, PTL

\* All stop orders are inside the windows of exec::stop.
THEOREM StopWindowsHold == Spec => []StopWindows
<1>1. IInv => StopWindows
  BY DEF IInv
<1> QED
  BY <1>1, InductiveInvariant, PTL

\* When best is not tradable then nothing on the other side is.
LEMMA NothingLeft == IInv => NothingLeftToTrade
<1> SUFFICES ASSUME IInv, pc \in {"scan_buy", "scan_sell", "settle"},
                    cur.sz > 0, NEW l \in Levels,
                    HasOrder(limits, l, Opp(cur.side))
             PROVE  ~ Geq(cur.side, PLevel(cur), l)
  BY DEF NothingLeftToTrade
<1> DEFINE s == cur.side
           o == Opp(s)
<1>1. s \in Sides /\ o \in Sides
  BY DEF IInv, TypeOK, BookTypeOK, QueueElem, Opp, Sides
<1>2. Geq(o, best[o], l)
  BY <1>1 DEF IInv, LimitWindows
<1>3. ~ Geq(s, PLevel(cur), best[o])
  BY DEF IInv, BestIsNotTradable, IsTradable
<1>4. PLevel(cur) \in Book
  BY PLevelInBook DEF IInv, ControlState
<1>5. PLevel(cur) \in Int /\ best[o] \in Int /\ l \in Int
  BY <1>1, <1>4, PointerFacts DEF IInv, TypeOK, BookTypeOK, Pointers, Levels
<1> QED
  BY <1>1, <1>2, <1>3, <1>5 DEF Geq, Opp, Sides

\* When _trade has returned, what is unfilled crosses no resting order: a
\* limit order rests uncrossed, a market order throws only on an empty side.
THEOREM TradesAll == Spec => []NothingLeftToTrade
BY NothingLeft, InductiveInvariant, PTL

\* Every order that the last price has reached has left the stop chains when
\* _look_for_triggered_stops is done.
THEOREM ReachedStopsTrigger == Spec => AllReachedStopsTrigger
<1>1. ASSUME IInv, [Next]_vars, need_check_for_stops, ~ need_check_for_stops',
             NEW l \in Levels, NEW s \in Sides, HasOrder(stops, l, s)
      PROVE  Gt(s, l, last)
  <2>1. EndSellScan
    BY <1>1
       DEF Next, Client, Window, vars, InsertOrder, PullOrder, ReplaceOrder,
           GrowBookAbove, GrowBookBelow, RouteLimit, RouteMarket, InsertStop,
           FillFront, FillPartOfFront, TradeHasOccured, EndTrade,
           ScanBuyStops, EndBuyScan, ScanSellStops, Scan, Filled, RestLimit,
           ThrowLiquidity, NextInternal, CloseWindow
  <2>2. pc = "scan_sell" /\ Gt("sell", scan, last)
    BY <2>1 DEF EndSellScan
  <2>3. /\ near["sell"] \in {scan, NullHigh("sell")}
        /\ HasOrder(stops, l, "buy") => l > last
    BY <1>1, <2>2 DEF IInv, ScanPosition
  <2>4. last \in Book /\ TypeOK
    BY <1>1, <2>2 DEF IInv, ControlState
  <2>5. CASE s = "buy"
    BY <1>1, <2>3, <2>5 DEF Gt
  <2>6. CASE s = "sell"
    <3>1. Geq("sell", l, near["sell"])
      BY <1>1, <2>6 DEF IInv, StopWindows
    <3>2. /\ near["sell"] \in Int /\ scan \in Int /\ last \in Int /\ l \in Int
          /\ beg \in Int
      BY <2>4, PointerFacts DEF TypeOK, BookTypeOK, Pointers, Levels, Sides
    <3> QED
      BY <2>2, <2>3, <2>4, <2>6, <3>1, <3>2 DEF Geq, Gt, NullHigh, Book
  <2> QED
    BY <2>5, <2>6 DEF Sides
<1>2. IInv /\ [Next]_vars =>
          [need_check_for_stops /\ ~ need_check_for_stops' =>
               \A l \in Levels, s \in Sides :
                   HasOrder(stops, l, s) => Gt(s, l, last)]_vars
  BY <1>1
<1> QED
  BY <1>2, InductiveInvariant, PTL DEF Spec, AllReachedStopsTrigger

\* Between windows nothing is left over from the last one.
THEOREM WindowsAreClean == Spec => []WindowIsClean
<1>1. IInv => WindowIsClean
  BY DEF IInv, ControlState, WindowIsClean
<1> QED
  BY <1>1, InductiveInvariant, PTL

\* The assertions of _assert_internal_pointers hold whenever it runs.
THEOREM PointersAssert == Spec => []AssertInternalPointers
<1>1. IInv => AssertInternalPointers
  <2> SUFFICES ASSUME IInv PROVE AssertInternalPointers
    OBVIOUS
  <2>1. TypeOK /\ LimitWindows /\ Uncrossed /\ StopWindows
    BY DEF IInv
  <2>2. ASSUME NEW s \in Sides
        PROVE  \/ best[s] = NullLow(s) /\ worst[s] = NullHigh(s)
               \/ Geq(s, best[s], worst[s])
    <3>1. best[s] \in Book => Geq(s, best[s], worst[s])
      BY <2>1, BestHasOrder DEF TypeOK
    <3> QED
      BY <2>1, <3>1 DEF LimitWindows
  <2>3. /\ best["buy"] \in Int /\ best["sell"] \in Int
        /\ worst["buy"] \in Int /\ worst["sell"] \in Int
        /\ best["buy"] < best["sell"]
    BY <2>1, PointerFacts DEF TypeOK, BookTypeOK, Pointers, Sides, Uncrossed
  <2>4. \A s \in Sides : near[s] # NullHigh(s) \/ far[s] # NullLow(s) =>
                             Geq(s, far[s], near[s])
    BY <2>1 DEF StopWindows
  <2> QED
    BY <2>2, <2>3, <2>4 DEF AssertInternalPointers, Geq, Sides
<1> QED
  BY <1>1, InductiveInvariant, PTL
=============================================================================
