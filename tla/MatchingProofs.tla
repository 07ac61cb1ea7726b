--------------------------- MODULE MatchingProofs ---------------------------
(***************************************************************************)
(* Proofs about matching, by price, then age, and about whole windows.     *)
(*                                                                         *)
(* The ids of the orders of Orderbook: each is cached with the one chain   *)
(* it is on, and ids tell age.  With them, the proof that Orderbook        *)
(* implements PriceTimeBook: chains, pointers and cache match by price,    *)
(* then age.                                                               *)
(*                                                                         *)
(* Then, that windows conserve size, and that they end.  What a chain or   *)
(* the book holds is a sum, defined by recursion, so the lemmas about sums *)
(* are proved by induction.                                                *)
(***************************************************************************)
EXTENDS OrderbookProofs, Induction

-----------------------------------------------------------------------------
(* The inductive invariant. *)

Ascending(c) == \A i, j \in 1 .. Len(c) : i < j => c[i].id < c[j].id

ChainsAscend == \A l \in Levels : Ascending(limits[l]) /\ Ascending(stops[l])

\* while an order is executed it is younger than all on the chains and older
\* than those in the queue, which came of stops that were triggered meanwhile
InHand ==
    pc \notin {"idle", "drain"} =>
        /\ cur.id <= last_id
        /\ \A id \in DOMAIN id_cache : id < cur.id
        /\ \A j \in 1 .. Len(internal_queue) : cur.id < internal_queue[j].id

QueueIsYounger ==
    /\ Ascending(internal_queue)
    /\ \A j \in 1 .. Len(internal_queue) : internal_queue[j].id <= last_id
    /\ \A id \in DOMAIN id_cache, j \in 1 .. Len(internal_queue) :
           id < internal_queue[j].id

IdsAreOld == \A id \in DOMAIN id_cache : id <= last_id

IdInv == CacheAgrees /\ ChainsAscend /\ IdsAreOld /\ QueueIsYounger /\ InHand

LEMMA InitIdInv == Init => IdInv
<1> SUFFICES ASSUME Init PROVE IdInv
  OBVIOUS
<1>1. /\ DOMAIN id_cache = {} /\ internal_queue = <<>> /\ pc = "idle"
      /\ \A l \in Levels : limits[l] = <<>> /\ stops[l] = <<>>
  BY DEF Init
<1>2. Len(<<>>) = 0 /\ 1 .. 0 = {}
  BY EmptySeq
<1>3. CacheAgrees /\ ChainsAscend
  BY <1>1, <1>2, Zenon DEF CacheAgrees, ChainsAscend, Ascending
<1>4. IdsAreOld /\ QueueIsYounger /\ InHand
  BY <1>1, <1>2 DEF IdsAreOld, QueueIsYounger, Ascending, InHand
<1> QED
  BY <1>3, <1>4 DEF IdInv

-----------------------------------------------------------------------------
(* Taking orders out. *)

\* c is b without the orders called ids
Without(b, c, ids) ==
    /\ \A i \in 1 .. Len(c) :
           c[i].id \notin ids /\ \E j \in 1 .. Len(b) : c[i] = b[j]
    /\ \A j \in 1 .. Len(b) :
           b[j].id \notin ids => \E i \in 1 .. Len(c) : c[i] = b[j]
    /\ Ascending(c)

\* Taking the element at k out of an ascending chain takes out its id.
LEMMA RemovedOne ==
    ASSUME NEW S, \A x \in S : x.id \in Nat,
           NEW b \in Seq(S), NEW k \in 1 .. Len(b), Ascending(b)
    PROVE  Without(b, RemoveAt(b, k), {b[k].id})
<1> DEFINE c == RemoveAt(b, k)
<1>1. /\ c \in Seq(S) /\ Len(c) = Len(b) - 1 /\ Len(b) \in Nat
      /\ \A j \in 1 .. Len(b) - 1 : c[j] = IF j < k THEN b[j] ELSE b[j + 1]
  BY RemoveAtType, LenProperties
<1>2. \A i \in 1 .. Len(b) : b[i].id \in Nat
  BY ElementOfSeq
<1> HIDE DEF c
<1>3. ASSUME NEW i \in 1 .. Len(c)
      PROVE  \E j \in 1 .. Len(b) : j # k /\ c[i] = b[j]
  <2>1. CASE i < k
    BY <1>1, <2>1
  <2>2. CASE ~ (i < k)
    <3>1. i + 1 \in 1 .. Len(b) /\ i + 1 # k /\ c[i] = b[i + 1]
      BY <1>1, <2>2
    <3> QED
      BY <3>1
  <2> QED
    BY <2>1, <2>2
<1>4. ASSUME NEW j \in 1 .. Len(b), j # k
      PROVE  b[j].id # b[k].id
  BY <1>2, <1>4 DEF Ascending
<1>5. ASSUME NEW j \in 1 .. Len(b), j # k
      PROVE  \E i \in 1 .. Len(c) : c[i] = b[j]
  <2>1. CASE j < k
    <3>1. j \in 1 .. Len(b) - 1 /\ c[j] = b[j]
      BY <1>1, <2>1
    <3> QED
      BY <1>1, <3>1
  <2>2. CASE j > k
    <3>1. /\ j - 1 \in 1 .. Len(b) - 1 /\ ~ (j - 1 < k) /\ (j - 1) + 1 = j
      BY <1>1, <2>2
    <3>2. c[j - 1] = b[j]
      BY <1>1, <3>1
    <3> QED
      BY <1>1, <3>1, <3>2
  <2> QED
    BY <1>5, <2>1, <2>2
<1>6. Ascending(c)
  <2> SUFFICES ASSUME NEW i \in 1 .. Len(c), NEW j \in 1 .. Len(c), i < j
               PROVE  c[i].id < c[j].id
    BY DEF Ascending
  <2>1. /\ c[i] = b[IF i < k THEN i ELSE i + 1]
        /\ c[j] = b[IF j < k THEN j ELSE j + 1]
    BY <1>1
  <2>2. /\ (IF i < k THEN i ELSE i + 1) \in 1 .. Len(b)
        /\ (IF j < k THEN j ELSE j + 1) \in 1 .. Len(b)
        /\ (IF i < k THEN i ELSE i + 1) < (IF j < k THEN j ELSE j + 1)
    BY <1>1
  <2> QED
    BY <2>1, <2>2, Zenon DEF Ascending
<1>7. Without(b, c, {b[k].id})
  BY <1>3, <1>4, <1>5, <1>6, Zenon DEF Without
<1> QED
  BY <1>7 DEF c

\* A chain that has none of the ids is the same without them.
LEMMA NoneToRemove ==
    ASSUME NEW b, NEW ids, Ascending(b), \A i \in 1 .. Len(b) : b[i].id \notin ids
    PROVE  Without(b, b, ids)
BY Zenon DEF Without

\* An order of one chain is on no other, and on none of the other type.
LEMMA OneChain ==
    ASSUME CacheAgrees
    PROVE  /\ \A l, m \in Levels :
                  \A i \in 1 .. Len(limits[l]), j \in 1 .. Len(limits[m]) :
                      limits[l][i].id = limits[m][j].id => l = m
           /\ \A l, m \in Levels :
                  \A i \in 1 .. Len(stops[l]), j \in 1 .. Len(stops[m]) :
                      stops[l][i].id = stops[m][j].id => l = m
           /\ \A l, m \in Levels :
                  \A i \in 1 .. Len(limits[l]), j \in 1 .. Len(stops[m]) :
                      limits[l][i].id # stops[m][j].id
<1>1. ASSUME NEW l \in Levels, NEW i \in 1 .. Len(limits[l])
      PROVE  /\ id_cache[limits[l][i].id].type = "limit"
             /\ id_cache[limits[l][i].id].p = l
  <2>1. id_cache[limits[l][i].id] = [type |-> "limit", p |-> l]
    BY Zenon DEF CacheAgrees
  <2> QED
    BY <2>1
<1>2. ASSUME NEW l \in Levels, NEW i \in 1 .. Len(stops[l])
      PROVE  /\ id_cache[stops[l][i].id].type = "stop"
             /\ id_cache[stops[l][i].id].p = l
  <2>1. id_cache[stops[l][i].id] = [type |-> "stop", p |-> l]
    BY Zenon DEF CacheAgrees
  <2> QED
    BY <2>1
<1>3. ASSUME NEW l \in Levels, NEW m \in Levels,
             NEW i \in 1 .. Len(limits[l]), NEW j \in 1 .. Len(limits[m]),
             limits[l][i].id = limits[m][j].id
      PROVE  l = m
  BY <1>1, <1>2, <1>3
<1>4. ASSUME NEW l \in Levels, NEW m \in Levels,
             NEW i \in 1 .. Len(stops[l]), NEW j \in 1 .. Len(stops[m]),
             stops[l][i].id = stops[m][j].id
      PROVE  l = m
  BY <1>1, <1>2, <1>4
<1>5. ASSUME NEW l \in Levels, NEW m \in Levels,
             NEW i \in 1 .. Len(limits[l]), NEW j \in 1 .. Len(stops[m]),
             limits[l][i].id = stops[m][j].id
      PROVE  FALSE
  BY <1>1, <1>2, <1>5
<1> QED
  BY <1>3, <1>4, <1>5, Zenon

\* the step takes the orders called ids out of the chains and the cache
TakesOut(ids) ==
    /\ \A l \in Levels : Without(limits[l], limits'[l], ids)
    /\ \A l \in Levels : Without(stops[l], stops'[l], ids)
    /\ Erase(ids)

\* What orders are taken out of the chains and the cache agree as before.
LEMMA TakingOut ==
    ASSUME TypeOK, CacheAgrees, NEW ids, TakesOut(ids)
    PROVE  /\ CacheAgrees' /\ ChainsAscend'
           /\ DOMAIN id_cache' = DOMAIN id_cache \ ids
<1>1. /\ DOMAIN id_cache' = DOMAIN id_cache \ ids
      /\ \A id \in DOMAIN id_cache \ ids : id_cache'[id] = id_cache[id]
  BY DEF TakesOut, Erase
<1>2. ChainsAscend'
  BY Zenon DEF TakesOut, Without, ChainsAscend
<1>3. ASSUME NEW l \in Levels, NEW i \in 1 .. Len(limits'[l])
      PROVE  /\ limits'[l][i].id \in DOMAIN id_cache'
             /\ id_cache'[limits'[l][i].id] = [type |-> "limit", p |-> l]
  <2>1. /\ limits'[l][i].id \notin ids
        /\ \E j \in 1 .. Len(limits[l]) : limits'[l][i] = limits[l][j]
    BY Zenon DEF TakesOut, Without
  <2>2. PICK j \in 1 .. Len(limits[l]) : limits'[l][i] = limits[l][j]
    BY <2>1
  <2>3. /\ limits[l][j].id \in DOMAIN id_cache
        /\ id_cache[limits[l][j].id] = [type |-> "limit", p |-> l]
    BY DEF CacheAgrees
  <2> QED
    BY <1>1, <2>1, <2>2, <2>3
<1>4. ASSUME NEW l \in Levels, NEW i \in 1 .. Len(stops'[l])
      PROVE  /\ stops'[l][i].id \in DOMAIN id_cache'
             /\ id_cache'[stops'[l][i].id] = [type |-> "stop", p |-> l]
  <2>1. /\ stops'[l][i].id \notin ids
        /\ \E j \in 1 .. Len(stops[l]) : stops'[l][i] = stops[l][j]
    BY Zenon DEF TakesOut, Without
  <2>2. PICK j \in 1 .. Len(stops[l]) : stops'[l][i] = stops[l][j]
    BY <2>1
  <2>3. /\ stops[l][j].id \in DOMAIN id_cache
        /\ id_cache[stops[l][j].id] = [type |-> "stop", p |-> l]
    BY DEF CacheAgrees
  <2> QED
    BY <1>1, <2>1, <2>2, <2>3
<1>5. ASSUME NEW id \in DOMAIN id_cache'
      PROVE  LET chains == IF id_cache'[id].type = "limit" THEN limits' ELSE stops'
                 chain == chains[id_cache'[id].p]
             IN  \E i \in 1 .. Len(chain) : chain[i].id = id
  <2>1. id \in DOMAIN id_cache /\ id \notin ids /\ id_cache'[id] = id_cache[id]
    BY <1>1
  <2>2. id_cache[id].p \in Levels
    BY <2>1 DEF TypeOK, BookTypeOK, CacheElem
  <2> DEFINE p == id_cache[id].p
  <2>3. CASE id_cache[id].type = "limit"
    <3>1. PICK j \in 1 .. Len(limits[p]) : limits[p][j].id = id
      BY <2>1, <2>3, Zenon DEF CacheAgrees
    <3>2. Without(limits[p], limits'[p], ids) /\ limits[p][j].id \notin ids
      BY <2>1, <2>2, <3>1, Zenon DEF TakesOut
    <3> HIDE DEF p
    <3>3. PICK i \in 1 .. Len(limits'[p]) : limits'[p][i] = limits[p][j]
      BY <3>2, Zenon DEF Without
    <3>4. \E k \in 1 .. Len(limits'[p]) : limits'[p][k].id = id
      BY <3>1, <3>3
    <3> QED
      BY <2>1, <2>3, <3>4 DEF p
  <2>4. CASE id_cache[id].type # "limit"
    <3>1. PICK j \in 1 .. Len(stops[p]) : stops[p][j].id = id
      BY <2>1, <2>4, Zenon DEF CacheAgrees
    <3>2. Without(stops[p], stops'[p], ids) /\ stops[p][j].id \notin ids
      BY <2>1, <2>2, <3>1, Zenon DEF TakesOut
    <3> HIDE DEF p
    <3>3. PICK i \in 1 .. Len(stops'[p]) : stops'[p][i] = stops[p][j]
      BY <3>2, Zenon DEF Without
    <3>4. \E k \in 1 .. Len(stops'[p]) : stops'[p][k].id = id
      BY <3>1, <3>3
    <3> QED
      BY <2>1, <2>4, <3>4 DEF p
  <2> QED
    BY <2>3, <2>4
<1>6. CacheAgrees'
  BY <1>3, <1>4, <1>5, Zenon DEF CacheAgrees
<1> QED
  BY <1>1, <1>2, <1>6

\* Taking a limit order off its chain and out of the cache takes out no other.
LEMMA LimitOut ==
    ASSUME TypeOK, CacheAgrees, ChainsAscend,
           NEW p \in Levels, NEW k \in 1 .. Len(limits[p]),
           limits' = [limits EXCEPT ![p] = RemoveAt(@, k)], stops' = stops,
           Erase({limits[p][k].id})
    PROVE  TakesOut({limits[p][k].id})
<1> DEFINE ids == {limits[p][k].id}
<1>1. /\ limits \in [Levels -> Seq(LimitBndl)] /\ limits[p] \in Seq(LimitBndl)
      /\ \A x \in LimitBndl : x.id \in Nat
  BY DEF TypeOK, BookTypeOK, LimitBndl
<1>2. limits'[p] = RemoveAt(limits[p], k) /\ \A l \in Levels \ {p} : limits'[l] = limits[l]
  BY <1>1
<1>3. Without(limits[p], limits'[p], ids)
  <2>1. Ascending(limits[p])
    BY DEF ChainsAscend
  <2> QED
    BY <1>1, <1>2, <2>1, RemovedOne
<1>4. ASSUME NEW l \in Levels, l # p
      PROVE  Without(limits[l], limits[l], ids)
  <2>1. \A i \in 1 .. Len(limits[l]) : limits[l][i].id \notin ids
    BY <1>4, OneChain, Zenon
  <2> QED
    BY <2>1, NoneToRemove DEF ChainsAscend
<1>5. ASSUME NEW l \in Levels
      PROVE  Without(stops[l], stops[l], ids)
  <2>1. \A i \in 1 .. Len(stops[l]) : stops[l][i].id \notin ids
    BY OneChain, Zenon
  <2> QED
    BY <2>1, NoneToRemove DEF ChainsAscend
<1> HIDE DEF ids
<1>6. TakesOut(ids)
  BY <1>2, <1>3, <1>4, <1>5, Zenon DEF TakesOut, ids
<1> QED
  BY <1>6 DEF ids

\* Taking a stop order off its chain and out of the cache takes out no other.
LEMMA StopOut ==
    ASSUME TypeOK, CacheAgrees, ChainsAscend,
           NEW p \in Levels, NEW k \in 1 .. Len(stops[p]),
           stops' = [stops EXCEPT ![p] = RemoveAt(@, k)], limits' = limits,
           Erase({stops[p][k].id})
    PROVE  TakesOut({stops[p][k].id})
<1> DEFINE ids == {stops[p][k].id}
<1>1. /\ stops \in [Levels -> Seq(StopBndl)] /\ stops[p] \in Seq(StopBndl)
      /\ \A x \in StopBndl : x.id \in Nat
  BY DEF TypeOK, BookTypeOK, StopBndl
<1>2. stops'[p] = RemoveAt(stops[p], k) /\ \A l \in Levels \ {p} : stops'[l] = stops[l]
  BY <1>1
<1>3. Without(stops[p], stops'[p], ids)
  <2>1. Ascending(stops[p])
    BY DEF ChainsAscend
  <2> QED
    BY <1>1, <1>2, <2>1, RemovedOne
<1>4. ASSUME NEW l \in Levels, l # p
      PROVE  Without(stops[l], stops[l], ids)
  <2>1. \A i \in 1 .. Len(stops[l]) : stops[l][i].id \notin ids
    BY <1>4, OneChain, Zenon
  <2> QED
    BY <2>1, NoneToRemove DEF ChainsAscend
<1>5. ASSUME NEW l \in Levels
      PROVE  Without(limits[l], limits[l], ids)
  <2>1. \A i \in 1 .. Len(limits[l]) : limits[l][i].id \notin ids
    BY OneChain, Zenon
  <2> QED
    BY <2>1, NoneToRemove DEF ChainsAscend
<1> HIDE DEF ids
<1>6. TakesOut(ids)
  BY <1>2, <1>3, <1>4, <1>5, Zenon DEF TakesOut, ids
<1> QED
  BY <1>6 DEF ids

\* _pull_order takes out the order it is asked to, and no other.
LEMMA PullTakesOut ==
    ASSUME TypeOK, CacheAgrees, ChainsAscend, NEW id, Pull(id)
    PROVE  TakesOut({id})
<1> DEFINE p == id_cache[id].p
<1>1. p \in Levels
  BY DEF Pull, TypeOK, BookTypeOK, CacheElem
<1>2. CASE PopLimit(id)
  <2>1. PICK i \in 1 .. Len(limits[p]) :
            /\ limits[p][i].id = id
            /\ limits' = [limits EXCEPT ![p] = RemoveAt(@, i)]
            /\ Erase({id}) /\ stops' = stops
    BY <1>2, Zenon DEF PopLimit
  <2> QED
    BY <1>1, <2>1, LimitOut
<1>3. CASE PopStop(id)
  <2>1. PICK i \in 1 .. Len(stops[p]) :
            /\ stops[p][i].id = id
            /\ stops' = [stops EXCEPT ![p] = RemoveAt(@, i)]
            /\ Erase({id}) /\ limits' = limits
    BY <1>3, Zenon DEF PopStop
  <2> QED
    BY <1>1, <2>1, StopOut
<1> QED
  BY <1>2, <1>3 DEF Pull

\* A filled order, the front of the best chain, leaves the book, and no other
\* does.
LEMMA FillTakesOut ==
    ASSUME IInv, CacheAgrees, ChainsAscend, FillFront
    PROVE  TakesOut({limits[best[Opp(cur.side)]][1].id})
<1> DEFINE p == best[Opp(cur.side)]
<1>1. /\ Erase({Head(limits[p]).id}) /\ limits' = [limits EXCEPT ![p] = Tail(@)]
      /\ stops' = stops
  BY Zenon DEF FillFront
<1>2. p \in Levels /\ limits[p] \in Seq(LimitBndl) /\ limits[p] # <<>>
  BY TradeHitsAChain DEF FillFront
<1> HIDE DEF p
<1>3. Tail(limits[p]) = RemoveAt(limits[p], 1)
  BY <1>2, TailIsRemoveAt
<1>4. Head(limits[p]) = limits[p][1] /\ 1 \in 1 .. Len(limits[p])
  BY <1>2, LenProperties, EmptySeq
<1>5. limits' = [limits EXCEPT ![p] = RemoveAt(@, 1)] /\ Erase({limits[p][1].id})
  BY <1>1, <1>3, <1>4, Zenon
<1>6. TakesOut({limits[p][1].id})
  BY <1>1, <1>2, <1>4, <1>5, LimitOut DEF IInv
<1> QED
  BY <1>6 DEF p

\* A chain of stops that is triggered leaves as a whole, and no other order.
LEMMA ScanTakesOut ==
    ASSUME IInv, CacheAgrees, ChainsAscend, NEW s \in Sides, NEW at,
           Scan(s, at), scan \in Levels
    PROVE  TakesOut({stops[scan][i].id : i \in 1 .. Len(stops[scan])})
<1> DEFINE ids == {stops[scan][i].id : i \in 1 .. Len(stops[scan])}
<1>1. /\ stops' = [stops EXCEPT ![scan] = <<>>] /\ limits' = limits /\ Erase(ids)
  BY DEF Scan, HandleTriggeredStopChain
<1>2. stops'[scan] = <<>> /\ \A l \in Levels \ {scan} : stops'[l] = stops[l]
  BY <1>1 DEF IInv, TypeOK, BookTypeOK
<1>3. Without(stops[scan], <<>>, ids)
  <2>1. Len(<<>>) = 0 /\ 1 .. 0 = {}
    BY EmptySeq
  <2> QED
    BY <2>1 DEF Without, Ascending
<1>4. ASSUME NEW l \in Levels, l # scan
      PROVE  Without(stops[l], stops[l], ids)
  <2>1. \A i \in 1 .. Len(stops[l]) : stops[l][i].id \notin ids
    BY <1>4, OneChain, Zenon
  <2> HIDE DEF ids
  <2> QED
    BY <2>1, NoneToRemove DEF ChainsAscend
<1>5. ASSUME NEW l \in Levels
      PROVE  Without(limits[l], limits[l], ids)
  <2>1. ASSUME NEW i \in 1 .. Len(limits[l]), limits[l][i].id \in ids
        PROVE  FALSE
    <3>1. PICK j \in 1 .. Len(stops[scan]) : limits[l][i].id = stops[scan][j].id
      BY <2>1
    <3> QED
      BY <3>1, OneChain, Zenon
  <2> HIDE DEF ids
  <2> QED
    BY <2>1, NoneToRemove DEF ChainsAscend
<1> HIDE DEF ids
<1>6. TakesOut(ids)
  BY <1>1, <1>2, <1>3, <1>4, <1>5, Zenon DEF TakesOut
<1> QED
  BY <1>6 DEF ids
\* Taking orders out of the book, between two windows or while cur trades,
\* leaves all ids in the order of their age.
LEMMA TakingOutKeepsAges ==
    ASSUME TypeOK, IdInv, NEW ids, TakesOut(ids),
           UNCHANGED <<internal_queue, last_id, pc>>, cur'.id = cur.id
    PROVE  IdInv'
<1>1. CacheAgrees' /\ ChainsAscend' /\ DOMAIN id_cache' = DOMAIN id_cache \ ids
  BY TakingOut DEF IdInv
<1>2. IdsAreOld' /\ QueueIsYounger' /\ InHand'
  BY <1>1 DEF IdInv, IdsAreOld, QueueIsYounger, InHand, Ascending
<1> QED
  BY <1>1, <1>2 DEF IdInv

\* What is used of a part of the front order changes its size and nothing else.
LEMMA PartOfFront ==
    ASSUME IInv, FillPartOfFront, NEW p, p = best[Opp(cur.side)]
    PROVE  /\ p \in Levels /\ limits[p] # <<>> /\ limits[p][1] \in LimitBndl
           /\ \A l \in Levels :
                  /\ Len(limits'[l]) = Len(limits[l])
                  /\ \A i \in 1 .. Len(limits[l]) : limits'[l][i] =
                         IF l = p /\ i = 1
                         THEN [limits[p][1] EXCEPT !.sz = @ - cur.sz]
                         ELSE limits[l][i]
<1>1. limits' = [limits EXCEPT ![p][1].sz = @ - cur.sz]
  BY DEF FillPartOfFront
<1>2. /\ p \in Levels /\ limits[p] \in Seq(LimitBndl) /\ limits[p] # <<>>
      /\ limits \in [Levels -> Seq(LimitBndl)]
  BY TradeHitsAChain DEF FillPartOfFront, IInv, TypeOK, BookTypeOK
<1>3. Len(limits[p]) \in Nat /\ limits[p] \in [1 .. Len(limits[p]) -> LimitBndl]
  BY <1>2, LenProperties
<1>4. limits[p][1] \in LimitBndl
  <2>1. 1 \in 1 .. Len(limits[p])
    BY <1>2, <1>3, EmptySeq, LenProperties
  <2> QED
    BY <1>3, <2>1
<1>5. limits'[p] = [limits[p] EXCEPT ![1] = [limits[p][1] EXCEPT !.sz = @ - cur.sz]]
  BY <1>1, <1>2
<1>6. /\ DOMAIN limits'[p] = 1 .. Len(limits[p])
      /\ \A i \in 1 .. Len(limits[p]) :
             limits'[p][i] = IF i = 1 THEN [limits[p][1] EXCEPT !.sz = @ - cur.sz]
                             ELSE limits[p][i]
  BY <1>3, <1>5, Zenon
<1>7. limits'[p] \in Seq(LimitBndl)
  BY <1>2, TypeStep DEF TypeOK, BookTypeOK, Next, Window
<1>8. Len(limits'[p]) = Len(limits[p])
  BY <1>3, <1>6, <1>7, LenProperties
<1>9. \A l \in Levels \ {p} : limits'[l] = limits[l]
  BY <1>1, <1>2
<1>10. ASSUME NEW l \in Levels
       PROVE  /\ Len(limits'[l]) = Len(limits[l])
              /\ \A i \in 1 .. Len(limits[l]) : limits'[l][i] =
                     IF l = p /\ i = 1
                     THEN [limits[p][1] EXCEPT !.sz = @ - cur.sz]
                     ELSE limits[l][i]
  <2>1. CASE l = p
    BY <1>6, <1>8, <2>1, Zenon
  <2>2. CASE l # p
    BY <1>9, <2>2, Zenon
  <2> QED
    BY <2>1, <2>2
<1> QED
  BY <1>2, <1>4, <1>10

\* What is used of a part of the front order changes neither ids nor places.
LEMMA PartOfFrontKeepsIds ==
    ASSUME IInv, IdInv, FillPartOfFront
    PROVE  IdInv'
<1> DEFINE p == best[Opp(cur.side)]
<1>1. /\ UNCHANGED <<stops, id_cache, last_id, internal_queue, pc>>
      /\ cur' = [cur EXCEPT !.sz = @ - cur.sz]
  BY DEF FillPartOfFront, TradeHasOccured
<1>2. cur \in QueueElem
  BY DEF IInv, TypeOK, BookTypeOK
<1> HIDE DEF p
<1>3. ASSUME NEW l \in Levels
      PROVE  /\ Len(limits'[l]) = Len(limits[l])
             /\ \A i \in 1 .. Len(limits[l]) : limits'[l][i].id = limits[l][i].id
  <2>1. /\ limits[p][1] \in LimitBndl /\ Len(limits'[l]) = Len(limits[l])
        /\ \A i \in 1 .. Len(limits[l]) : limits'[l][i] =
               IF l = p /\ i = 1 THEN [limits[p][1] EXCEPT !.sz = @ - cur.sz]
               ELSE limits[l][i]
    BY PartOfFront DEF p
  <2>2. [limits[p][1] EXCEPT !.sz = @ - cur.sz].id = limits[p][1].id
    BY <2>1 DEF LimitBndl
  <2> QED
    BY <2>1, <2>2, Zenon
<1>4. cur'.id = cur.id
  BY <1>1, <1>2 DEF QueueElem
<1>5. ChainsAscend'
  BY <1>1, <1>3 DEF IdInv, ChainsAscend, Ascending
<1>6. CacheAgrees'
  <2> DEFINE Where(cache, id, chs) ==
               LET chains == IF cache[id].type = "limit" THEN chs ELSE stops
                   chain == chains[cache[id].p]
               IN  \E i \in 1 .. Len(chain) : chain[i].id = id
  <2>1. ASSUME NEW l \in Levels, NEW i \in 1 .. Len(limits'[l])
        PROVE  /\ limits'[l][i].id \in DOMAIN id_cache
               /\ id_cache[limits'[l][i].id] = [type |-> "limit", p |-> l]
    <3>1. i \in 1 .. Len(limits[l]) /\ limits'[l][i].id = limits[l][i].id
      BY <1>3
    <3>2. /\ limits[l][i].id \in DOMAIN id_cache
          /\ id_cache[limits[l][i].id] = [type |-> "limit", p |-> l]
      BY <3>1, Zenon DEF IdInv, CacheAgrees
    <3> QED
      BY <3>1, <3>2, Zenon
  <2>2. ASSUME NEW id \in DOMAIN id_cache
        PROVE  Where(id_cache, id, limits')
    <3>1. CASE id_cache[id].type = "limit"
      <4>1. \E i \in 1 .. Len(limits[id_cache[id].p]) :
                limits[id_cache[id].p][i].id = id
        BY <3>1, Zenon DEF IdInv, CacheAgrees
      <4>2. id_cache[id].p \in Levels
        BY DEF IInv, TypeOK, BookTypeOK, CacheElem
      <4> QED
        BY <1>3, <3>1, <4>1, <4>2
    <3>2. CASE id_cache[id].type # "limit"
      BY <3>2, Zenon DEF IdInv, CacheAgrees
    <3> QED
      BY <3>1, <3>2
  <2>3. \A l \in Levels : \A i \in 1 .. Len(stops[l]) :
           /\ stops[l][i].id \in DOMAIN id_cache
           /\ id_cache[stops[l][i].id] = [type |-> "stop", p |-> l]
    BY Zenon DEF IdInv, CacheAgrees
  <2> QED
    BY <1>1, <2>1, <2>2, <2>3 DEF CacheAgrees
<1>7. IdsAreOld' /\ QueueIsYounger' /\ InHand'
  BY <1>1, <1>4 DEF IdInv, IdsAreOld, QueueIsYounger, InHand, Ascending
<1> QED
  BY <1>5, <1>6, <1>7 DEF IdInv
\* A limit order that rests is the youngest of its chain, and cached with it.
LEMMA RestKeepsIds ==
    ASSUME IInv, IdInv, RestLimit
    PROVE  IdInv'
<1> DEFINE p == cur.limit
           bndl == [id |-> cur.id, sz |-> cur.sz, side |-> cur.side]
<1>1. /\ limits' = [limits EXCEPT ![p] = Append(@, bndl)]
      /\ Emplace(cur.id, [type |-> "limit", p |-> p])
      /\ pc' = "drain" /\ UNCHANGED <<stops, internal_queue, last_id>>
      /\ pc \notin {"idle", "drain"}
  BY DEF RestLimit, ChainEmplace
<1>2. /\ p \in Levels /\ cur.id \in Nat /\ bndl \in LimitBndl /\ bndl.id = cur.id
      /\ limits \in [Levels -> Seq(LimitBndl)] /\ limits[p] \in Seq(LimitBndl)
      /\ \A i \in DOMAIN id_cache : id_cache[i] \in CacheElem
  <2>1. /\ cur \in QueueElem /\ cur.id \in Nat /\ cur.sz \in Nat
        /\ cur.side \in Sides /\ cur.limit \in 0 .. MaxLevel
    BY DEF IInv, TypeOK, BookTypeOK, QueueElem
  <2>2. cur.sz > 0 /\ cur.limit \in Levels
    BY PointerFacts DEF IInv, TypeOK, RestLimit, PricesInBook, ControlState
  <2>3. bndl \in LimitBndl /\ bndl.id = cur.id
    BY <2>1, <2>2 DEF LimitBndl
  <2>4. /\ limits \in [Levels -> Seq(LimitBndl)]
        /\ \A i \in DOMAIN id_cache : id_cache[i] \in CacheElem
    BY DEF IInv, TypeOK, BookTypeOK
  <2> HIDE DEF bndl
  <2> QED
    BY <2>1, <2>2, <2>3, <2>4
<1>3. /\ cur.id <= last_id
      /\ \A id \in DOMAIN id_cache : id < cur.id
      /\ \A j \in 1 .. Len(internal_queue) : cur.id < internal_queue[j].id
  BY <1>1 DEF IdInv, InHand
<1>4. cur.id \notin DOMAIN id_cache
  BY <1>2, <1>3
<1>5. /\ DOMAIN id_cache' = DOMAIN id_cache \cup {cur.id}
      /\ id_cache'[cur.id] = [type |-> "limit", p |-> p]
      /\ \A id \in DOMAIN id_cache : id_cache'[id] = id_cache[id]
  BY <1>1, <1>4 DEF Emplace
<1> HIDE DEF bndl, p
<1>6. /\ Len(limits[p]) \in Nat
      /\ Len(limits'[p]) = Len(limits[p]) + 1
      /\ limits'[p][Len(limits[p]) + 1] = bndl
      /\ \A i \in 1 .. Len(limits[p]) : limits'[p][i] = limits[p][i]
  <2>1. limits'[p] = Append(limits[p], bndl)
    BY <1>1, <1>2
  <2> QED
    BY <1>2, <2>1, AppendProperties, LenProperties
<1>7. \A l \in Levels \ {p} : limits'[l] = limits[l]
  BY <1>1, <1>2
<1>8. ASSUME NEW l \in Levels, NEW i \in 1 .. Len(limits'[l])
      PROVE  \/ i \in 1 .. Len(limits[l]) /\ limits'[l][i] = limits[l][i]
             \/ l = p /\ i = Len(limits[p]) + 1 /\ limits'[l][i].id = cur.id
  BY <1>2, <1>6, <1>7
<1>9. ASSUME NEW l \in Levels, NEW i \in 1 .. Len(limits[l])
      PROVE  i \in 1 .. Len(limits'[l]) /\ limits'[l][i] = limits[l][i]
  BY <1>6, <1>7
<1>10. ASSUME NEW l \in Levels, NEW i \in 1 .. Len(limits[l])
       PROVE  /\ limits[l][i].id \in DOMAIN id_cache
              /\ id_cache[limits[l][i].id] = [type |-> "limit", p |-> l]
              /\ limits[l][i].id < cur.id
  <2>1. /\ limits[l][i].id \in DOMAIN id_cache
        /\ id_cache[limits[l][i].id] = [type |-> "limit", p |-> l]
    BY Zenon DEF IdInv, CacheAgrees
  <2> QED
    BY <1>3, <2>1
<1>11. ASSUME NEW l \in Levels, NEW i \in 1 .. Len(limits'[l])
       PROVE  /\ limits'[l][i].id \in DOMAIN id_cache'
              /\ id_cache'[limits'[l][i].id] = [type |-> "limit", p |-> l]
  <2>1. CASE i \in 1 .. Len(limits[l]) /\ limits'[l][i] = limits[l][i]
    <3>1. /\ limits'[l][i].id \in DOMAIN id_cache
          /\ id_cache[limits'[l][i].id] = [type |-> "limit", p |-> l]
      BY <1>10, <2>1, Zenon
    <3> QED
      BY <1>5, <3>1
  <2>2. CASE l = p /\ limits'[l][i].id = cur.id
    BY <1>5, <2>2, Zenon
  <2> QED
    BY <1>8, <2>1, <2>2
<1>12. ASSUME NEW l \in Levels, NEW i \in 1 .. Len(stops[l])
       PROVE  /\ stops[l][i].id \in DOMAIN id_cache'
              /\ id_cache'[stops[l][i].id] = [type |-> "stop", p |-> l]
  <2>1. /\ stops[l][i].id \in DOMAIN id_cache
        /\ id_cache[stops[l][i].id] = [type |-> "stop", p |-> l]
    BY Zenon DEF IdInv, CacheAgrees
  <2> QED
    BY <1>5, <2>1
<1>13. ASSUME NEW id \in DOMAIN id_cache'
       PROVE  LET chains == IF id_cache'[id].type = "limit" THEN limits' ELSE stops'
                  chain == chains[id_cache'[id].p]
              IN  \E i \in 1 .. Len(chain) : chain[i].id = id
  <2>1. CASE id = cur.id
    <3>1. /\ id_cache'[id].type = "limit" /\ id_cache'[id].p = p
          /\ Len(limits[p]) + 1 \in 1 .. Len(limits'[p])
          /\ limits'[p][Len(limits[p]) + 1].id = id
      BY <1>2, <1>5, <1>6, <2>1
    <3> QED
      BY <3>1
  <2>2. CASE id \in DOMAIN id_cache
    <3> DEFINE q == id_cache[id].p
    <3>1. id_cache'[id] = id_cache[id] /\ q \in Levels
      BY <1>2, <1>5, <2>2 DEF CacheElem
    <3>2. CASE id_cache[id].type = "limit"
      <4>1. PICK j \in 1 .. Len(limits[q]) : limits[q][j].id = id
        BY <2>2, <3>2, Zenon DEF IdInv, CacheAgrees
      <4>2. j \in 1 .. Len(limits'[q]) /\ limits'[q][j].id = id
        BY <1>9, <3>1, <4>1
      <4> QED
        BY <3>1, <3>2, <4>2
    <3>3. CASE id_cache[id].type # "limit"
      <4>1. id_cache[id].type = "stop"
        BY <1>2, <2>2, <3>3 DEF CacheElem
      <4>2. PICK j \in 1 .. Len(stops[q]) : stops[q][j].id = id
        BY <2>2, <4>1, Zenon DEF IdInv, CacheAgrees
      <4> QED
        BY <1>1, <3>1, <4>1, <4>2
    <3> QED
      BY <3>2, <3>3
  <2> QED
    BY <1>5, <2>1, <2>2
<1>14. CacheAgrees'
  BY <1>1, <1>11, <1>12, <1>13 DEF CacheAgrees
<1>15. ASSUME NEW l \in Levels
       PROVE  Ascending(limits'[l])
  <2> SUFFICES ASSUME NEW i \in 1 .. Len(limits'[l]), NEW j \in 1 .. Len(limits'[l]),
                      i < j
               PROVE  limits'[l][i].id < limits'[l][j].id
    BY DEF Ascending
  <2>1. i \in 1 .. Len(limits[l]) /\ limits'[l][i] = limits[l][i]
    BY <1>6, <1>8
  <2>2. CASE j \in 1 .. Len(limits[l]) /\ limits'[l][j] = limits[l][j]
    BY <2>1, <2>2 DEF IdInv, ChainsAscend, Ascending
  <2>3. CASE limits'[l][j].id = cur.id
    BY <1>10, <2>1, <2>3
  <2> QED
    BY <1>8, <2>2, <2>3
<1>16. ChainsAscend'
  BY <1>1, <1>15 DEF IdInv, ChainsAscend
<1>17. IdsAreOld' /\ QueueIsYounger' /\ InHand'
  BY <1>1, <1>3, <1>5 DEF IdInv, IdsAreOld, QueueIsYounger, InHand, Ascending
<1> QED
  BY <1>14, <1>16, <1>17 DEF IdInv

\* A stop order that is inserted is the youngest of its chain, and cached with it.
LEMMA StopKeepsIds ==
    ASSUME IInv, IdInv, InsertStop
    PROVE  IdInv'
<1> DEFINE p == cur.stop
           bndl == [id |-> cur.id, sz |-> cur.sz, side |-> cur.side,
                    limit |-> cur.limit]
<1>1. /\ stops' = [stops EXCEPT ![p] = Append(@, bndl)]
      /\ Emplace(cur.id, [type |-> "stop", p |-> p])
      /\ pc' = "drain" /\ UNCHANGED <<limits, internal_queue, last_id>>
      /\ pc \notin {"idle", "drain"}
  BY DEF InsertStop, ChainEmplace
<1>2. /\ p \in Levels /\ cur.id \in Nat /\ bndl \in StopBndl /\ bndl.id = cur.id
      /\ stops \in [Levels -> Seq(StopBndl)] /\ stops[p] \in Seq(StopBndl)
      /\ \A i \in DOMAIN id_cache : id_cache[i] \in CacheElem
  <2>1. /\ cur \in QueueElem /\ cur.id \in Nat /\ cur.sz \in Nat
        /\ cur.side \in Sides /\ cur.limit \in 0 .. MaxLevel
    BY DEF IInv, TypeOK, BookTypeOK, QueueElem
  <2>2. cur.sz > 0 /\ cur.stop \in Levels
    BY PointerFacts DEF IInv, TypeOK, InsertStop, PricesInBook, ControlState
  <2>3. bndl \in StopBndl /\ bndl.id = cur.id
    BY <2>1, <2>2 DEF StopBndl
  <2>4. /\ stops \in [Levels -> Seq(StopBndl)]
        /\ \A i \in DOMAIN id_cache : id_cache[i] \in CacheElem
    BY DEF IInv, TypeOK, BookTypeOK
  <2> HIDE DEF bndl
  <2> QED
    BY <2>1, <2>2, <2>3, <2>4
<1>3. /\ cur.id <= last_id
      /\ \A id \in DOMAIN id_cache : id < cur.id
      /\ \A j \in 1 .. Len(internal_queue) : cur.id < internal_queue[j].id
  BY <1>1 DEF IdInv, InHand
<1>4. cur.id \notin DOMAIN id_cache
  BY <1>2, <1>3
<1>5. /\ DOMAIN id_cache' = DOMAIN id_cache \cup {cur.id}
      /\ id_cache'[cur.id] = [type |-> "stop", p |-> p]
      /\ \A id \in DOMAIN id_cache : id_cache'[id] = id_cache[id]
  BY <1>1, <1>4 DEF Emplace
<1> HIDE DEF bndl, p
<1>6. /\ Len(stops[p]) \in Nat
      /\ Len(stops'[p]) = Len(stops[p]) + 1
      /\ stops'[p][Len(stops[p]) + 1] = bndl
      /\ \A i \in 1 .. Len(stops[p]) : stops'[p][i] = stops[p][i]
  <2>1. stops'[p] = Append(stops[p], bndl)
    BY <1>1, <1>2
  <2> QED
    BY <1>2, <2>1, AppendProperties, LenProperties
<1>7. \A l \in Levels \ {p} : stops'[l] = stops[l]
  BY <1>1, <1>2
<1>8. ASSUME NEW l \in Levels, NEW i \in 1 .. Len(stops'[l])
      PROVE  \/ i \in 1 .. Len(stops[l]) /\ stops'[l][i] = stops[l][i]
             \/ l = p /\ i = Len(stops[p]) + 1 /\ stops'[l][i].id = cur.id
  BY <1>2, <1>6, <1>7
<1>9. ASSUME NEW l \in Levels, NEW i \in 1 .. Len(stops[l])
      PROVE  i \in 1 .. Len(stops'[l]) /\ stops'[l][i] = stops[l][i]
  BY <1>6, <1>7
<1>10. ASSUME NEW l \in Levels, NEW i \in 1 .. Len(stops[l])
       PROVE  /\ stops[l][i].id \in DOMAIN id_cache
              /\ id_cache[stops[l][i].id] = [type |-> "stop", p |-> l]
              /\ stops[l][i].id < cur.id
  <2>1. /\ stops[l][i].id \in DOMAIN id_cache
        /\ id_cache[stops[l][i].id] = [type |-> "stop", p |-> l]
    BY Zenon DEF IdInv, CacheAgrees
  <2> QED
    BY <1>3, <2>1
<1>11. ASSUME NEW l \in Levels, NEW i \in 1 .. Len(stops'[l])
       PROVE  /\ stops'[l][i].id \in DOMAIN id_cache'
              /\ id_cache'[stops'[l][i].id] = [type |-> "stop", p |-> l]
  <2>1. CASE i \in 1 .. Len(stops[l]) /\ stops'[l][i] = stops[l][i]
    <3>1. /\ stops'[l][i].id \in DOMAIN id_cache
          /\ id_cache[stops'[l][i].id] = [type |-> "stop", p |-> l]
      BY <1>10, <2>1, Zenon
    <3> QED
      BY <1>5, <3>1
  <2>2. CASE l = p /\ stops'[l][i].id = cur.id
    BY <1>5, <2>2, Zenon
  <2> QED
    BY <1>8, <2>1, <2>2
<1>12. ASSUME NEW l \in Levels, NEW i \in 1 .. Len(limits[l])
       PROVE  /\ limits[l][i].id \in DOMAIN id_cache'
              /\ id_cache'[limits[l][i].id] = [type |-> "limit", p |-> l]
  <2>1. /\ limits[l][i].id \in DOMAIN id_cache
        /\ id_cache[limits[l][i].id] = [type |-> "limit", p |-> l]
    BY Zenon DEF IdInv, CacheAgrees
  <2> QED
    BY <1>5, <2>1
<1>13. ASSUME NEW id \in DOMAIN id_cache'
       PROVE  LET chains == IF id_cache'[id].type = "limit" THEN limits' ELSE stops'
                  chain == chains[id_cache'[id].p]
              IN  \E i \in 1 .. Len(chain) : chain[i].id = id
  <2>1. CASE id = cur.id
    <3>1. /\ id_cache'[id].type = "stop" /\ id_cache'[id].p = p
          /\ Len(stops[p]) + 1 \in 1 .. Len(stops'[p])
          /\ stops'[p][Len(stops[p]) + 1].id = id
      BY <1>2, <1>5, <1>6, <2>1
    <3> QED
      BY <3>1
  <2>2. CASE id \in DOMAIN id_cache
    <3> DEFINE q == id_cache[id].p
    <3>1. id_cache'[id] = id_cache[id] /\ q \in Levels
      BY <1>2, <1>5, <2>2 DEF CacheElem
    <3>2. CASE id_cache[id].type = "stop"
      <4>1. PICK j \in 1 .. Len(stops[q]) : stops[q][j].id = id
        BY <2>2, <3>2, Zenon DEF IdInv, CacheAgrees
      <4>2. j \in 1 .. Len(stops'[q]) /\ stops'[q][j].id = id
        BY <1>9, <3>1, <4>1
      <4> QED
        BY <3>1, <3>2, <4>2
    <3>3. CASE id_cache[id].type # "stop"
      <4>1. id_cache[id].type = "limit"
        BY <1>2, <2>2, <3>3 DEF CacheElem
      <4>2. PICK j \in 1 .. Len(limits[q]) : limits[q][j].id = id
        BY <2>2, <4>1, Zenon DEF IdInv, CacheAgrees
      <4> QED
        BY <1>1, <3>1, <4>1, <4>2
    <3> QED
      BY <3>2, <3>3
  <2> QED
    BY <1>5, <2>1, <2>2
<1>14. CacheAgrees'
  BY <1>1, <1>11, <1>12, <1>13 DEF CacheAgrees
<1>15. ASSUME NEW l \in Levels
       PROVE  Ascending(stops'[l])
  <2> SUFFICES ASSUME NEW i \in 1 .. Len(stops'[l]), NEW j \in 1 .. Len(stops'[l]),
                      i < j
               PROVE  stops'[l][i].id < stops'[l][j].id
    BY DEF Ascending
  <2>1. i \in 1 .. Len(stops[l]) /\ stops'[l][i] = stops[l][i]
    BY <1>6, <1>8
  <2>2. CASE j \in 1 .. Len(stops[l]) /\ stops'[l][j] = stops[l][j]
    BY <2>1, <2>2 DEF IdInv, ChainsAscend, Ascending
  <2>3. CASE stops'[l][j].id = cur.id
    BY <1>10, <2>1, <2>3
  <2> QED
    BY <1>8, <2>2, <2>3
<1>16. ChainsAscend'
  BY <1>1, <1>15 DEF IdInv, ChainsAscend
<1>17. IdsAreOld' /\ QueueIsYounger' /\ InHand'
  BY <1>1, <1>3, <1>5 DEF IdInv, IdsAreOld, QueueIsYounger, InHand, Ascending
<1> QED
  BY <1>14, <1>16, <1>17 DEF IdInv
\* A chain of stops that is triggered leaves the cache, and its orders wait in
\* the queue under ids that are newer than all there were.
LEMMA ScanKeepsIds ==
    ASSUME IInv, IdInv, NEW s \in Sides, NEW at, Scan(s, at), scan \in Levels
    PROVE  IdInv'
<1> DEFINE chain == stops[scan]
           n == Len(chain)
           m == Len(internal_queue)
           new == [i \in 1 .. n |-> TriggeredOrder(chain[i], last_id + i)]
<1>1. /\ internal_queue' = internal_queue \o new /\ last_id' = last_id + n
      /\ cur' = cur /\ pc' = pc
  BY Zenon DEF Scan, HandleTriggeredStopChain
<1>2. TakesOut({chain[i].id : i \in 1 .. n})
  BY ScanTakesOut DEF IdInv
<1>3. /\ CacheAgrees' /\ ChainsAscend' /\ DOMAIN id_cache' \subseteq DOMAIN id_cache
  BY <1>2, TakingOut DEF IInv, IdInv
<1>4. /\ n \in Nat /\ m \in Nat /\ last_id \in Nat
      /\ internal_queue \in Seq(QueueElem) /\ cur.id \in Nat
      /\ DOMAIN id_cache \subseteq Nat
  BY LenProperties DEF IInv, TypeOK, BookTypeOK, QueueElem
<1>5. new \in Seq(QueueElem) /\ Len(new) = n
  <2>1. ASSUME NEW i \in 1 .. n
        PROVE  TriggeredOrder(chain[i], last_id + i) \in QueueElem
    <3>1. chain[i] \in StopBndl
      <4>1. chain \in Seq(StopBndl)
        BY DEF IInv, TypeOK, BookTypeOK
      <4> QED
        BY <4>1, ElementOfSeq
    <3>2. last_id + i \in Nat /\ 0 \in 0 .. MaxLevel
      BY <1>4, BookAssumption
    <3> HIDE DEF chain
    <3> QED
      BY <3>1, <3>2 DEF StopBndl, TriggeredOrder, QueueElem
  <2>2. new \in [1 .. n -> QueueElem]
    BY <2>1
  <2> HIDE DEF new, n
  <2> QED
    BY <1>4, <2>2, SeqDef, LenProperties
<1>6. \A i \in 1 .. n : new[i].id = last_id + i
  BY DEF TriggeredOrder
<1> HIDE DEF chain, n, m, new
<1>7. /\ Len(internal_queue') = m + n
      /\ \A i \in 1 .. m : internal_queue'[i] = internal_queue[i]
      /\ \A i \in 1 .. n : internal_queue'[m + i].id = last_id + i
  <2>1. /\ Len(internal_queue \o new) = m + n
        /\ \A i \in 1 .. m + n : (internal_queue \o new)[i] =
               IF i <= m THEN internal_queue[i] ELSE new[i - m]
    BY <1>4, <1>5, ConcatProperties, Zenon DEF m
  <2>2. \A i \in 1 .. m : internal_queue'[i] = internal_queue[i]
    BY <1>1, <1>4, <2>1
  <2>3. ASSUME NEW i \in 1 .. n
        PROVE  internal_queue'[m + i].id = last_id + i
    <3>1. m + i \in 1 .. m + n /\ ~ (m + i <= m) /\ (m + i) - m = i
      BY <1>4
    <3>2. internal_queue'[m + i] = new[i]
      BY <1>1, <2>1, <3>1
    <3> QED
      BY <1>6, <3>2
  <2> QED
    BY <1>1, <2>1, <2>2, <2>3
<1>8. ASSUME NEW j \in 1 .. Len(internal_queue')
      PROVE  \/ j \in 1 .. m /\ internal_queue'[j].id = internal_queue[j].id
             \/ j > m /\ internal_queue'[j].id = last_id + (j - m)
  <2>1. CASE j <= m
    BY <1>4, <1>7, <2>1
  <2>2. CASE j > m
    <3>1. j - m \in 1 .. n /\ m + (j - m) = j
      BY <1>4, <1>7, <2>2
    <3> QED
      BY <1>7, <2>2, <3>1
  <2> QED
    BY <1>4, <1>7, <2>1, <2>2
<1>9. \A j \in 1 .. m : internal_queue[j].id \in Nat /\ internal_queue[j].id <= last_id
  <2>1. ASSUME NEW j \in 1 .. m
        PROVE  internal_queue[j].id \in Nat
    <3>1. internal_queue[j] \in QueueElem
      BY <1>4, ElementOfSeq DEF m
    <3> QED
      BY <3>1 DEF QueueElem
  <2> QED
    BY <2>1 DEF IdInv, QueueIsYounger, m
<1>10. Ascending(internal_queue')
  <2> SUFFICES ASSUME NEW i \in 1 .. Len(internal_queue'),
                      NEW j \in 1 .. Len(internal_queue'), i < j
               PROVE  internal_queue'[i].id < internal_queue'[j].id
    BY DEF Ascending
  <2>1. CASE i \in 1 .. m /\ j \in 1 .. m
    BY <1>4, <1>7, <2>1 DEF IdInv, QueueIsYounger, Ascending, m
  <2>2. CASE i \in 1 .. m /\ j > m
    <3>1. internal_queue'[i].id <= last_id /\ internal_queue'[i].id \in Nat
      BY <1>7, <1>9, <2>2
    <3>2. internal_queue'[j].id = last_id + (j - m)
      BY <1>4, <1>8, <2>2
    <3> QED
      BY <1>4, <2>2, <3>1, <3>2
  <2>3. CASE i > m
    <3>1. /\ internal_queue'[i].id = last_id + (i - m)
          /\ internal_queue'[j].id = last_id + (j - m)
      BY <1>4, <1>8, <2>3
    <3> QED
      BY <1>4, <3>1
  <2> QED
    BY <1>4, <1>7, <2>1, <2>2, <2>3
<1>11. ASSUME NEW j \in 1 .. Len(internal_queue')
       PROVE  /\ internal_queue'[j].id <= last_id + n
              /\ \A id \in DOMAIN id_cache : id < internal_queue'[j].id
              /\ pc \notin {"idle", "drain"} => cur.id < internal_queue'[j].id
  <2>1. CASE j \in 1 .. m /\ internal_queue'[j].id = internal_queue[j].id
    BY <1>4, <1>9, <2>1 DEF IdInv, QueueIsYounger, InHand, m
  <2>2. CASE j > m /\ internal_queue'[j].id = last_id + (j - m)
    BY <1>4, <1>7, <2>2 DEF IdInv, IdsAreOld, InHand
  <2> QED
    BY <1>8, <2>1, <2>2
<1>12. QueueIsYounger'
  BY <1>1, <1>3, <1>10, <1>11 DEF QueueIsYounger
<1>13. IdsAreOld'
  BY <1>1, <1>3, <1>4 DEF IdInv, IdsAreOld
<1>14. InHand'
  BY <1>1, <1>3, <1>4, <1>11 DEF IdInv, InHand
<1> QED
  BY <1>3, <1>12, <1>13, <1>14 DEF IdInv

\* The next order of the queue is the oldest there.
LEMMA NextKeepsIds ==
    ASSUME IInv, IdInv, NextInternal
    PROVE  IdInv'
<1> DEFINE q == internal_queue
<1>1. /\ q # <<>> /\ cur' = Head(q) /\ internal_queue' = Tail(q)
      /\ UNCHANGED <<limits, stops, id_cache, last_id>>
  BY DEF NextInternal, book
<1>2. q \in Seq(QueueElem) /\ Len(q) \in Nat /\ 1 \in 1 .. Len(q)
  BY <1>1, LenProperties, EmptySeq DEF IInv, TypeOK, BookTypeOK
<1>3. /\ Len(Tail(q)) = Len(q) - 1 /\ Head(q) = q[1]
      /\ \A i \in 1 .. Len(Tail(q)) : Tail(q)[i] = q[i + 1]
  BY <1>1, <1>2, HeadTailProperties
<1>4. ASSUME NEW i \in 1 .. Len(internal_queue')
      PROVE  i + 1 \in 1 .. Len(q) /\ internal_queue'[i] = q[i + 1]
  BY <1>1, <1>2, <1>3
<1>5. /\ Ascending(q)
      /\ \A j \in 1 .. Len(q) : q[j].id <= last_id
      /\ \A id \in DOMAIN id_cache, j \in 1 .. Len(q) : id < q[j].id
  BY DEF IdInv, QueueIsYounger
<1> HIDE DEF q
<1>6. Ascending(internal_queue')
  <2> SUFFICES ASSUME NEW i \in 1 .. Len(internal_queue'),
                      NEW j \in 1 .. Len(internal_queue'), i < j
               PROVE  internal_queue'[i].id < internal_queue'[j].id
    BY DEF Ascending
  <2>1. i + 1 < j + 1
    OBVIOUS
  <2> QED
    BY <1>4, <1>5, <2>1 DEF Ascending
<1>7. QueueIsYounger'
  BY <1>1, <1>4, <1>5, <1>6 DEF QueueIsYounger
<1>8. InHand'
  <2>1. ASSUME NEW j \in 1 .. Len(internal_queue')
        PROVE  q[1].id < internal_queue'[j].id
    <3>1. 1 < j + 1
      OBVIOUS
    <3> QED
      BY <1>2, <1>4, <1>5, <3>1 DEF Ascending
  <2> QED
    BY <1>1, <1>2, <1>3, <1>5, <2>1 DEF InHand
<1>9. CacheAgrees' /\ ChainsAscend' /\ IdsAreOld'
  BY <1>1 DEF IdInv, CacheAgrees, ChainsAscend, IdsAreOld, Ascending
<1> QED
  BY <1>7, <1>8, <1>9 DEF IdInv

\* A new order gets an id that no order has had.
LEMMA StartKeepsIds ==
    ASSUME IInv, pc = "idle", NEW e \in ClientOrders, StartOrder(e),
           CacheAgrees', ChainsAscend', internal_queue' = internal_queue,
           IdsAreOld, DOMAIN id_cache' \subseteq DOMAIN id_cache
    PROVE  IdInv'
<1>1. /\ internal_queue = <<>> /\ Len(<<>>) = 0 /\ 1 .. 0 = {}
  BY EmptySeq DEF IInv, ControlState
<1>2. /\ last_id \in Nat /\ e \in QueueElem /\ DOMAIN id_cache \subseteq Nat
  BY ClientOrderFacts DEF IInv, TypeOK, BookTypeOK
<1>3. cur'.id = last_id + 1 /\ last_id' = last_id + 1
  BY <1>2 DEF StartOrder, QueueElem
<1>4. \A id \in DOMAIN id_cache' : id <= last_id /\ id < last_id + 1
  BY <1>2 DEF IdsAreOld
<1> QED
  BY <1>1, <1>2, <1>3, <1>4
     DEF IdInv, IdsAreOld, QueueIsYounger, InHand, Ascending

\* Every step keeps the ids.
LEMMA IdStep == IInv /\ IdInv /\ [Next]_vars => IdInv'
<1> SUFFICES ASSUME IInv, IdInv, [Next]_vars PROVE IdInv'
  OBVIOUS
<1>1. /\ CacheAgrees /\ ChainsAscend /\ IdsAreOld /\ TypeOK
      /\ pc = "idle" => internal_queue = <<>>
  BY DEF IInv, IdInv, ControlState
<1>2. ASSUME UNCHANGED <<limits, stops, id_cache, internal_queue, last_id>>,
             pc' \in {"idle", "drain"} \/ (pc \notin {"idle", "drain"} /\ cur' = cur)
      PROVE  IdInv'
  BY <1>2 DEF IdInv, CacheAgrees, ChainsAscend, Ascending, IdsAreOld,
              QueueIsYounger, InHand
<1>3. ASSUME UNCHANGED <<limits, stops, id_cache>>
      PROVE  CacheAgrees' /\ ChainsAscend'
  BY <1>1, <1>3 DEF CacheAgrees, ChainsAscend, Ascending
<1>4. ASSUME NEW e \in ClientOrders, InsertOrder(e)
      PROVE  IdInv'
  <2>1. /\ UNCHANGED <<limits, stops, id_cache>> /\ pc = "idle"
        /\ internal_queue' = internal_queue /\ StartOrder(e)
    BY <1>4 DEF InsertOrder, book
  <2> QED
    BY <1>1, <1>3, <2>1, StartKeepsIds
<1>5. ASSUME NEW id \in DOMAIN id_cache, PullOrder(id)
      PROVE  IdInv'
  <2>1. TakesOut({id})
    BY <1>1, <1>5, PullTakesOut DEF PullOrder
  <2> QED
    BY <1>1, <1>5, <2>1, TakingOutKeepsAges DEF PullOrder
<1>6. ASSUME NEW id \in DOMAIN id_cache, NEW e \in ClientOrders, ReplaceOrder(id, e)
      PROVE  IdInv'
  <2>1. TakesOut({id})
    BY <1>1, <1>6, PullTakesOut DEF ReplaceOrder
  <2>2. CacheAgrees' /\ ChainsAscend' /\ DOMAIN id_cache' \subseteq DOMAIN id_cache
    BY <1>1, <2>1, TakingOut
  <2> QED
    BY <1>1, <1>6, <2>2, StartKeepsIds DEF ReplaceOrder
<1>7. CASE \/ \E e \in InitEnd .. MaxLevel + 1 : GrowBookAbove(e)
           \/ \E b \in 1 .. InitBeg : GrowBookBelow(b)
  BY <1>2, <1>7 DEF GrowBookAbove, GrowBookBelow, book
<1>8. CASE RouteLimit \/ RouteMarket \/ EndTrade \/ EndBuyScan \/ EndSellScan
  BY <1>2, <1>8 DEF RouteLimit, RouteMarket, EndTrade, EndBuyScan, EndSellScan,
                    book
<1>9. CASE Filled \/ CloseWindow
  BY <1>2, <1>9 DEF Filled, CloseWindow, book
<1>10. CASE ThrowLiquidity
  <2>1. /\ UNCHANGED <<limits, stops, id_cache, last_id>> /\ pc' = "idle"
        /\ internal_queue' = <<>>
    BY <1>10 DEF ThrowLiquidity, book
  <2>2. Len(<<>>) = 0 /\ 1 .. 0 = {}
    BY EmptySeq
  <2>3. IdsAreOld' /\ QueueIsYounger' /\ InHand'
    BY <1>1, <2>1, <2>2 DEF IdsAreOld, QueueIsYounger, InHand, Ascending
  <2> QED
    BY <1>3, <2>1, <2>3 DEF IdInv
<1>11. CASE FillFront
  <2> DEFINE id == limits[best[Opp(cur.side)]][1].id
  <2>1. TakesOut({id})
    BY <1>1, <1>11, FillTakesOut
  <2> HIDE DEF id
  <2>2. UNCHANGED <<internal_queue, last_id, pc>> /\ cur'.id = cur.id
    BY <1>1, <1>11 DEF FillFront, TradeHasOccured, TypeOK, BookTypeOK, QueueElem
  <2> QED
    BY <1>1, <2>1, <2>2, TakingOutKeepsAges
<1>12. CASE FillPartOfFront
  BY <1>12, PartOfFrontKeepsIds
<1>13. CASE ScanBuyStops \/ ScanSellStops
  BY <1>13, ScanInLevels, ScanKeepsIds
     DEF ScanBuyStops, ScanSellStops, Scan, Sides
<1>14. CASE InsertStop
  BY <1>14, StopKeepsIds
<1>15. CASE RestLimit
  BY <1>15, RestKeepsIds
<1>16. CASE NextInternal
  BY <1>16, NextKeepsIds
<1>17. CASE UNCHANGED vars
  <2>1. UNCHANGED <<limits, stops, id_cache, internal_queue, last_id, pc, cur>>
    BY <1>17 DEF vars
  <2> QED
    BY <1>3, <2>1 DEF IdInv, Ascending, IdsAreOld, QueueIsYounger, InHand
<1> QED
  BY <1>4, <1>5, <1>6, <1>7, <1>8, <1>9, <1>10, <1>11, <1>12, <1>13, <1>14,
     <1>15, <1>16, <1>17 DEF Next, Client, Window

-----------------------------------------------------------------------------
(* The theorems. *)

LEMMA IdsInvariant == Spec => [](IInv /\ IdInv)
<1>1. Init => IInv /\ IdInv
  BY InitIInv, InitIdInv
<1>2. (IInv /\ IdInv) /\ [Next]_vars => (IInv /\ IdInv)'
  BY Inductive, IdStep
<1> QED
  BY <1>1, <1>2, PTL DEF Spec

\* The cache of ids and the chains agree through every insert, trade, trigger
\* and pull: a pull looks where the order is (_pull_order, _trade).
THEOREM CacheAlwaysAgrees == Spec => []CacheAgrees
<1>1. IdInv => CacheAgrees
  BY DEF IdInv
<1> QED
  BY <1>1, IdsInvariant, PTL

\* Orders that are older are in front, and triggered stops wait behind all
\* that rests (_push_internal_order, chain<>::push).
THEOREM OlderOrdersFirst == Spec => []TimePriority
<1>1. IdInv => TimePriority
  BY DEF IdInv, ChainsAscend, QueueIsYounger, Ascending, TimePriority
<1> QED
  BY <1>1, IdsInvariant, PTL


-----------------------------------------------------------------------------
(* What the refinement needs beyond IInv and IdInv: ids begin at 1, so that *)
(* an order in hand is told from none, and a market order has no limit.     *)

Incomes(e) == e.id > 0 /\ (e.type = "market" => e.limit = 0)

ArrivalInv ==
    /\ pc \notin {"idle", "drain"} => Incomes(cur)
    /\ \A j \in 1 .. Len(internal_queue) : Incomes(internal_queue[j])

LEMMA InitArrivalInv == Init => ArrivalInv
<1>1. Len(<<>>) = 0 /\ 1 .. 0 = {}
  BY EmptySeq
<1> QED
  BY <1>1 DEF Init, ArrivalInv

\* A client's order that has got its id is as ArrivalInv says.
LEMMA StartedIncomes ==
    ASSUME TypeOK, NEW e \in ClientOrders, StartOrder(e)
    PROVE  Incomes(cur') /\ cur' = [e EXCEPT !.id = last_id + 1]
<1>1. e \in QueueElem /\ last_id \in Nat /\ cur' = [e EXCEPT !.id = last_id + 1]
  BY ClientOrderFacts DEF StartOrder, TypeOK, BookTypeOK
<1>2. e.type = "market" => e.limit = 0
  <2>1. \/ \E s \in Sides, p \in Book, n \in Sizes : e = LimitOrder(s, p, n)
        \/ \E s \in Sides, n \in Sizes : e = MarketOrder(s, n)
        \/ \E s \in Sides, p \in Book, lim \in Book \cup {0}, n \in Sizes :
               e = StopOrder(s, p, lim, n)
    BY DEF ClientOrders
  <2> QED
    BY <2>1 DEF LimitOrder, MarketOrder, StopOrder
<1> QED
  BY <1>1, <1>2 DEF Incomes, QueueElem

\* A trigger leaves the queue as it is and adds orders made of its chain.
LEMMA TriggeredJoinQueue ==
    ASSUME IInv, NEW s \in Sides, NEW at, Scan(s, at), scan \in Levels
    PROVE  \A j \in 1 .. Len(internal_queue') :
               \/ \E i \in 1 .. Len(internal_queue) :
                      internal_queue'[j] = internal_queue[i]
               \/ \E i \in 1 .. Len(stops[scan]) :
                      internal_queue'[j] = TriggeredOrder(stops[scan][i], last_id + i)
<1> DEFINE chain == stops[scan]
           n == Len(chain)
           m == Len(internal_queue)
           new == [i \in 1 .. n |-> TriggeredOrder(chain[i], last_id + i)]
<1>1. internal_queue' = internal_queue \o new
  BY Zenon DEF Scan, HandleTriggeredStopChain
<1>2. /\ chain \in Seq(StopBndl) /\ n \in Nat /\ m \in Nat /\ last_id \in Nat
      /\ internal_queue \in Seq(QueueElem)
  BY LenProperties DEF IInv, TypeOK, BookTypeOK
<1>3. new \in Seq(QueueElem) /\ Len(new) = n
  <2>1. ASSUME NEW i \in 1 .. n
        PROVE  TriggeredOrder(chain[i], last_id + i) \in QueueElem
    <3>1. chain[i] \in StopBndl
      BY <1>2, ElementOfSeq
    <3>2. last_id + i \in Nat /\ 0 \in 0 .. MaxLevel
      BY <1>2, BookAssumption
    <3> HIDE DEF chain
    <3> QED
      BY <3>1, <3>2 DEF StopBndl, TriggeredOrder, QueueElem
  <2>2. new \in [1 .. n -> QueueElem]
    BY <2>1
  <2> HIDE DEF new, n
  <2> QED
    BY <1>2, <2>2, SeqDef, LenProperties
<1>4. \A i \in 1 .. n : new[i] = TriggeredOrder(chain[i], last_id + i)
  OBVIOUS
<1> HIDE DEF chain, n, m, new
<1>5. /\ Len(internal_queue') = m + n
      /\ \A j \in 1 .. m + n : internal_queue'[j] =
             IF j <= m THEN internal_queue[j] ELSE new[j - m]
  BY <1>1, <1>2, <1>3, ConcatProperties, Zenon DEF m
<1>6. ASSUME NEW j \in 1 .. Len(internal_queue')
      PROVE  \/ \E i \in 1 .. m : internal_queue'[j] = internal_queue[i]
             \/ \E i \in 1 .. n :
                    internal_queue'[j] = TriggeredOrder(chain[i], last_id + i)
  <2>1. CASE j <= m
    <3>1. j \in 1 .. m /\ internal_queue'[j] = internal_queue[j]
      BY <1>2, <1>5, <2>1
    <3> QED
      BY <3>1
  <2>2. CASE j > m
    <3>1. j - m \in 1 .. n /\ internal_queue'[j] = new[j - m]
      BY <1>2, <1>5, <2>2
    <3> QED
      BY <1>4, <3>1
  <2>3. j <= m \/ j > m
    BY <1>2, <1>5
  <2> QED
    BY <2>1, <2>2, <2>3, Zenon
<1> QED
  BY <1>6 DEF chain, n, m

\* Every step keeps ArrivalInv.
LEMMA ArrivalStep == IInv /\ ArrivalInv /\ [Next]_vars => ArrivalInv'
<1> SUFFICES ASSUME IInv, ArrivalInv, [Next]_vars PROVE ArrivalInv'
  OBVIOUS
<1>1. /\ TypeOK
      /\ \A j \in 1 .. Len(internal_queue) : Incomes(internal_queue[j])
  BY DEF IInv, ArrivalInv
<1>2. ASSUME internal_queue' = internal_queue,
             pc' \in {"idle", "drain"} \/ (pc \notin {"idle", "drain"} /\ cur' = cur)
      PROVE  ArrivalInv'
  BY <1>2 DEF ArrivalInv
<1>3. ASSUME NEW e \in ClientOrders, StartOrder(e), internal_queue' = internal_queue
      PROVE  ArrivalInv'
  <2>1. Incomes(cur')
    BY <1>1, <1>3, StartedIncomes
  <2> QED
    BY <1>1, <1>3, <2>1 DEF ArrivalInv
<1>4. ASSUME cur'.id = cur.id, cur'.type = cur.type, cur'.limit = cur.limit,
             internal_queue' = internal_queue, pc' = pc
      PROVE  ArrivalInv'
  BY <1>4 DEF ArrivalInv, Incomes
<1>5. CASE Client
  BY <1>2, <1>3, <1>5
     DEF Client, InsertOrder, PullOrder, ReplaceOrder, GrowBookAbove,
         GrowBookBelow
<1>6. CASE FillFront \/ FillPartOfFront
  <2>1. /\ \E n : cur' = [cur EXCEPT !.sz = @ - n]
        /\ UNCHANGED <<internal_queue, pc>>
    BY <1>6 DEF FillFront, FillPartOfFront, TradeHasOccured
  <2> QED
    BY <1>1, <1>4, <2>1 DEF TypeOK, BookTypeOK, QueueElem
<1>7. ASSUME NEW s \in Sides, NEW at, Scan(s, at), scan \in Levels
      PROVE  ArrivalInv'
  <2>1. cur' = cur /\ pc' = pc
    BY <1>7 DEF Scan
  <2>2. ASSUME NEW i \in 1 .. Len(stops[scan])
        PROVE  Incomes(TriggeredOrder(stops[scan][i], last_id + i))
    <3>1. last_id + i \in Nat /\ last_id + i > 0
      <4>1. Len(stops[scan]) \in Nat /\ last_id \in Nat
        BY <1>1, <1>7, LenProperties DEF TypeOK, BookTypeOK
      <4> QED
        BY <4>1
    <3> QED
      BY <3>1 DEF Incomes, TriggeredOrder
  <2>3. \A j \in 1 .. Len(internal_queue') : Incomes(internal_queue'[j])
    BY <1>1, <1>7, <2>2, TriggeredJoinQueue, Zenon
  <2> QED
    BY <2>1, <2>3 DEF ArrivalInv
<1>8. CASE ScanBuyStops \/ ScanSellStops
  BY <1>7, <1>8, ScanInLevels DEF ScanBuyStops, ScanSellStops, Scan, Sides
<1>9. CASE NextInternal
  <2>1. /\ internal_queue # <<>> /\ cur' = Head(internal_queue)
        /\ internal_queue' = Tail(internal_queue)
    BY <1>9 DEF NextInternal
  <2>2. /\ Len(internal_queue') = Len(internal_queue) - 1
        /\ Len(internal_queue) \in Nat
        /\ 1 \in 1 .. Len(internal_queue) /\ cur' = internal_queue[1]
        /\ \A i \in 1 .. Len(internal_queue') : internal_queue'[i] = internal_queue[i + 1]
    BY <1>1, <2>1, HeadTailProperties, LenProperties, EmptySeq DEF TypeOK, BookTypeOK
  <2>3. \A i \in 1 .. Len(internal_queue') : i + 1 \in 1 .. Len(internal_queue)
    BY <2>2
  <2> QED
    BY <1>1, <2>2, <2>3, Zenon DEF ArrivalInv
<1>10. CASE ThrowLiquidity
  BY <1>10, EmptySeq DEF ThrowLiquidity, ArrivalInv
<1>11. CASE UNCHANGED vars
  BY <1>11 DEF vars, ArrivalInv
<1> QED
  BY <1>2, <1>5, <1>6, <1>8, <1>9, <1>10, <1>11
     DEF Next, Window, RouteLimit, RouteMarket, InsertStop, EndTrade,
         EndBuyScan, EndSellScan, Filled, RestLimit, CloseWindow

-----------------------------------------------------------------------------
(* The orders that rest, one by one. *)

LEMMA RestingIs ==
    \A o : o \in RestingOrders <=>
               \E l \in Levels : \E i \in 1 .. Len(limits[l]) :
                   o = AtLevel(limits[l][i], l)
BY DEF RestingOrders

LEMMA RestingIsThen ==
    \A o : o \in RestingOrders' <=>
               \E l \in Levels : \E i \in 1 .. Len(limits'[l]) :
                   o = AtLevel(limits'[l][i], l)
BY DEF RestingOrders

\* Chains that stay the same leave the orders that rest.
LEMMA SameChains ==
    ASSUME limits' = limits
    PROVE  RestingOrders' = RestingOrders
BY DEF RestingOrders

\* What an order that rests is.
LEMMA RestingType ==
    ASSUME TypeOK, NEW l \in Levels, NEW i \in 1 .. Len(limits[l])
    PROVE  /\ limits[l][i] \in LimitBndl
           /\ limits[l][i].id \in Nat
           /\ limits[l][i].sz \in Nat /\ limits[l][i].sz > 0
           /\ limits[l][i].side \in Sides
           /\ AtLevel(limits[l][i], l).id = limits[l][i].id
           /\ AtLevel(limits[l][i], l).side = limits[l][i].side
           /\ AtLevel(limits[l][i], l).sz = limits[l][i].sz
           /\ AtLevel(limits[l][i], l).price = l
           /\ HasOrder(limits, l, limits[l][i].side)
<1>1. limits[l] \in Seq(LimitBndl)
  BY DEF TypeOK, BookTypeOK
<1>2. limits[l][i] \in LimitBndl
  BY <1>1, ElementOfSeq
<1> QED
  BY <1>2 DEF LimitBndl, AtLevel, HasOrder

\* No two orders that rest have one id.
LEMMA OneOfEachId ==
    ASSUME TypeOK, CacheAgrees, ChainsAscend,
           NEW o \in RestingOrders, NEW q \in RestingOrders, o.id = q.id
    PROVE  o = q
<1>1. PICK l \in Levels :
          \E i \in 1 .. Len(limits[l]) : o = AtLevel(limits[l][i], l)
  BY RestingIs
<1>1a. PICK i \in 1 .. Len(limits[l]) : o = AtLevel(limits[l][i], l)
  BY <1>1
<1>2. PICK m \in Levels :
          \E j \in 1 .. Len(limits[m]) : q = AtLevel(limits[m][j], m)
  BY RestingIs
<1>2a. PICK j \in 1 .. Len(limits[m]) : q = AtLevel(limits[m][j], m)
  BY <1>2
<1>3. limits[l][i].id = limits[m][j].id /\ limits[l][i].id \in Nat
  BY <1>1a, <1>2a, RestingType
<1>4. l = m
  BY <1>3, OneChain, Zenon
<1>5. ~ (i < j) /\ ~ (j < i)
  BY <1>3, <1>4 DEF ChainsAscend, Ascending
<1>6. Len(limits[l]) \in Nat
  BY LenProperties DEF TypeOK, BookTypeOK
<1>7. i = j
  BY <1>4, <1>5, <1>6
<1> QED
  BY <1>1a, <1>2a, <1>4, <1>7

\* Orders that are taken out of the chains no longer rest; all others do.
LEMMA NoLongerRest ==
    ASSUME TypeOK, NEW ids, TakesOut(ids)
    PROVE  \A o : o \in RestingOrders' <=> o \in RestingOrders /\ o.id \notin ids
<1>1. ASSUME NEW o \in RestingOrders'
      PROVE  o \in RestingOrders /\ o.id \notin ids
  <2>1. PICK l \in Levels :
            \E i \in 1 .. Len(limits'[l]) : o = AtLevel(limits'[l][i], l)
    BY RestingIsThen
  <2>1a. PICK i \in 1 .. Len(limits'[l]) : o = AtLevel(limits'[l][i], l)
    BY <2>1
  <2>2. /\ limits'[l][i].id \notin ids
        /\ \E j \in 1 .. Len(limits[l]) : limits'[l][i] = limits[l][j]
    BY Zenon DEF TakesOut, Without
  <2>3. PICK j \in 1 .. Len(limits[l]) : limits'[l][i] = limits[l][j]
    BY <2>2
  <2>4. o = AtLevel(limits[l][j], l) /\ o.id = limits[l][j].id
    BY <2>1a, <2>3, RestingType
  <2> QED
    BY <2>2, <2>3, <2>4, RestingIs
<1>2. ASSUME NEW o \in RestingOrders, o.id \notin ids
      PROVE  o \in RestingOrders'
  <2>1. PICK l \in Levels :
            \E j \in 1 .. Len(limits[l]) : o = AtLevel(limits[l][j], l)
    BY RestingIs
  <2>1a. PICK j \in 1 .. Len(limits[l]) : o = AtLevel(limits[l][j], l)
    BY <2>1
  <2>2. limits[l][j].id \notin ids
    BY <1>2, <2>1a, RestingType
  <2>3. PICK i \in 1 .. Len(limits'[l]) : limits'[l][i] = limits[l][j]
    BY <2>2, Zenon DEF TakesOut, Without
  <2> QED
    BY <2>1a, <2>3, RestingIsThen
<1> QED
  BY <1>1, <1>2

\* _pull_order takes one resting order away when the id is of a limit order,
\* and none when it is of a stop order.
LEMMA PullCancels ==
    ASSUME TypeOK, CacheAgrees, ChainsAscend, NEW id, Pull(id)
    PROVE  \/ RestingOrders' = RestingOrders
           \/ \E o \in RestingOrders : RestingOrders' = RestingOrders \ {o}
<1>1. CASE PopStop(id)
  BY <1>1, SameChains DEF PopStop
<1>2. CASE PopLimit(id)
  <2> DEFINE p == id_cache[id].p
  <2>1. p \in Levels
    BY DEF Pull, TypeOK, BookTypeOK, CacheElem
  <2>2. PICK i \in 1 .. Len(limits[p]) : limits[p][i].id = id
    BY <1>2, Zenon DEF PopLimit
  <2> DEFINE o == AtLevel(limits[p][i], p)
  <2>3. o \in RestingOrders /\ o.id = id
    BY <2>1, <2>2, RestingIs, RestingType
  <2> HIDE DEF o
  <2>4. \A q : q \in RestingOrders' <=> q \in RestingOrders /\ q.id \notin {id}
    BY PullTakesOut, NoLongerRest
  <2>5. \A q : q \in RestingOrders' <=> q \in RestingOrders /\ q # o
    BY <2>3, <2>4, OneOfEachId
  <2>6. RestingOrders' = RestingOrders \ {o}
    BY <2>5
  <2> QED
    BY <2>3, <2>6
<1> QED
  BY <1>1, <1>2 DEF Pull

-----------------------------------------------------------------------------
(* The incoming order. *)

NothingComes == [id |-> 0, side |-> "buy", price |-> 0, sz |-> 0]
InHandOrder ==
    [id |-> cur.id, side |-> cur.side, price |-> cur.limit, sz |-> cur.sz]

\* Between two orders there is no incoming one, and none while a stop order
\* is inserted.
LEMMA NoneComes ==
    /\ cur = NoOrder \/ cur.type = "stop" => IncomingOrder = NothingComes
    /\ cur' = NoOrder \/ cur'.type = "stop" => IncomingOrder' = NothingComes
BY DEF IncomingOrder, NothingComes, NoOrder

\* What is executed and is no stop order is the incoming order.
LEMMA OneComes ==
    ASSUME TypeOK, ArrivalInv, pc \notin {"idle", "drain"}, cur.type # "stop"
    PROVE  /\ IncomingOrder = InHandOrder
           /\ IncomingOrder # NothingComes
           /\ IncomingOrder.id = cur.id /\ IncomingOrder.side = cur.side
           /\ IncomingOrder.price = cur.limit /\ IncomingOrder.sz = cur.sz
<1>1. cur.id > 0 /\ cur.id \in Nat
  BY DEF ArrivalInv, Incomes, TypeOK, BookTypeOK, QueueElem
<1>2. IncomingOrder = InHandOrder
  BY <1>1 DEF IncomingOrder, InHandOrder
<1>3. /\ InHandOrder.id = cur.id /\ InHandOrder.side = cur.side
      /\ InHandOrder.price = cur.limit /\ InHandOrder.sz = cur.sz
      /\ NothingComes.id = 0
  BY DEF InHandOrder, NothingComes
<1> QED
  BY <1>1, <1>2, <1>3

\* An order that is executed next and is no stop order arrives: it is an order
\* of the abstract book.
LEMMA Arrives ==
    ASSUME cur' \in QueueElem, cur'.type # "stop", Incomes(cur'),
           cur'.sz > 0
    PROVE  /\ IncomingOrder' \in PTB!Order(Levels \cup {0})
           /\ IncomingOrder'.sz > 0
           /\ IncomingOrder'.id = cur'.id
<1>1. cur'.id > 0 /\ cur'.id \in Nat
  BY DEF Incomes, QueueElem
<1>2. IncomingOrder' = [id |-> cur'.id, side |-> cur'.side,
                        price |-> cur'.limit, sz |-> cur'.sz]
  BY <1>1 DEF IncomingOrder
<1>3. cur'.limit \in Levels \cup {0}
  BY BookAssumption DEF QueueElem, Levels
<1>4. cur'.sz \in Nat /\ cur'.side \in {"buy", "sell"}
  BY DEF QueueElem, Sides
<1> QED
  BY <1>1, <1>2, <1>3, <1>4 DEF PTB!Order, PTB!Side

\* The orders that rest are older than any id that is younger than the cache.
LEMMA RestingAreCached ==
    ASSUME TypeOK, CacheAgrees, NEW o \in RestingOrders
    PROVE  o.id \in DOMAIN id_cache
<1>1. PICK l \in Levels : \E i \in 1 .. Len(limits[l]) : o = AtLevel(limits[l][i], l)
  BY RestingIs
<1>2. PICK i \in 1 .. Len(limits[l]) : o = AtLevel(limits[l][i], l)
  BY <1>1
<1>3. o.id = limits[l][i].id
  BY <1>2, RestingType
<1> QED
  BY <1>3, Zenon DEF CacheAgrees

\* What is left unfilled at the end of _trade crosses nothing that rests.
LEMMA CrossesNothing ==
    ASSUME IInv, ArrivalInv, pc = "settle", cur.sz > 0, NEW o \in RestingOrders
    PROVE  ~ PTB!Crosses(o, IncomingOrder)
<1>1. TypeOK /\ LimitWindows /\ cur.type \in {"limit", "market"} /\ cur.side \in Sides
  BY DEF IInv, ControlState, TypeOK, BookTypeOK, QueueElem
<1>2. PICK l \in Levels : \E i \in 1 .. Len(limits[l]) : o = AtLevel(limits[l][i], l)
  BY RestingIs
<1>3. PICK i \in 1 .. Len(limits[l]) : o = AtLevel(limits[l][i], l)
  BY <1>2
<1>4. o.price = l /\ o.side \in Sides /\ HasOrder(limits, l, o.side)
  BY <1>1, <1>3, RestingType
<1>5. /\ IncomingOrder.side = cur.side /\ IncomingOrder.price = cur.limit
  BY <1>1, OneComes
<1> SUFFICES ASSUME o.side # cur.side,
                    cur.limit = 0 \/ IF cur.side = "buy" THEN l <= cur.limit
                                     ELSE l >= cur.limit
             PROVE  FALSE
  BY <1>4, <1>5 DEF PTB!Crosses
<1>6. o.side = Opp(cur.side)
  BY <1>1, <1>4 DEF Opp, Sides
<1>7. ~ Geq(cur.side, PLevel(cur), l)
  BY <1>4, <1>6, NothingLeft DEF NothingLeftToTrade
<1>8. l \in Book
  BY <1>1, <1>4, OrderInBook DEF TypeOK
<1>9. CASE cur.type = "market"
  <2>1. PLevel(cur) = IF cur.side = "buy" THEN end - 1 ELSE beg
    BY <1>9 DEF PLevel
  <2>2. beg \in Int /\ end \in Int
    BY <1>1, PointerFacts DEF TypeOK
  <2> QED
    BY <1>1, <1>7, <1>8, <2>1, <2>2 DEF Geq, Book, Sides
<1>10. CASE cur.type = "limit"
  <2>1. PLevel(cur) = cur.limit /\ cur.limit # 0
    BY <1>1, <1>10, PointerFacts DEF IInv, TypeOK, PricesInBook, PLevel, Levels
  <2> QED
    BY <1>1, <1>7, <2>1 DEF Geq
<1> QED
  BY <1>1, <1>9, <1>10

-----------------------------------------------------------------------------
(* Matching. *)

\* The front of the best chain is the order that price and age choose: it is
\* on the other side, cur crosses it, and it goes before every other.
LEMMA FrontIsChosen ==
    ASSUME IInv, IdInv, ArrivalInv, pc = "trade", KeepsTrading(cur),
           NEW p, p = best[Opp(cur.side)],
           NEW o, o = AtLevel(limits[p][1], p)
    PROVE  /\ p \in Levels /\ limits[p] \in Seq(LimitBndl) /\ limits[p] # <<>>
           /\ 1 \in 1 .. Len(limits[p])
           /\ o \in RestingOrders /\ o.price = p
           /\ o.id = limits[p][1].id /\ o.sz = limits[p][1].sz
           /\ PTB!Crosses(o, IncomingOrder)
           /\ \A q \in RestingOrders :
                  q.side = o.side /\ q # o => PTB!GoesBefore(o, q)
<1> DEFINE r == Opp(cur.side)
<1>1. /\ TypeOK /\ LimitWindows /\ Uncrossed /\ ChainsAscend
      /\ cur.side \in Sides /\ r \in Sides /\ r # cur.side
      /\ cur.type \in {"limit", "market"}
  BY DEF IInv, IdInv, ControlState, TypeOK, BookTypeOK, QueueElem, Opp, Sides
<1>2. /\ p \in Book /\ p \in Levels
      /\ limits[p] \in Seq(LimitBndl) /\ limits[p] # <<>>
  BY TradeHitsAChain
<1>3. 1 \in 1 .. Len(limits[p]) /\ Len(limits[p]) \in Nat
  BY <1>2, LenProperties, EmptySeq
<1>4. /\ o.id = limits[p][1].id /\ o.side = limits[p][1].side
      /\ o.sz = limits[p][1].sz /\ o.price = p /\ o.side \in Sides
      /\ HasOrder(limits, p, o.side) /\ HasOrder(limits, p, r)
  BY <1>1, <1>2, <1>3, RestingType, BestHasOrder DEF TypeOK
<1>5. o.side = r
  BY <1>1, <1>2, <1>4, LevelTellsSide DEF SideFromLevel, TypeOK, Sides
<1>6. /\ IncomingOrder.side = cur.side /\ IncomingOrder.price = cur.limit
  BY <1>1, OneComes
<1>7. cur.limit = 0 \/ IF cur.side = "buy" THEN p <= cur.limit ELSE p >= cur.limit
  <2>1. CASE cur.type = "market"
    BY <2>1 DEF ArrivalInv, Incomes
  <2>2. CASE cur.type = "limit"
    BY <1>1, <2>2 DEF KeepsTrading, PLevel, Geq, Opp, Sides
  <2> QED
    BY <1>1, <2>1, <2>2
<1>8. PTB!Crosses(o, IncomingOrder)
  BY <1>1, <1>4, <1>5, <1>6, <1>7 DEF PTB!Crosses
<1>9. ASSUME NEW q \in RestingOrders, q.side = o.side, q # o
      PROVE  PTB!GoesBefore(o, q)
  <2>1. PICK l \in Levels :
            \E i \in 1 .. Len(limits[l]) : q = AtLevel(limits[l][i], l)
    BY RestingIs
  <2>2. PICK i \in 1 .. Len(limits[l]) : q = AtLevel(limits[l][i], l)
    BY <2>1
  <2>3. /\ q.id = limits[l][i].id /\ q.price = l /\ HasOrder(limits, l, r)
        /\ Len(limits[l]) \in Nat
    BY <1>1, <1>5, <1>9, <2>2, RestingType, LenProperties DEF TypeOK, BookTypeOK
  <2>4. Geq(r, p, l) /\ p \in Int /\ l \in Int
    BY <1>1, <1>2, <2>3 DEF LimitWindows, Levels
  <2>5. CASE l = p
    <3>1. 1 < i
      BY <1>3, <1>9, <2>2, <2>5
    <3>2. limits[p][1].id < limits[p][i].id
      BY <1>1, <1>2, <1>3, <2>5, <3>1 DEF ChainsAscend, Ascending
    <3> QED
      BY <1>4, <2>3, <2>5, <3>2 DEF PTB!GoesBefore
  <2>6. CASE l # p
    BY <1>1, <1>4, <1>5, <2>3, <2>4, <2>6 DEF PTB!GoesBefore, Geq, Sides
  <2> QED
    BY <2>5, <2>6
<1>10. o \in RestingOrders
  BY <1>2, <1>3, RestingIs
<1> QED
  BY <1>2, <1>3, <1>4, <1>8, <1>9, <1>10

\* A trade takes its amount from cur, and is at the level of the chain.
LEMMA TradeFillsIncoming ==
    ASSUME IInv, ArrivalInv, pc = "trade", NEW p, NEW n \in Nat,
           TradeHasOccured(p, n)
    PROVE  /\ IncomingOrder' = [IncomingOrder EXCEPT !.sz = @ - n]
           /\ last' = p
<1>1. cur \in QueueElem /\ cur.type # "stop" /\ cur' = [cur EXCEPT !.sz = @ - n]
  BY DEF IInv, TypeOK, BookTypeOK, ControlState, TradeHasOccured
<1>2. /\ cur'.id = cur.id /\ cur'.type = cur.type /\ cur'.side = cur.side
      /\ cur'.limit = cur.limit /\ cur'.sz = cur.sz - n
  BY <1>1 DEF QueueElem
<1>3. cur.id # 0
  BY <1>1 DEF ArrivalInv, Incomes, QueueElem
<1>4. IncomingOrder = InHandOrder
  BY <1>1, <1>3 DEF IncomingOrder, InHandOrder
<1>5. IncomingOrder' = [id |-> cur.id, side |-> cur.side,
                        price |-> cur.limit, sz |-> cur.sz - n]
  BY <1>1, <1>2, <1>3 DEF IncomingOrder
<1> QED
  BY <1>4, <1>5 DEF InHandOrder, TradeHasOccured

\* _hit_chain fills the front order: a match that takes it from the book.
LEMMA FillFrontMatches ==
    ASSUME IInv, IdInv, ArrivalInv, FillFront
    PROVE  \E o \in RestingOrders : PTB!Match(o)
<1> DEFINE p == best[Opp(cur.side)]
           o == AtLevel(limits[p][1], p)
<1>1. /\ pc = "trade" /\ KeepsTrading(cur) /\ Head(limits[p]).sz <= cur.sz
      /\ TradeHasOccured(p, Head(limits[p]).sz)
  BY DEF FillFront
<1>2. /\ p \in Levels /\ limits[p] \in Seq(LimitBndl) /\ limits[p] # <<>>
      /\ 1 \in 1 .. Len(limits[p])
      /\ o \in RestingOrders /\ o.price = p
      /\ o.id = limits[p][1].id /\ o.sz = limits[p][1].sz
      /\ PTB!Crosses(o, IncomingOrder)
      /\ \A q \in RestingOrders : q.side = o.side /\ q # o => PTB!GoesBefore(o, q)
  BY <1>1, FrontIsChosen
<1>3. Head(limits[p]) = limits[p][1] /\ o.sz \in Nat
  BY <1>2, HeadTailProperties, RestingType DEF IInv
<1>4. TakesOut({o.id})
  BY <1>2, FillTakesOut DEF IdInv
<1> HIDE DEF o, p
<1>5. \A q : q \in RestingOrders' <=> q \in RestingOrders /\ q.id \notin {o.id}
  BY <1>4, NoLongerRest DEF IInv
<1>6. RestingOrders' = RestingOrders \ {o}
  <2>1. \A q : q \in RestingOrders' <=> q \in RestingOrders /\ q # o
    BY <1>2, <1>5, OneOfEachId DEF IInv, IdInv
  <2> QED
    BY <2>1
<1>7. IncomingOrder' = [IncomingOrder EXCEPT !.sz = @ - o.sz] /\ last' = p
  BY <1>1, <1>2, <1>3, TradeFillsIncoming
<1>8. IncomingOrder.sz = cur.sz /\ cur.sz > 0 /\ cur.sz \in Nat
  BY <1>1, OneComes DEF IInv, ControlState, KeepsTrading, TypeOK, BookTypeOK, QueueElem
<1>9. PTB!Less(o.sz, IncomingOrder.sz) = o.sz
  BY <1>1, <1>2, <1>3, <1>8 DEF PTB!Less
<1>10. PTB!Match(o)
  BY <1>2, <1>6, <1>7, <1>8, <1>9, Zenon DEF PTB!Match
<1> QED
  BY <1>2, <1>10

\* _hit_chain uses a part of the front order: a match that leaves the rest of
\* it in the book.
LEMMA PartOfFrontMatches ==
    ASSUME IInv, IdInv, ArrivalInv, FillPartOfFront
    PROVE  \E o \in RestingOrders : PTB!Match(o)
<1> DEFINE p == best[Opp(cur.side)]
           o == AtLevel(limits[p][1], p)
           less == [o EXCEPT !.sz = @ - cur.sz]
<1>1. /\ pc = "trade" /\ KeepsTrading(cur) /\ cur.sz < Head(limits[p]).sz
      /\ TradeHasOccured(p, cur.sz)
  BY DEF FillPartOfFront
<1>2. /\ p \in Levels /\ limits[p] \in Seq(LimitBndl) /\ limits[p] # <<>>
      /\ 1 \in 1 .. Len(limits[p])
      /\ o \in RestingOrders /\ o.price = p
      /\ o.id = limits[p][1].id /\ o.sz = limits[p][1].sz
      /\ PTB!Crosses(o, IncomingOrder)
      /\ \A q \in RestingOrders : q.side = o.side /\ q # o => PTB!GoesBefore(o, q)
  BY <1>1, FrontIsChosen
<1>3. /\ Head(limits[p]) = limits[p][1] /\ o.sz \in Nat
      /\ limits[p][1] \in LimitBndl
  BY <1>2, HeadTailProperties, RestingType DEF IInv
<1>4. /\ IncomingOrder.sz = cur.sz /\ cur.sz > 0 /\ cur.sz \in Nat
  BY <1>1, OneComes DEF IInv, ControlState, KeepsTrading, TypeOK, BookTypeOK, QueueElem
<1>5. \A l \in Levels :
          /\ Len(limits'[l]) = Len(limits[l])
          /\ \A i \in 1 .. Len(limits[l]) : limits'[l][i] =
                 IF l = p /\ i = 1
                 THEN [limits[p][1] EXCEPT !.sz = @ - cur.sz]
                 ELSE limits[l][i]
  BY PartOfFront
<1>6. AtLevel([limits[p][1] EXCEPT !.sz = @ - cur.sz], p) = less
  BY <1>3 DEF AtLevel, LimitBndl
<1> HIDE DEF o, p, less
<1>7. less \in RestingOrders'
  <2>1. /\ 1 \in 1 .. Len(limits'[p])
        /\ limits'[p][1] = [limits[p][1] EXCEPT !.sz = @ - cur.sz]
    BY <1>2, <1>5
  <2> QED
    BY <1>2, <1>6, <2>1, RestingIsThen
<1>8. ASSUME NEW q \in RestingOrders'
      PROVE  q = less \/ (q \in RestingOrders /\ q # o)
  <2>1. PICK l \in Levels : \E i \in 1 .. Len(limits'[l]) : q = AtLevel(limits'[l][i], l)
    BY RestingIsThen
  <2>2. PICK i \in 1 .. Len(limits'[l]) : q = AtLevel(limits'[l][i], l)
    BY <2>1
  <2>3. i \in 1 .. Len(limits[l])
    BY <1>5
  <2>4. CASE l = p /\ i = 1
    BY <1>5, <1>6, <2>2, <2>3, <2>4
  <2>5. CASE ~ (l = p /\ i = 1)
    <3>1. q = AtLevel(limits[l][i], l)
      BY <1>5, <2>2, <2>3, <2>5
    <3>2. q \in RestingOrders /\ q.id = limits[l][i].id /\ q.price = l
      BY <2>3, <3>1, RestingIs, RestingType DEF IInv
    <3>3. ASSUME l = p
          PROVE  limits[p][1].id < limits[l][i].id /\ limits[p][1].id \in Nat
      <4>1. Len(limits[p]) \in Nat /\ 1 < i
        BY <1>2, <2>3, <2>5, <3>3, LenProperties
      <4> QED
        BY <1>2, <1>3, <2>3, <3>3, <4>1
           DEF IdInv, ChainsAscend, Ascending, LimitBndl
    <3>4. q # o
      BY <1>2, <3>2, <3>3
    <3> QED
      BY <3>2, <3>4
  <2> QED
    BY <2>4, <2>5
<1>9. ASSUME NEW q \in RestingOrders, q # o
      PROVE  q \in RestingOrders'
  <2>1. PICK l \in Levels : \E i \in 1 .. Len(limits[l]) : q = AtLevel(limits[l][i], l)
    BY RestingIs
  <2>2. PICK i \in 1 .. Len(limits[l]) : q = AtLevel(limits[l][i], l)
    BY <2>1
  <2>3. ~ (l = p /\ i = 1)
    BY <1>9, <2>2 DEF o
  <2>4. i \in 1 .. Len(limits'[l]) /\ limits'[l][i] = limits[l][i]
    BY <1>5, <2>3
  <2> QED
    BY <2>2, <2>4, RestingIsThen
<1>10. RestingOrders' = (RestingOrders \ {o}) \cup {less}
  BY <1>7, <1>8, <1>9
<1>11. IncomingOrder' = [IncomingOrder EXCEPT !.sz = @ - cur.sz] /\ last' = p
  BY <1>1, <1>4, TradeFillsIncoming
<1>12. /\ PTB!Less(o.sz, IncomingOrder.sz) = cur.sz
       /\ cur.sz # o.sz
  BY <1>1, <1>2, <1>3, <1>4 DEF PTB!Less
<1>13. PTB!Match(o)
  BY <1>2, <1>4, <1>10, <1>11, <1>12, Zenon DEF PTB!Match, less
<1> QED
  BY <1>2, <1>13

\* A limit order whose rest goes to its chain rests, and nothing else changes.
LEMMA RestLimitRests ==
    ASSUME IInv, ArrivalInv, RestLimit
    PROVE  PTB!Rest
<1> DEFINE p == cur.limit
           bndl == [id |-> cur.id, sz |-> cur.sz, side |-> cur.side]
<1>1. /\ pc = "settle" /\ cur.sz > 0 /\ cur.type = "limit" /\ cur' = NoOrder
      /\ limits' = [limits EXCEPT ![p] = Append(@, bndl)] /\ last' = last
  BY DEF RestLimit, ChainEmplace
<1>2. /\ p \in Levels /\ p # 0 /\ limits \in [Levels -> Seq(LimitBndl)]
      /\ limits[p] \in Seq(LimitBndl) /\ Len(limits[p]) \in Nat
  <2>1. p \in Book /\ TypeOK
    BY <1>1 DEF IInv, PricesInBook
  <2>2. p \in Levels /\ p # 0
    BY <2>1, PointerFacts DEF Levels, TypeOK
  <2> HIDE DEF p
  <2>3. limits \in [Levels -> Seq(LimitBndl)] /\ limits[p] \in Seq(LimitBndl)
    BY <2>1, <2>2 DEF TypeOK, BookTypeOK
  <2> QED
    BY <2>2, <2>3, LenProperties
<1>3. bndl \in LimitBndl
  BY <1>1 DEF IInv, TypeOK, BookTypeOK, QueueElem, LimitBndl
<1>4. IncomingOrder = AtLevel(bndl, p) /\ IncomingOrder.sz = cur.sz
      /\ IncomingOrder.price = p
  BY <1>1, OneComes DEF InHandOrder, AtLevel, IInv
<1>5. \A o \in RestingOrders : ~ PTB!Crosses(o, IncomingOrder)
  BY <1>1, CrossesNothing
<1> HIDE DEF bndl, p
<1>6. /\ Len(limits'[p]) = Len(limits[p]) + 1
      /\ \A i \in 1 .. Len(limits[p]) : limits'[p][i] = limits[p][i]
      /\ limits'[p][Len(limits[p]) + 1] = bndl
      /\ \A l \in Levels \ {p} : limits'[l] = limits[l]
  <2>1. limits'[p] = Append(limits[p], bndl)
    BY <1>1, <1>2
  <2>2. /\ Len(limits'[p]) = Len(limits[p]) + 1
        /\ \A i \in 1 .. Len(limits[p]) : limits'[p][i] = limits[p][i]
        /\ limits'[p][Len(limits[p]) + 1] = bndl
    BY <1>2, <1>3, <2>1, AppendProperties
  <2> QED
    BY <1>1, <1>2, <2>2
<1>7. ASSUME NEW q \in RestingOrders'
      PROVE  q = IncomingOrder \/ q \in RestingOrders
  <2>1. PICK l \in Levels : \E i \in 1 .. Len(limits'[l]) : q = AtLevel(limits'[l][i], l)
    BY RestingIsThen
  <2>2. PICK i \in 1 .. Len(limits'[l]) : q = AtLevel(limits'[l][i], l)
    BY <2>1
  <2>3. CASE l = p /\ i = Len(limits[p]) + 1
    BY <1>4, <1>6, <2>2, <2>3
  <2>4. CASE ~ (l = p /\ i = Len(limits[p]) + 1)
    <3>1. i \in 1 .. Len(limits[l]) /\ limits'[l][i] = limits[l][i]
      BY <1>2, <1>6, <2>4
    <3> QED
      BY <2>2, <3>1, RestingIs
  <2> QED
    BY <2>3, <2>4
<1>8. ASSUME NEW q \in RestingOrders
      PROVE  q \in RestingOrders'
  <2>1. PICK l \in Levels : \E i \in 1 .. Len(limits[l]) : q = AtLevel(limits[l][i], l)
    BY RestingIs
  <2>2. PICK i \in 1 .. Len(limits[l]) : q = AtLevel(limits[l][i], l)
    BY <2>1
  <2>3. i \in 1 .. Len(limits'[l]) /\ limits'[l][i] = limits[l][i]
    BY <1>2, <1>6
  <2> QED
    BY <2>2, <2>3, RestingIsThen
<1>9. IncomingOrder \in RestingOrders'
  <2>1. Len(limits[p]) + 1 \in 1 .. Len(limits'[p])
    BY <1>2, <1>6
  <2> QED
    BY <1>2, <1>4, <1>6, <2>1, RestingIsThen
<1>10. RestingOrders' = RestingOrders \cup {IncomingOrder}
  BY <1>7, <1>8, <1>9
<1>11. IncomingOrder' = NothingComes
  BY <1>1, NoneComes
<1> QED
  BY <1>1, <1>2, <1>4, <1>5, <1>10, <1>11, Zenon
     DEF PTB!Rest, PTB!NoIncoming, NothingComes

-----------------------------------------------------------------------------
(* The steps. *)

\* An order that is made while none is executed, and is no stop order,
\* arrives in the abstract book.
LEMMA StartArrives ==
    ASSUME IInv, IdInv, pc = "idle", NEW e \in ClientOrders, StartOrder(e)
    PROVE  \/ IncomingOrder' = NothingComes
           \/ /\ IncomingOrder' \in PTB!Order(Levels \cup {0})
              /\ IncomingOrder'.sz > 0
              /\ \A o \in RestingOrders : o.id < IncomingOrder'.id
<1>1. /\ Incomes(cur') /\ cur' = [e EXCEPT !.id = last_id + 1]
      /\ e \in QueueElem /\ e.sz > 0 /\ last_id \in Nat
  BY StartedIncomes, ClientOrderFacts DEF IInv, TypeOK, BookTypeOK
<1>2. cur' \in QueueElem /\ cur'.sz > 0 /\ cur'.id = last_id + 1
  BY <1>1 DEF QueueElem
<1>3. CASE cur'.type = "stop"
  BY <1>3, NoneComes
<1>4. CASE cur'.type # "stop"
  <2>1. /\ IncomingOrder' \in PTB!Order(Levels \cup {0}) /\ IncomingOrder'.sz > 0
        /\ IncomingOrder'.id = last_id + 1
    BY <1>1, <1>2, <1>4, Arrives
  <2>2. ASSUME NEW o \in RestingOrders
        PROVE  o.id < last_id + 1
    <3>1. o.id \in DOMAIN id_cache /\ DOMAIN id_cache \subseteq Nat
      BY RestingAreCached DEF IInv, TypeOK, BookTypeOK, IdInv
    <3> QED
      BY <1>1, <3>1 DEF IdInv, IdsAreOld
  <2> QED
    BY <2>1, <2>2
<1> QED
  BY <1>3, <1>4

\* Between two windows no order is incoming.
LEMMA NoneBetween ==
    ASSUME IInv, pc \in {"idle", "drain"}
    PROVE  IncomingOrder = NothingComes
BY NoneComes DEF IInv, ControlState

LEMMA StepImplements ==
    ASSUME IInv, IdInv, ArrivalInv, [Next]_vars
    PROVE  [PTB!PTBNext]_(PTB!ptbVars)
<1>0. /\ TypeOK /\ CacheAgrees /\ ChainsAscend
      /\ NothingComes = PTB!NoIncoming
  BY DEF IInv, IdInv, NothingComes, PTB!NoIncoming
<1>1. ASSUME limits' = limits, IncomingOrder' = IncomingOrder, last' = last
      PROVE  [PTB!PTBNext]_(PTB!ptbVars)
  BY <1>1, SameChains DEF PTB!ptbVars
<1>2. ASSUME limits' = limits, cur' = cur, last' = last
      PROVE  [PTB!PTBNext]_(PTB!ptbVars)
  BY <1>1, <1>2 DEF IncomingOrder
<1>3. ASSUME NEW e \in ClientOrders, InsertOrder(e)
      PROVE  [PTB!PTBNext]_(PTB!ptbVars)
  <2>1. /\ limits' = limits /\ last' = last /\ pc = "idle" /\ StartOrder(e)
        /\ RestingOrders' = RestingOrders
    BY <1>3, SameChains DEF InsertOrder, book
  <2>2. IncomingOrder = NothingComes
    BY <2>1, NoneBetween
  <2>3. CASE IncomingOrder' = NothingComes
    BY <1>1, <2>1, <2>2, <2>3
  <2>4. CASE /\ IncomingOrder' \in PTB!Order(Levels \cup {0})
             /\ IncomingOrder'.sz > 0
             /\ \A o \in RestingOrders : o.id < IncomingOrder'.id
    <3>1. PTB!Arrive
      BY <1>0, <2>1, <2>2, <2>4, Zenon DEF PTB!Arrive
    <3> QED
      BY <3>1 DEF PTB!PTBNext
  <2> QED
    BY <2>1, <2>3, <2>4, StartArrives
<1>4. ASSUME NEW id \in DOMAIN id_cache, PullOrder(id)
      PROVE  [PTB!PTBNext]_(PTB!ptbVars)
  <2>1. /\ cur' = cur /\ last' = last /\ pc = "idle" /\ Pull(id)
        /\ IncomingOrder = NothingComes /\ IncomingOrder' = IncomingOrder
    BY <1>4, NoneBetween DEF PullOrder, IncomingOrder
  <2>2. CASE RestingOrders' = RestingOrders
    BY <2>1, <2>2 DEF PTB!ptbVars
  <2>3. CASE \E o \in RestingOrders : RestingOrders' = RestingOrders \ {o}
    <3>1. PICK o \in RestingOrders : RestingOrders' = RestingOrders \ {o}
      BY <2>3
    <3>2. PTB!Cancel(o)
      BY <1>0, <2>1, <3>1, Zenon DEF PTB!Cancel
    <3> QED
      BY <3>1, <3>2 DEF PTB!PTBNext
  <2> QED
    BY <1>0, <2>1, <2>2, <2>3, PullCancels
<1>5. ASSUME NEW id \in DOMAIN id_cache, NEW e \in ClientOrders, ReplaceOrder(id, e)
      PROVE  [PTB!PTBNext]_(PTB!ptbVars)
  <2>1. /\ last' = last /\ pc = "idle" /\ Pull(id) /\ StartOrder(e)
        /\ IncomingOrder = NothingComes
    BY <1>5, NoneBetween DEF ReplaceOrder
  <2>2. \/ RestingOrders' = RestingOrders
        \/ \E o \in RestingOrders : RestingOrders' = RestingOrders \ {o}
    BY <1>0, <2>1, PullCancels
  <2>3. CASE IncomingOrder' = NothingComes
    <3>1. CASE RestingOrders' = RestingOrders
      BY <2>1, <2>3, <3>1 DEF PTB!ptbVars
    <3>2. CASE \E o \in RestingOrders : RestingOrders' = RestingOrders \ {o}
      <4>1. PICK o \in RestingOrders : RestingOrders' = RestingOrders \ {o}
        BY <3>2
      <4>2. PTB!Cancel(o)
        BY <1>0, <2>1, <2>3, <4>1, Zenon DEF PTB!Cancel
      <4> QED
        BY <4>1, <4>2 DEF PTB!PTBNext
    <3> QED
      BY <2>2, <3>1, <3>2
  <2>4. CASE /\ IncomingOrder' \in PTB!Order(Levels \cup {0})
             /\ IncomingOrder'.sz > 0
             /\ \A o \in RestingOrders : o.id < IncomingOrder'.id
    <3>1. CASE RestingOrders' = RestingOrders
      <4>1. PTB!Arrive
        BY <1>0, <2>1, <2>4, <3>1, Zenon DEF PTB!Arrive
      <4> QED
        BY <4>1 DEF PTB!PTBNext
    <3>2. CASE \E o \in RestingOrders : RestingOrders' = RestingOrders \ {o}
      <4>1. PICK o \in RestingOrders : RestingOrders' = RestingOrders \ {o}
        BY <3>2
      <4>2. PTB!Replace(o)
        BY <1>0, <2>1, <2>4, <4>1, Zenon DEF PTB!Replace
      <4> QED
        BY <4>1, <4>2 DEF PTB!PTBNext
    <3> QED
      BY <2>2, <3>1, <3>2
  <2> QED
    BY <2>1, <2>3, <2>4, StartArrives
<1>6. CASE \/ \E e \in InitEnd .. MaxLevel + 1 : GrowBookAbove(e)
           \/ \E b \in 1 .. InitBeg : GrowBookBelow(b)
  BY <1>2, <1>6 DEF GrowBookAbove, GrowBookBelow, book
<1>7. CASE RouteLimit \/ RouteMarket \/ EndTrade \/ EndBuyScan \/ EndSellScan
           \/ CloseWindow
  BY <1>2, <1>7 DEF RouteLimit, RouteMarket, EndTrade, EndBuyScan, EndSellScan,
                    CloseWindow, book
<1>8. CASE ScanBuyStops \/ ScanSellStops
  BY <1>2, <1>8 DEF ScanBuyStops, ScanSellStops, Scan
<1>9. CASE InsertStop
  <2>1. limits' = limits /\ last' = last /\ cur.type = "stop" /\ cur' = NoOrder
    BY <1>9 DEF InsertStop
  <2> QED
    BY <1>1, <2>1, NoneComes
<1>10. CASE FillFront
  BY <1>10, FillFrontMatches DEF PTB!PTBNext
<1>11. CASE FillPartOfFront
  BY <1>11, PartOfFrontMatches DEF PTB!PTBNext
<1>12. CASE RestLimit
  BY <1>12, RestLimitRests DEF PTB!PTBNext
<1>13. CASE Filled \/ ThrowLiquidity
  <2>1. /\ limits' = limits /\ last' = last /\ pc = "settle" /\ cur' = NoOrder
        /\ RestingOrders' = RestingOrders
        /\ cur.sz = 0 \/ (cur.sz > 0 /\ cur.type = "market")
    BY <1>13, SameChains DEF Filled, ThrowLiquidity, book
  <2>2. /\ IncomingOrder # NothingComes /\ IncomingOrder.sz = cur.sz
        /\ IncomingOrder.price = cur.limit
        /\ IncomingOrder' = NothingComes
    BY <1>0, <2>1, OneComes, NoneComes DEF IInv, ControlState
  <2>3. IncomingOrder.sz = 0 \/ IncomingOrder.price = 0
    BY <2>1, <2>2 DEF ArrivalInv, Incomes
  <2>4. IncomingOrder.sz > 0 =>
            \A o \in RestingOrders : ~ PTB!Crosses(o, IncomingOrder)
    BY <2>1, <2>2, CrossesNothing
  <2>5. PTB!Leave
    BY <1>0, <2>1, <2>2, <2>3, <2>4, Zenon DEF PTB!Leave
  <2> QED
    BY <2>5 DEF PTB!PTBNext
<1>14. CASE NextInternal
  <2>1. /\ limits' = limits /\ last' = last /\ pc = "drain"
        /\ internal_queue # <<>> /\ cur' = Head(internal_queue)
        /\ RestingOrders' = RestingOrders /\ IncomingOrder = NothingComes
    BY <1>14, SameChains, NoneBetween DEF NextInternal, book
  <2>2. 1 \in 1 .. Len(internal_queue) /\ cur' = internal_queue[1]
    BY <1>0, <2>1, HeadTailProperties, LenProperties, EmptySeq DEF TypeOK, BookTypeOK
  <2>3. /\ cur' \in QueueElem /\ Incomes(cur') /\ cur'.type # "stop" /\ cur'.sz > 0
    BY <1>0, <2>2, ElementOfSeq DEF ArrivalInv, IInv, PricesInBook, TypeOK, BookTypeOK
  <2>4. ASSUME NEW o \in RestingOrders
        PROVE  o.id < cur'.id
    BY <1>0, <2>2, RestingAreCached DEF IdInv, QueueIsYounger
  <2>5. /\ IncomingOrder' \in PTB!Order(Levels \cup {0})
        /\ IncomingOrder'.sz > 0 /\ IncomingOrder'.id = cur'.id
    BY <2>3, Arrives
  <2>6. \A o \in RestingOrders : o.id < IncomingOrder'.id
    BY <2>4, <2>5
  <2>7. PTB!Arrive
    BY <1>0, <2>1, <2>5, <2>6, Zenon DEF PTB!Arrive
  <2> QED
    BY <2>7 DEF PTB!PTBNext
<1>15. CASE UNCHANGED vars
  BY <1>2, <1>15 DEF vars
<1> QED
  BY <1>3, <1>4, <1>5, <1>6, <1>7, <1>8, <1>9, <1>10, <1>11, <1>12, <1>13,
     <1>14, <1>15 DEF Next, Client, Window

-----------------------------------------------------------------------------
(* The theorem. *)

LEMMA InitImplements == Init => PTB!PTBInit
<1> SUFFICES ASSUME Init PROVE PTB!PTBInit
  OBVIOUS
<1>1. cur = NoOrder /\ last = 0 /\ \A l \in Levels : limits[l] = <<>>
  BY DEF Init
<1>2. Len(<<>>) = 0 /\ 1 .. 0 = {}
  BY EmptySeq
<1>3. RestingOrders = {}
  BY <1>1, <1>2, RestingIs
<1>4. IncomingOrder = PTB!NoIncoming
  BY <1>1, NoneComes DEF NothingComes, PTB!NoIncoming
<1> QED
  BY <1>1, <1>3, <1>4 DEF PTB!PTBInit

\* For every book, every set of sizes and every number of orders, what the
\* engine does is what the abstract book allows: an order trades only with the
\* best and oldest order on the other side (_trade, _hit_chain), rests only
\* when it crosses nothing (_insert_limit_order), leaves only when it is
\* filled or nothing is left to trade with, and no resting order changes in
\* any other way than by a trade, a pull or a replace.
THEOREM MatchesByPriceThenTime == Spec => ImplementsPriceTimeBook
<1>1. Init => ArrivalInv /\ PTB!PTBInit
  BY InitArrivalInv, InitImplements
<1>2. IInv /\ ArrivalInv /\ [Next]_vars => ArrivalInv'
  BY ArrivalStep
<1>3. (IInv /\ IdInv) /\ ArrivalInv /\ [Next]_vars => [PTB!PTBNext]_(PTB!ptbVars)
  BY StepImplements
<1> QED
  BY <1>1, <1>2, <1>3, IdsInvariant, PTL
     DEF Spec, ImplementsPriceTimeBook, PTB!PTBSpec

-----------------------------------------------------------------------------
(* Sums. *)

\* h is the recursive function that SumTo(f, n) takes the value of
IsSum(f, n, h) == h = [k \in 0 .. n |-> IF k = 0 THEN 0 ELSE h[k - 1] + f[k]]

\* The recursive function of SumTo exists, built up one number at a time, ...
LEMMA SumExists ==
    ASSUME NEW f, NEW n \in Nat
    PROVE  \E h : IsSum(f, n, h)
<1> DEFINE S == {m \in Nat : \E h : IsSum(f, m, h)}
<1>1. 0 \in S
  <2>1. IsSum(f, 0, [k \in 0 .. 0 |-> 0])
    <3>1. \A k \in 0 .. 0 : k = 0
      OBVIOUS
    <3> QED
      BY <3>1, Zenon DEF IsSum
  <2> QED
    BY <2>1
<1>2. ASSUME NEW m \in S
      PROVE  m + 1 \in S
  <2>1. PICK h : IsSum(f, m, h)
    OBVIOUS
  <2> DEFINE g == [k \in 0 .. m + 1 |-> IF k = m + 1 THEN h[m] + f[m + 1] ELSE h[k]]
  <2>2. ASSUME NEW k \in 0 .. m + 1
        PROVE  g[k] = IF k = 0 THEN 0 ELSE g[k - 1] + f[k]
    <3>0. m \in Nat /\ h = [i \in 0 .. m |-> IF i = 0 THEN 0 ELSE h[i - 1] + f[i]]
      BY <2>1 DEF IsSum
    <3>1. CASE k = m + 1
      <4>1. k # 0 /\ k - 1 = m /\ k - 1 \in 0 .. m + 1 /\ k - 1 # m + 1
        BY <3>0, <3>1
      <4>2. g[k - 1] = h[m]
        BY <4>1
      <4> QED
        BY <3>1, <4>1, <4>2
    <3>2. CASE k = 0
      <4>1. k \in 0 .. m /\ k # m + 1
        BY <3>0, <3>2
      <4>2. g[k] = h[k]
        BY <4>1
      <4>3. h[k] = 0
        BY <3>0, <3>2, <4>1, Zenon
      <4> QED
        BY <3>2, <4>2, <4>3
    <3>3. CASE k # 0 /\ k # m + 1
      <4>1. k \in 0 .. m /\ k - 1 \in 0 .. m + 1 /\ k - 1 # m + 1
        BY <3>0, <3>3
      <4>2. g[k] = h[k] /\ g[k - 1] = h[k - 1]
        BY <3>3, <4>1
      <4>3. h[k] = h[k - 1] + f[k]
        BY <3>0, <3>3, <4>1, Zenon
      <4> QED
        BY <3>3, <4>2, <4>3
    <3> QED
      BY <3>1, <3>2, <3>3
  <2>3. IsSum(f, m + 1, g)
    <3>1. g = [k \in 0 .. m + 1 |-> g[k]]
      OBVIOUS
    <3>2. [k \in 0 .. m + 1 |-> g[k]] =
          [k \in 0 .. m + 1 |-> IF k = 0 THEN 0 ELSE g[k - 1] + f[k]]
      <4> HIDE DEF g
      <4> QED
        BY <2>2
    <3> QED
      BY <3>1, <3>2, Zenon DEF IsSum
  <2>4. m + 1 \in Nat
    OBVIOUS
  <2> QED
    BY <2>3, <2>4
<1>3. S \subseteq Nat
  OBVIOUS
<1>4. S = Nat
  <2> HIDE DEF S
  <2> QED
    BY <1>1, <1>2, <1>3, SetInduction
<1> QED
  BY <1>4

\* ... it is the only one, ...
LEMMA SumsAgree ==
    ASSUME NEW f, NEW n \in Nat, NEW m \in Nat, NEW h, NEW g,
           IsSum(f, n, h), IsSum(f, m, g)
    PROVE  \A k \in Nat : k <= n /\ k <= m => h[k] = g[k]
<1> DEFINE S == {k \in Nat : k <= n /\ k <= m => h[k] = g[k]}
<1>0. /\ h = [i \in 0 .. n |-> IF i = 0 THEN 0 ELSE h[i - 1] + f[i]]
      /\ g = [i \in 0 .. m |-> IF i = 0 THEN 0 ELSE g[i - 1] + f[i]]
  BY DEF IsSum
<1>1. 0 \in S
  <2>1. 0 \in 0 .. n /\ 0 \in 0 .. m
    OBVIOUS
  <2>2. h[0] = 0 /\ g[0] = 0
    BY <1>0, <2>1, Zenon
  <2> QED
    BY <2>2
<1>2. ASSUME NEW k \in S
      PROVE  k + 1 \in S
  <2> SUFFICES ASSUME k + 1 <= n, k + 1 <= m PROVE h[k + 1] = g[k + 1]
    OBVIOUS
  <2>1. /\ k + 1 \in 0 .. n /\ k + 1 \in 0 .. m /\ k + 1 # 0
        /\ (k + 1) - 1 = k /\ k <= n /\ k <= m
    OBVIOUS
  <2>2. h[k] = g[k]
    BY <2>1
  <2>3. h[k + 1] = h[(k + 1) - 1] + f[k + 1] /\ g[k + 1] = g[(k + 1) - 1] + f[k + 1]
    BY <1>0, <2>1, Zenon
  <2> QED
    BY <2>1, <2>2, <2>3
<1>3. S \subseteq Nat
  OBVIOUS
<1>4. S = Nat
  <2> HIDE DEF S
  <2> QED
    BY <1>1, <1>2, <1>3, SetInduction
<1> QED
  BY <1>4

\* ... and SumTo is its last value, whichever range it is defined on.
LEMMA SumIs ==
    ASSUME NEW f, NEW n \in Nat, NEW h, IsSum(f, n, h)
    PROVE  SumTo(f, n) = h[n]
<1> DEFINE s == CHOOSE g : IsSum(f, n, g)
<1>1. IsSum(f, n, s)
  BY Zenon
<1>2. SumTo(f, n) = s[n]
  BY Zenon DEF SumTo, IsSum
<1>3. s[n] = h[n]
  <2> HIDE DEF s
  <2> QED
    BY <1>1, SumsAgree
<1> QED
  BY <1>2, <1>3

\* How a sum starts and goes on: the facts the other lemmas rest on.
LEMMA SumStep ==
    ASSUME NEW f
    PROVE  /\ SumTo(f, 0) = 0
           /\ \A n \in Nat : SumTo(f, n + 1) = SumTo(f, n) + f[n + 1]
<1>1. SumTo(f, 0) = 0
  <2>1. PICK h : IsSum(f, 0, h)
    BY SumExists
  <2>2. h = [i \in 0 .. 0 |-> IF i = 0 THEN 0 ELSE h[i - 1] + f[i]] /\ 0 \in 0 .. 0
    BY <2>1 DEF IsSum
  <2>3. h[0] = 0
    BY <2>2, Zenon
  <2> QED
    BY <2>1, <2>3, SumIs
<1>2. ASSUME NEW n \in Nat
      PROVE  SumTo(f, n + 1) = SumTo(f, n) + f[n + 1]
  <2>0. n + 1 \in Nat
    OBVIOUS
  <2>1. PICK h : IsSum(f, n + 1, h)
    BY <2>0, SumExists
  <2>2. PICK g : IsSum(f, n, g)
    BY SumExists
  <2>3. h[n] = g[n]
    BY <2>0, <2>1, <2>2, SumsAgree
  <2>4. /\ n + 1 \in 0 .. n + 1 /\ n + 1 # 0 /\ (n + 1) - 1 = n
        /\ h = [i \in 0 .. n + 1 |-> IF i = 0 THEN 0 ELSE h[i - 1] + f[i]]
    BY <2>1 DEF IsSum
  <2>5. h[n + 1] = h[(n + 1) - 1] + f[n + 1]
    BY <2>4, Zenon
  <2>6. SumTo(f, n + 1) = h[n + 1] /\ SumTo(f, n) = g[n]
    BY <2>0, <2>1, <2>2, SumIs
  <2> QED
    BY <2>3, <2>4, <2>5, <2>6
<1> QED
  BY <1>1, <1>2

\* A sum of numbers is a number.
LEMMA SumType ==
    ASSUME NEW f, NEW n \in Nat, \A k \in 1 .. n : f[k] \in Nat
    PROVE  SumTo(f, n) \in Nat
<1> DEFINE S == {k \in Nat : k <= n => SumTo(f, k) \in Nat}
<1>1. 0 \in S
  BY SumStep
<1>2. ASSUME NEW k \in S
      PROVE  k + 1 \in S
  <2> SUFFICES ASSUME k + 1 <= n PROVE SumTo(f, k + 1) \in Nat
    OBVIOUS
  <2>1. k \in Nat /\ k + 1 \in 1 .. n /\ SumTo(f, k) \in Nat
    OBVIOUS
  <2> QED
    BY <2>1, SumStep
<1>3. S \subseteq Nat
  OBVIOUS
<1>4. S = Nat
  <2> HIDE DEF S
  <2> QED
    BY <1>1, <1>2, <1>3, SetInduction
<1> QED
  BY <1>4

\* Only the summands matter.
LEMMA SumSame ==
    ASSUME NEW f, NEW g, NEW n \in Nat, \A k \in 1 .. n : f[k] = g[k]
    PROVE  SumTo(f, n) = SumTo(g, n)
<1> DEFINE S == {k \in Nat : k <= n => SumTo(f, k) = SumTo(g, k)}
<1>1. 0 \in S
  BY SumStep
<1>2. ASSUME NEW k \in S
      PROVE  k + 1 \in S
  <2> SUFFICES ASSUME k + 1 <= n PROVE SumTo(f, k + 1) = SumTo(g, k + 1)
    OBVIOUS
  <2>1. k \in Nat /\ k + 1 \in 1 .. n /\ SumTo(f, k) = SumTo(g, k)
    OBVIOUS
  <2> QED
    BY <2>1, SumStep
<1>3. S \subseteq Nat
  OBVIOUS
<1>4. S = Nat
  <2> HIDE DEF S
  <2> QED
    BY <1>1, <1>2, <1>3, SetInduction
<1> QED
  BY <1>4

\* the first m values of h are those of f, the next n those of g
Joined(h, f, m, g, n) ==
    /\ \A k \in 1 .. m : f[k] = h[k] /\ f[k] \in Nat
    /\ \A k \in 1 .. n : g[k] = h[m + k] /\ g[k] \in Nat

\* The sum of two lists one after the other is the sum of their sums.
LEMMA SumAppend ==
    ASSUME NEW f, NEW g, NEW h, NEW m \in Nat, NEW n \in Nat,
           Joined(h, f, m, g, n)
    PROVE  SumTo(h, m + n) = SumTo(f, m) + SumTo(g, n)
<1>0. /\ \A k \in 1 .. m : f[k] = h[k] /\ f[k] \in Nat
      /\ \A k \in 1 .. n : g[k] = h[m + k] /\ g[k] \in Nat
  BY Zenon DEF Joined
<1> USE <1>0
<1> DEFINE S == {k \in Nat : k <= n => SumTo(h, m + k) = SumTo(f, m) + SumTo(g, k)}
<1>1. 0 \in S
  <2>1. SumTo(h, m) = SumTo(f, m) /\ SumTo(g, 0) = 0 /\ SumTo(f, m) \in Nat
    BY SumSame, SumStep, SumType
  <2> QED
    BY <2>1
<1>2. ASSUME NEW k \in S
      PROVE  k + 1 \in S
  <2> SUFFICES ASSUME k + 1 <= n
                PROVE  SumTo(h, m + (k + 1)) = SumTo(f, m) + SumTo(g, k + 1)
    OBVIOUS
  <2>1. /\ k \in Nat /\ k + 1 \in 1 .. n /\ SumTo(h, m + k) = SumTo(f, m) + SumTo(g, k)
        /\ m + k \in Nat /\ (m + k) + 1 = m + (k + 1)
    OBVIOUS
  <2>2. SumTo(h, (m + k) + 1) = SumTo(h, m + k) + h[(m + k) + 1]
    BY <2>1, SumStep
  <2>3. SumTo(g, k + 1) = SumTo(g, k) + g[k + 1]
    BY <2>1, SumStep
  <2>4. \A i \in 1 .. k : g[i] \in Nat
    BY <2>1
  <2>5. SumTo(f, m) \in Nat /\ SumTo(g, k) \in Nat /\ g[k + 1] \in Nat
        /\ g[k + 1] = h[m + (k + 1)]
    BY <2>1, <2>4, SumType
  <2> QED
    BY <2>1, <2>2, <2>3, <2>5
<1>3. S \subseteq Nat
  OBVIOUS
<1>4. S = Nat
  <2> HIDE DEF S
  <2> QED
    BY <1>1, <1>2, <1>3, SetInduction
<1> QED
  BY <1>4

\* When one summand changes, the sum changes by as much.
LEMMA SumChange ==
    ASSUME NEW f, NEW g, NEW n \in Nat, NEW p \in 1 .. n,
           \A k \in 1 .. n : f[k] \in Nat /\ g[k] \in Nat,
           \A k \in 1 .. n : k # p => g[k] = f[k]
    PROVE  /\ SumTo(f, n) \in Nat /\ SumTo(g, n) \in Nat
           /\ SumTo(g, n) + f[p] = SumTo(f, n) + g[p]
<1> DEFINE S == {k \in Nat : k <= n =>
                     IF k < p THEN SumTo(g, k) = SumTo(f, k)
                     ELSE SumTo(g, k) + f[p] = SumTo(f, k) + g[p]}
<1>1. 0 \in S
  BY SumStep
<1>2. ASSUME NEW k \in S
      PROVE  k + 1 \in S
  <2> SUFFICES ASSUME k + 1 <= n
                PROVE  IF k + 1 < p THEN SumTo(g, k + 1) = SumTo(f, k + 1)
                       ELSE SumTo(g, k + 1) + f[p] = SumTo(f, k + 1) + g[p]
    OBVIOUS
  <2>1. /\ k \in Nat /\ k + 1 \in 1 .. n /\ p \in Nat
        /\ IF k < p THEN SumTo(g, k) = SumTo(f, k)
           ELSE SumTo(g, k) + f[p] = SumTo(f, k) + g[p]
    OBVIOUS
  <2>2. /\ SumTo(g, k + 1) = SumTo(g, k) + g[k + 1]
        /\ SumTo(f, k + 1) = SumTo(f, k) + f[k + 1]
    BY <2>1, SumStep
  <2>3. SumTo(g, k) \in Nat /\ SumTo(f, k) \in Nat
    <3>1. \A i \in 1 .. k : f[i] \in Nat /\ g[i] \in Nat
      BY <2>1
    <3> QED
      BY <2>1, <3>1, SumType
  <2>4. f[k + 1] \in Nat /\ g[k + 1] \in Nat /\ f[p] \in Nat /\ g[p] \in Nat
    BY <2>1
  <2>5. CASE k + 1 < p
    <3>1. g[k + 1] = f[k + 1] /\ k < p
      BY <2>1, <2>5
    <3> QED
      BY <2>1, <2>2, <2>5, <3>1
  <2>6. CASE k + 1 = p
    <3>1. SumTo(g, k) = SumTo(f, k)
      BY <2>1, <2>6
    <3> QED
      BY <2>1, <2>2, <2>3, <2>4, <2>6, <3>1
  <2>7. CASE k + 1 > p
    <3>1. g[k + 1] = f[k + 1] /\ SumTo(g, k) + f[p] = SumTo(f, k) + g[p]
      BY <2>1, <2>7
    <3> QED
      BY <2>1, <2>2, <2>3, <2>4, <2>7, <3>1
  <2> QED
    BY <2>1, <2>5, <2>6, <2>7
<1>3. S \subseteq Nat
  OBVIOUS
<1>4. S = Nat
  <2> HIDE DEF S
  <2> QED
    BY <1>1, <1>2, <1>3, SetInduction
<1>5. ~ (n < p) /\ n <= n
  OBVIOUS
<1>6. SumTo(g, n) + f[p] = SumTo(f, n) + g[p]
  BY <1>4, <1>5
<1> QED
  BY <1>6, SumType

-----------------------------------------------------------------------------
(* Chains. *)

\* every order of the chain has a size
Sized(c) == \A i \in 1 .. Len(c) : c[i].sz \in Nat

\* The sizes on a limit chain, a stop chain and in the queue are numbers.
LEMMA ChainIsSized ==
    ASSUME NEW c, c \in Seq(LimitBndl) \/ c \in Seq(StopBndl) \/ c \in Seq(QueueElem)
    PROVE  Len(c) \in Nat /\ Sized(c)
<1>1. CASE c \in Seq(LimitBndl)
  <2>1. \A i \in 1 .. Len(c) : c[i] \in LimitBndl
    BY <1>1
  <2> QED
    BY <1>1, <2>1 DEF LimitBndl, Sized
<1>2. CASE c \in Seq(StopBndl)
  <2>1. \A i \in 1 .. Len(c) : c[i] \in StopBndl
    BY <1>2
  <2> QED
    BY <1>2, <2>1 DEF StopBndl, Sized
<1>3. CASE c \in Seq(QueueElem)
  <2>1. \A i \in 1 .. Len(c) : c[i] \in QueueElem
    BY <1>3
  <2> QED
    BY <1>3, <2>1 DEF QueueElem, Sized
<1> QED
  BY <1>1, <1>2, <1>3

\* The size of a chain is a number.
LEMMA ChainSizeType ==
    ASSUME NEW c, Len(c) \in Nat, Sized(c)
    PROVE  ChainSize(c) \in Nat
<1> DEFINE f == [i \in 1 .. Len(c) |-> c[i].sz]
<1>1. \A i \in 1 .. Len(c) : f[i] \in Nat
  BY DEF Sized
<1> HIDE DEF f
<1>2. SumTo(f, Len(c)) \in Nat
  BY <1>1, SumType
<1> QED
  BY <1>2 DEF ChainSize, f

\* An empty chain has no size.
LEMMA ChainSizeEmpty == ChainSize(<<>>) = 0
BY SumStep DEF ChainSize

\* The size of a chain depends on the sizes of its orders alone: a triggered
\* order has the size of its stop order.
LEMMA ChainSizeSame ==
    ASSUME NEW c, NEW d, Len(c) \in Nat, Len(d) = Len(c),
           \A i \in 1 .. Len(c) : d[i].sz = c[i].sz
    PROVE  ChainSize(d) = ChainSize(c)
<1> DEFINE f == [i \in 1 .. Len(c) |-> c[i].sz]
            g == [i \in 1 .. Len(d) |-> d[i].sz]
<1>1. \A i \in 1 .. Len(c) : g[i] = f[i]
  OBVIOUS
<1> HIDE DEF f, g
<1>2. SumTo(g, Len(c)) = SumTo(f, Len(c))
  BY <1>1, SumSame
<1> QED
  BY <1>2 DEF ChainSize, f, g

\* The size of a chain that is put after another.
LEMMA ChainSizeJoined ==
    ASSUME NEW c, NEW d, NEW e, Len(c) \in Nat, Len(d) \in Nat,
           Len(e) = Len(c) + Len(d), Sized(c), Sized(d),
           \A i \in 1 .. Len(c) : e[i].sz = c[i].sz,
           \A i \in 1 .. Len(d) : e[Len(c) + i].sz = d[i].sz
    PROVE  ChainSize(e) = ChainSize(c) + ChainSize(d)
<1> DEFINE f == [i \in 1 .. Len(c) |-> c[i].sz]
            g == [i \in 1 .. Len(d) |-> d[i].sz]
            h == [i \in 1 .. Len(e) |-> e[i].sz]
<1>1. \A i \in 1 .. Len(c) : f[i] = h[i] /\ f[i] \in Nat
  <2> SUFFICES ASSUME NEW i \in 1 .. Len(c) PROVE f[i] = h[i] /\ f[i] \in Nat
    OBVIOUS
  <2>1. i \in 1 .. Len(e)
    OBVIOUS
  <2> QED
    BY <2>1 DEF Sized
<1>2. \A i \in 1 .. Len(d) : g[i] = h[Len(c) + i] /\ g[i] \in Nat
  <2> SUFFICES ASSUME NEW i \in 1 .. Len(d) PROVE g[i] = h[Len(c) + i] /\ g[i] \in Nat
    OBVIOUS
  <2>1. Len(c) + i \in 1 .. Len(e)
    OBVIOUS
  <2> QED
    BY <2>1 DEF Sized
<1> HIDE DEF f, g, h
<1>3. SumTo(h, Len(c) + Len(d)) = SumTo(f, Len(c)) + SumTo(g, Len(d))
  <2>1. Joined(h, f, Len(c), g, Len(d))
    BY <1>1, <1>2, Zenon DEF Joined
  <2> QED
    BY <2>1, SumAppend, SMT
<1>4. /\ ChainSize(c) = SumTo(f, Len(c)) /\ ChainSize(d) = SumTo(g, Len(d))
      /\ ChainSize(e) = SumTo(h, Len(e))
  BY Zenon DEF ChainSize, f, g, h
<1>5. SumTo(h, Len(e)) = SumTo(h, Len(c) + Len(d))
  BY Zenon
<1> QED
  BY <1>3, <1>4, <1>5, Zenon

\* The size of a single order.
LEMMA ChainSizeOne ==
    ASSUME NEW x, x.sz \in Nat
    PROVE  ChainSize(<<x>>) = x.sz
<1> DEFINE f == [i \in 1 .. 1 |-> x.sz]
<1>1. f[1] = x.sz
  OBVIOUS
<1>2. ChainSize(<<x>>) = SumTo(f, 1)
  <2>1. [i \in 1 .. Len(<<x>>) |-> <<x>>[i].sz] = f
    OBVIOUS
  <2> QED
    BY <2>1 DEF ChainSize
<1> HIDE DEF f
<1>3. SumTo(f, 0 + 1) = SumTo(f, 0) + f[0 + 1] /\ SumTo(f, 0) = 0
  BY SumStep
<1> QED
  BY <1>1, <1>2, <1>3

\* chain<>::emplace adds the size of the order to the chain.
LEMMA ChainSizeAppend ==
    ASSUME NEW X, NEW c \in Seq(X), NEW x \in X, Sized(c), x.sz \in Nat
    PROVE  ChainSize(Append(c, x)) = ChainSize(c) + x.sz
<1>1. /\ Len(Append(c, x)) = Len(c) + 1 /\ Len(<<x>>) = 1 /\ <<x>>[1] = x
      /\ Append(c, x)[Len(c) + 1] = x /\ Len(c) \in Nat
      /\ \A i \in 1 .. Len(c) : Append(c, x)[i] = c[i]
  OBVIOUS
<1>2. Sized(<<x>>) /\ \A i \in 1 .. Len(<<x>>) : i = 1
  BY <1>1 DEF Sized
<1>3. ChainSize(Append(c, x)) = ChainSize(c) + ChainSize(<<x>>)
  BY <1>1, <1>2, ChainSizeJoined
<1> QED
  BY <1>3, ChainSizeOne

\* A chain is its front and the rest.
LEMMA ChainSizeTail ==
    ASSUME NEW X, NEW c \in Seq(X), c # <<>>, Sized(c)
    PROVE  /\ ChainSize(c) = Head(c).sz + ChainSize(Tail(c))
           /\ Head(c).sz \in Nat /\ ChainSize(Tail(c)) \in Nat
<1>1. /\ Len(c) \in Nat \ {0} /\ Len(Tail(c)) = Len(c) - 1 /\ Head(c) = c[1]
      /\ \A i \in 1 .. Len(Tail(c)) : Tail(c)[i] = c[i + 1]
  OBVIOUS
<1>2. Head(c).sz \in Nat /\ Sized(Tail(c)) /\ Len(Tail(c)) \in Nat
  BY <1>1 DEF Sized
<1>3. Sized(<<Head(c)>>) /\ Len(<<Head(c)>>) = 1 /\ <<Head(c)>>[1] = Head(c)
  BY <1>2 DEF Sized
<1>4. /\ Len(c) = Len(<<Head(c)>>) + Len(Tail(c))
      /\ \A i \in 1 .. Len(<<Head(c)>>) : c[i].sz = <<Head(c)>>[i].sz
      /\ \A i \in 1 .. Len(Tail(c)) : c[Len(<<Head(c)>>) + i].sz = Tail(c)[i].sz
  <2>1. \A i \in 1 .. Len(Tail(c)) : 1 + i = i + 1
    OBVIOUS
  <2>2. \A i \in 1 .. 1 : i = 1
    OBVIOUS
  <2> QED
    BY <1>1, <1>3, <2>1, <2>2
<1>5. ChainSize(c) = ChainSize(<<Head(c)>>) + ChainSize(Tail(c))
  BY <1>2, <1>3, <1>4, ChainSizeJoined
<1> QED
  BY <1>2, <1>5, ChainSizeOne, ChainSizeType

\* When only the front changes, its change is that of the chain.
LEMMA ChainSizeFront ==
    ASSUME NEW X, NEW c \in Seq(X), NEW d \in Seq(X), c # <<>>, Sized(c), Sized(d),
           Len(d) = Len(c), \A i \in 2 .. Len(c) : d[i] = c[i]
    PROVE  ChainSize(d) + Head(c).sz = ChainSize(c) + Head(d).sz
<1>1. Tail(d) = Tail(c)
  <2>1. /\ Len(Tail(d)) = Len(c) - 1 /\ Len(Tail(c)) = Len(c) - 1
        /\ Tail(d) \in Seq(X) /\ Tail(c) \in Seq(X) /\ Len(c) \in Nat \ {0}
    OBVIOUS
  <2>2. \A i \in 1 .. (Len(c) - 1) : Tail(d)[i] = d[i + 1] /\ Tail(c)[i] = c[i + 1]
    BY <2>1
  <2>3. \A i \in 1 .. (Len(c) - 1) : i + 1 \in 2 .. Len(c)
    BY <2>1
  <2> QED
    BY <2>1, <2>2, <2>3, SeqEqual
<1>2. d # <<>>
  OBVIOUS
<1>3. /\ ChainSize(c) = Head(c).sz + ChainSize(Tail(c))
      /\ Head(c).sz \in Nat /\ ChainSize(Tail(c)) \in Nat
  BY ChainSizeTail, Zenon
<1>4. ChainSize(d) = Head(d).sz + ChainSize(Tail(d)) /\ Head(d).sz \in Nat
  BY <1>2, ChainSizeTail, Zenon
<1>5. ChainSize(d) = Head(d).sz + ChainSize(Tail(c))
  BY <1>1, <1>4, Zenon
<1> QED
  BY <1>3, <1>4, <1>5

-----------------------------------------------------------------------------
(* The book. *)

\* the sizes that the proofs below add and subtract
SizesTyped ==
    /\ \A l \in Levels : /\ Len(limits[l]) \in Nat /\ Sized(limits[l])
                         /\ Len(stops[l]) \in Nat /\ Sized(stops[l])
                         /\ ChainSize(limits[l]) \in Nat
                         /\ ChainSize(stops[l]) \in Nat
                         /\ LevelSize(l) \in Nat
    /\ BookSize \in Nat
    /\ ChainSize(internal_queue) \in Nat
    /\ Len(internal_queue) \in Nat /\ Sized(internal_queue)
    /\ cur.sz \in Nat
    /\ total_volume \in Nat

\* All sizes of a typed state are numbers, ...
LEMMA SizesAreNat == TypeOK => SizesTyped
<1> SUFFICES ASSUME TypeOK PROVE SizesTyped
  OBVIOUS
<1>1. ASSUME NEW l \in Levels
      PROVE  /\ Len(limits[l]) \in Nat /\ Sized(limits[l])
             /\ Len(stops[l]) \in Nat /\ Sized(stops[l])
  <2>1. limits[l] \in Seq(LimitBndl) /\ stops[l] \in Seq(StopBndl)
    BY DEF TypeOK, BookTypeOK
  <2> QED
    BY <2>1, ChainIsSized, Zenon
<1>2. ASSUME NEW l \in Levels
      PROVE  /\ ChainSize(limits[l]) \in Nat /\ ChainSize(stops[l]) \in Nat
             /\ LevelSize(l) \in Nat
  <2>1. ChainSize(limits[l]) \in Nat /\ ChainSize(stops[l]) \in Nat
    BY <1>1, ChainSizeType, Zenon
  <2> QED
    BY <2>1 DEF LevelSize
<1>3. BookSize \in Nat
  <2> DEFINE f == [l \in Levels |-> LevelSize(l)]
  <2>1. \A k \in 1 .. MaxLevel : f[k] \in Nat
    BY <1>2, Zenon DEF Levels
  <2>2. MaxLevel \in Nat
    BY BookAssumption
  <2> HIDE DEF f
  <2>3. SumTo(f, MaxLevel) \in Nat
    BY <2>1, <2>2, SumType, Zenon
  <2> QED
    BY <2>3, Zenon DEF BookSize, f
<1>4. Len(internal_queue) \in Nat /\ Sized(internal_queue)
  <2>1. internal_queue \in Seq(QueueElem)
    BY DEF TypeOK, BookTypeOK
  <2> QED
    BY <2>1, ChainIsSized, Zenon
<1>5. ChainSize(internal_queue) \in Nat
  BY <1>4, ChainSizeType, Zenon
<1>6. cur.sz \in Nat /\ total_volume \in Nat
  BY DEF TypeOK, BookTypeOK, QueueElem
<1> QED
  BY <1>1, <1>2, <1>3, <1>4, <1>5, <1>6, Zenon DEF SizesTyped

\* ... also after a step.
LEMMA SizesAreNatAfter == TypeOK' => SizesTyped'
BY SizesAreNat, PTL

\* The book has the size it had when no chain changes.
LEMMA SameBook ==
    ASSUME limits' = limits, stops' = stops
    PROVE  BookSize' = BookSize
<1>1. \A l \in Levels : LevelSize(l)' = LevelSize(l)
  BY DEF LevelSize
<1> QED
  BY <1>1 DEF BookSize

\* When the chains of one level change, the size of the book changes by as
\* much as theirs ...
LEMMA OneLevelChanges ==
    ASSUME TypeOK, TypeOK', NEW p \in Levels,
           \A l \in Levels : l # p => limits'[l] = limits[l] /\ stops'[l] = stops[l]
    PROVE  BookSize' + (ChainSize(limits[p]) + ChainSize(stops[p])) =
               BookSize + (ChainSize(limits'[p]) + ChainSize(stops'[p]))
<1> DEFINE f == [l \in Levels |-> ChainSize(limits[l]) + ChainSize(stops[l])]
            g == [l \in Levels |-> ChainSize(limits'[l]) + ChainSize(stops'[l])]
<1>1. BookSize = SumTo(f, MaxLevel) /\ BookSize' = SumTo(g, MaxLevel)
  BY DEF BookSize, LevelSize
<1>2. \A l \in Levels : ChainSize(limits[l]) \in Nat /\ ChainSize(stops[l]) \in Nat
  BY SizesAreNat, Zenon DEF SizesTyped
<1>3. \A l \in Levels : ChainSize(limits'[l]) \in Nat /\ ChainSize(stops'[l]) \in Nat
  BY SizesAreNatAfter, Zenon DEF SizesTyped
<1>4. \A k \in 1 .. MaxLevel : f[k] \in Nat /\ g[k] \in Nat
  BY <1>2, <1>3 DEF Levels
<1>5. \A k \in 1 .. MaxLevel : k # p => g[k] = f[k]
  BY DEF Levels
<1>6. /\ f[p] = ChainSize(limits[p]) + ChainSize(stops[p])
      /\ g[p] = ChainSize(limits'[p]) + ChainSize(stops'[p])
  OBVIOUS
<1>7. MaxLevel \in Nat /\ p \in 1 .. MaxLevel
  BY BookAssumption DEF Levels
<1> HIDE DEF f, g
<1>8. SumTo(g, MaxLevel) + f[p] = SumTo(f, MaxLevel) + g[p]
  BY <1>4, <1>5, <1>7, SumChange
<1> QED
  BY <1>1, <1>6, <1>8

\* What the open size is made of.
LEMMA OpenSizeIs ==
    /\ OpenSize = BookSize + ChainSize(internal_queue) + cur.sz
    /\ OpenSize' = BookSize' + ChainSize(internal_queue') + cur'.sz
BY DEF OpenSize

\* ... told with the difference n.
LEMMA LevelMoves ==
    ASSUME TypeOK, TypeOK', NEW p \in Levels, NEW n \in Int,
           \A l \in Levels : l # p => limits'[l] = limits[l] /\ stops'[l] = stops[l],
           ChainSize(limits'[p]) + ChainSize(stops'[p]) =
               ChainSize(limits[p]) + ChainSize(stops[p]) + n
    PROVE  BookSize' = BookSize + n
<1>1. BookSize' + (ChainSize(limits[p]) + ChainSize(stops[p])) =
          BookSize + (ChainSize(limits'[p]) + ChainSize(stops'[p]))
  BY OneLevelChanges, Zenon
<1>2. /\ BookSize \in Nat /\ BookSize' \in Nat
      /\ ChainSize(limits[p]) \in Nat /\ ChainSize(stops[p]) \in Nat
  BY SizesAreNat, SizesAreNatAfter, Zenon DEF SizesTyped
<1> QED
  BY <1>1, <1>2

\* what a step of a window must satisfy
Conserved == OpenSize' + 2 * total_volume' = OpenSize + 2 * total_volume

\* A resting order that is filled takes its size from the chain and from cur.
LEMMA FillFrontConserves ==
    ASSUME IInv, TypeOK', FillFront
    PROVE  Conserved
<1>1. PICK p \in Levels : p = best[Opp(cur.side)]
  BY TradeHitsAChain DEF FillFront
<1>2. PICK n : n = Head(limits[p]).sz
  OBVIOUS
<1>3. limits[p] \in Seq(LimitBndl) /\ limits[p] # <<>>
  BY <1>1, TradeHitsAChain DEF FillFront
<1>4. /\ limits' = [limits EXCEPT ![p] = Tail(@)] /\ stops' = stops
      /\ internal_queue' = internal_queue
      /\ total_volume' = total_volume + n
      /\ cur' = [cur EXCEPT !.sz = @ - n]
  BY <1>1, <1>2 DEF FillFront, TradeHasOccured
<1>5. cur.sz \in Nat /\ cur'.sz = cur.sz - n
  BY <1>4 DEF IInv, TypeOK, BookTypeOK, QueueElem
<1>6. /\ limits'[p] = Tail(limits[p]) /\ stops'[p] = stops[p]
      /\ \A l \in Levels : l # p => limits'[l] = limits[l] /\ stops'[l] = stops[l]
  BY <1>4 DEF IInv, TypeOK, BookTypeOK
<1>7. Sized(limits[p])
  BY SizesAreNat DEF IInv, SizesTyped
<1>8. /\ ChainSize(limits[p]) = n + ChainSize(limits'[p])
      /\ n \in Nat /\ ChainSize(limits'[p]) \in Nat
  BY <1>2, <1>3, <1>6, <1>7, ChainSizeTail, Zenon
<1>9. ChainSize(stops[p]) \in Nat
  BY SizesAreNat, Zenon DEF IInv, SizesTyped
<1>10. BookSize' = BookSize + (0 - n)
  <2>1. ChainSize(limits'[p]) + ChainSize(stops'[p]) =
            ChainSize(limits[p]) + ChainSize(stops[p]) + (0 - n) /\ 0 - n \in Int
    BY <1>6, <1>8, <1>9
  <2> QED
    BY <1>6, <2>1, LevelMoves, Zenon DEF IInv
<1>11. /\ BookSize \in Nat /\ total_volume \in Nat
       /\ ChainSize(internal_queue) \in Nat
  BY SizesAreNat, Zenon DEF IInv, SizesTyped
<1>12. ChainSize(internal_queue') = ChainSize(internal_queue)
  BY <1>4, Zenon
<1> QED
  BY <1>4, <1>5, <1>8, <1>10, <1>11, <1>12, OpenSizeIs DEF Conserved

\* What is left of cur comes off the front order too.
LEMMA FillPartConserves ==
    ASSUME IInv, TypeOK', FillPartOfFront
    PROVE  Conserved
<1>1. PICK p \in Levels : p = best[Opp(cur.side)]
  BY TradeHitsAChain DEF FillPartOfFront
<1>2. PICK n : n = cur.sz
  OBVIOUS
<1>3. limits[p] \in Seq(LimitBndl) /\ limits[p] # <<>> /\ Head(limits[p]) \in LimitBndl
  BY <1>1, TradeHitsAChain DEF FillPartOfFront
<1>4. /\ limits' = [limits EXCEPT ![p][1].sz = @ - n] /\ stops' = stops
      /\ internal_queue' = internal_queue
      /\ total_volume' = total_volume + n
      /\ cur' = [cur EXCEPT !.sz = @ - n]
  BY <1>1, <1>2 DEF FillPartOfFront, TradeHasOccured
<1>5. n \in Nat /\ cur'.sz = 0
  BY <1>2, <1>4 DEF IInv, TypeOK, BookTypeOK, QueueElem
<1>6. /\ limits'[p] = [limits[p] EXCEPT ![1].sz = @ - n] /\ stops'[p] = stops[p]
      /\ \A l \in Levels : l # p => limits'[l] = limits[l] /\ stops'[l] = stops[l]
  BY <1>4 DEF IInv, TypeOK, BookTypeOK
<1>7. limits'[p] \in Seq(LimitBndl)
  BY DEF TypeOK, BookTypeOK
<1>8. /\ Len(limits'[p]) = Len(limits[p])
      /\ \A i \in 2 .. Len(limits[p]) : limits'[p][i] = limits[p][i]
      /\ Head(limits[p]) = limits[p][1]
      /\ Head(limits'[p]) = limits'[p][1]
      /\ limits'[p][1] = [limits[p][1] EXCEPT !.sz = @ - n]
  BY <1>3, <1>6, <1>7
<1>9. Head(limits[p]).sz \in Nat /\ Head(limits'[p]).sz = Head(limits[p]).sz - n
  BY <1>3, <1>8 DEF LimitBndl
<1>10. Sized(limits[p]) /\ Sized(limits'[p])
  BY SizesAreNat, SizesAreNatAfter, Zenon DEF IInv, SizesTyped
<1>11. ChainSize(limits'[p]) + Head(limits[p]).sz =
           ChainSize(limits[p]) + Head(limits'[p]).sz
  <2>1. PICK c : c = limits[p]
    OBVIOUS
  <2>2. PICK d : d = limits'[p]
    OBVIOUS
  <2>3. /\ c \in Seq(LimitBndl) /\ d \in Seq(LimitBndl) /\ c # <<>>
        /\ Sized(c) /\ Sized(d) /\ Len(d) = Len(c)
        /\ \A i \in 2 .. Len(c) : d[i] = c[i]
    BY <1>3, <1>7, <1>8, <1>10, <2>1, <2>2, Zenon
  <2>4. ChainSize(d) + Head(c).sz = ChainSize(c) + Head(d).sz
    BY <2>3, ChainSizeFront, Zenon
  <2> QED
    BY <2>1, <2>2, <2>4, Zenon
<1>12. /\ BookSize \in Nat /\ total_volume \in Nat
       /\ ChainSize(internal_queue) \in Nat /\ ChainSize(stops[p]) \in Nat
       /\ ChainSize(limits[p]) \in Nat /\ ChainSize(limits'[p]) \in Nat
  BY SizesAreNat, SizesAreNatAfter, Zenon DEF IInv, SizesTyped
<1>13. BookSize' = BookSize + (0 - n)
  <2>1. ChainSize(limits'[p]) + ChainSize(stops'[p]) =
            ChainSize(limits[p]) + ChainSize(stops[p]) + (0 - n) /\ 0 - n \in Int
    BY <1>5, <1>6, <1>9, <1>11, <1>12
  <2> QED
    BY <1>6, <2>1, LevelMoves, Zenon DEF IInv
<1>14. ChainSize(internal_queue') = ChainSize(internal_queue)
  BY <1>4, Zenon
<1> QED
  BY <1>2, <1>4, <1>5, <1>12, <1>13, <1>14, OpenSizeIs DEF Conserved

\* An order that joins a chain leaves the open size as it was: its size
\* moves from cur to the chain.
LEMMA InsertStopConserves ==
    ASSUME IInv, TypeOK', InsertStop
    PROVE  Conserved
<1>1. PICK p \in Levels : p = cur.stop
  <2>1. cur.stop \in Book
    BY DEF IInv, PricesInBook, InsertStop
  <2>2. beg \in Levels /\ end \in 2 .. MaxLevel + 1
    BY DEF IInv, TypeOK, BookTypeOK
  <2>3. cur.stop \in Levels
    BY <2>1, <2>2, BookAssumption DEF Book, Levels
  <2> QED
    BY <2>3
<1>2. PICK x : x = [id |-> cur.id, sz |-> cur.sz, side |-> cur.side, limit |-> cur.limit]
  OBVIOUS
<1>3. /\ stops' = [stops EXCEPT ![p] = Append(@, x)] /\ limits' = limits
      /\ internal_queue' = internal_queue /\ total_volume' = total_volume
      /\ cur' = NoOrder
  BY <1>1, <1>2 DEF InsertStop, ChainEmplace
<1>4. /\ stops'[p] = Append(stops[p], x) /\ limits'[p] = limits[p]
      /\ \A l \in Levels : l # p => limits'[l] = limits[l] /\ stops'[l] = stops[l]
  BY <1>3 DEF IInv, TypeOK, BookTypeOK
<1>5. x \in StopBndl /\ x.sz = cur.sz /\ stops[p] \in Seq(StopBndl) /\ x.sz \in Nat
  <2>1. cur \in QueueElem /\ cur.sz > 0 /\ stops[p] \in Seq(StopBndl)
    BY DEF IInv, TypeOK, BookTypeOK, ControlState, InsertStop
  <2>2. /\ cur.id \in Nat /\ cur.sz \in Nat \ {0} /\ cur.side \in Sides
        /\ cur.limit \in 0 .. MaxLevel
    BY <2>1 DEF QueueElem
  <2>3. x \in StopBndl /\ x.sz = cur.sz
    BY <1>2, <2>2 DEF StopBndl
  <2> QED
    BY <2>1, <2>2, <2>3
<1>6. /\ BookSize \in Nat /\ total_volume \in Nat /\ cur.sz \in Nat
      /\ ChainSize(internal_queue) \in Nat /\ ChainSize(stops[p]) \in Nat
      /\ ChainSize(limits[p]) \in Nat /\ Sized(stops[p])
  BY SizesAreNat, Zenon DEF IInv, SizesTyped
<1>7. ChainSize(stops'[p]) = ChainSize(stops[p]) + x.sz
  BY <1>4, <1>5, <1>6, ChainSizeAppend, Zenon
<1>8. BookSize' = BookSize + x.sz
  <2>1. ChainSize(limits'[p]) + ChainSize(stops'[p]) =
            ChainSize(limits[p]) + ChainSize(stops[p]) + x.sz /\ x.sz \in Int
    BY <1>4, <1>5, <1>6, <1>7
  <2> QED
    BY <1>4, <2>1, LevelMoves, Zenon DEF IInv
<1>9. ChainSize(internal_queue') = ChainSize(internal_queue) /\ cur'.sz = 0
  BY <1>3 DEF NoOrder
<1> QED
  BY <1>3, <1>5, <1>6, <1>8, <1>9, OpenSizeIs DEF Conserved

\* The same for the rest of a limit order.
LEMMA RestLimitConserves ==
    ASSUME IInv, TypeOK', RestLimit
    PROVE  Conserved
<1>1. PICK p \in Levels : p = cur.limit
  <2>1. cur.limit \in Book
    BY DEF IInv, PricesInBook, RestLimit
  <2>2. beg \in 1 .. MaxLevel /\ end \in 2 .. MaxLevel + 1 /\ MaxLevel \in Nat
    BY BookAssumption DEF IInv, TypeOK, BookTypeOK, Levels
  <2>3. cur.limit \in Levels
    BY <2>1, <2>2 DEF Book, Levels
  <2> QED
    BY <2>3, Zenon
<1>2. PICK x : x = [id |-> cur.id, sz |-> cur.sz, side |-> cur.side]
  OBVIOUS
<1>3. /\ limits' = [limits EXCEPT ![p] = Append(@, x)] /\ stops' = stops
      /\ internal_queue' = internal_queue /\ total_volume' = total_volume
      /\ cur' = NoOrder
  BY <1>1, <1>2 DEF RestLimit, ChainEmplace
<1>4. /\ limits'[p] = Append(limits[p], x) /\ stops'[p] = stops[p]
      /\ \A l \in Levels : l # p => limits'[l] = limits[l] /\ stops'[l] = stops[l]
  BY <1>3 DEF IInv, TypeOK, BookTypeOK
<1>5. x \in LimitBndl /\ x.sz = cur.sz /\ limits[p] \in Seq(LimitBndl) /\ x.sz \in Nat
  <2>1. cur \in QueueElem /\ cur.sz > 0 /\ limits[p] \in Seq(LimitBndl)
    BY DEF IInv, TypeOK, BookTypeOK, RestLimit
  <2>2. cur.id \in Nat /\ cur.sz \in Nat \ {0} /\ cur.side \in Sides
    BY <2>1 DEF QueueElem
  <2>3. x \in LimitBndl /\ x.sz = cur.sz
    BY <1>2, <2>2 DEF LimitBndl
  <2> QED
    BY <2>1, <2>2, <2>3
<1>6. /\ BookSize \in Nat /\ total_volume \in Nat /\ cur.sz \in Nat
      /\ ChainSize(internal_queue) \in Nat /\ ChainSize(stops[p]) \in Nat
      /\ ChainSize(limits[p]) \in Nat /\ Sized(limits[p])
  BY SizesAreNat, Zenon DEF IInv, SizesTyped
<1>7. ChainSize(limits'[p]) = ChainSize(limits[p]) + x.sz
  BY <1>4, <1>5, <1>6, ChainSizeAppend, Zenon
<1>8. BookSize' = BookSize + x.sz
  <2>1. ChainSize(limits'[p]) + ChainSize(stops'[p]) =
            ChainSize(limits[p]) + ChainSize(stops[p]) + x.sz /\ x.sz \in Int
    BY <1>4, <1>5, <1>6, <1>7
  <2> QED
    BY <1>4, <2>1, LevelMoves, Zenon DEF IInv
<1>9. ChainSize(internal_queue') = ChainSize(internal_queue) /\ cur'.sz = 0
  BY <1>3 DEF NoOrder
<1> QED
  BY <1>3, <1>5, <1>6, <1>8, <1>9, OpenSizeIs DEF Conserved

\* A triggered chain leaves the book as a whole and joins the queue with
\* the sizes it has.
LEMMA ScanConserves ==
    ASSUME IInv, TypeOK', NEW s \in Sides, NEW at,
           \/ s = "buy" /\ at = "scan_buy"
           \/ s = "sell" /\ at = "scan_sell",
           Scan(s, at)
    PROVE  Conserved
<1>1. PICK p \in Levels : p = scan
  BY ScanInLevels DEF Scan
<1>2. PICK q : q = [i \in 1 .. Len(stops[p]) |-> TriggeredOrder(stops[p][i], last_id + i)]
  OBVIOUS
<1>3. /\ stops' = [stops EXCEPT ![p] = <<>>] /\ limits' = limits
      /\ internal_queue' = internal_queue \o q
      /\ total_volume' = total_volume /\ cur' = cur
  BY <1>1, <1>2 DEF Scan, HandleTriggeredStopChain
<1>4. /\ stops'[p] = <<>> /\ limits'[p] = limits[p]
      /\ \A l \in Levels : l # p => limits'[l] = limits[l] /\ stops'[l] = stops[l]
  BY <1>3 DEF IInv, TypeOK, BookTypeOK
<1>5. /\ BookSize \in Nat /\ total_volume \in Nat /\ cur.sz \in Nat
      /\ ChainSize(internal_queue) \in Nat /\ ChainSize(stops[p]) \in Nat
      /\ ChainSize(limits[p]) \in Nat /\ Sized(stops[p]) /\ Len(stops[p]) \in Nat
      /\ Sized(internal_queue)
  BY SizesAreNat, Zenon DEF IInv, SizesTyped
<1>6. /\ Len(q) = Len(stops[p]) /\ q \in Seq(QueueElem)
      /\ \A i \in 1 .. Len(stops[p]) : q[i].sz = stops[p][i].sz
  <2>1. q \in Seq(QueueElem)
    BY <1>2, TriggeredType, Zenon
  <2>2. Len(q) = Len(stops[p])
    BY <1>2, <1>5
  <2>3. ASSUME NEW i \in 1 .. Len(stops[p])
        PROVE  q[i].sz = stops[p][i].sz
    BY <1>2 DEF TriggeredOrder
  <2> QED
    BY <2>1, <2>2, <2>3
<1>7. Sized(q) /\ ChainSize(q) = ChainSize(stops[p])
  <2>1. Sized(q)
    BY <1>5, <1>6 DEF Sized
  <2>2. ChainSize(q) = ChainSize(stops[p])
    BY <1>5, <1>6, ChainSizeSame, Zenon
  <2> QED
    BY <2>1, <2>2
<1>8. ChainSize(internal_queue') = ChainSize(internal_queue) + ChainSize(q)
  <2> DEFINE e == internal_queue \o q
  <2>1. internal_queue \in Seq(QueueElem)
    BY DEF IInv, TypeOK, BookTypeOK
  <2>2. /\ Len(e) = Len(internal_queue) + Len(q)
        /\ Len(internal_queue) \in Nat /\ Len(q) \in Nat
        /\ \A i \in 1 .. Len(internal_queue) : e[i] = internal_queue[i]
        /\ \A i \in 1 .. Len(q) : e[Len(internal_queue) + i] = q[i]
    <3>1. /\ e \in Seq(QueueElem) /\ Len(e) = Len(internal_queue) + Len(q)
          /\ \A i \in 1 .. Len(e) :
                 e[i] = IF i <= Len(internal_queue) THEN internal_queue[i]
                        ELSE q[i - Len(internal_queue)]
      <4>1. e \in Seq(QueueElem) /\ Len(e) = Len(internal_queue) + Len(q)
        BY <1>6, <2>1, ConcatProperties
      <4>2. \A i \in 1 .. Len(internal_queue) + Len(q) :
                 (internal_queue \o q)[i] =
                     IF i <= Len(internal_queue) THEN internal_queue[i]
                     ELSE q[i - Len(internal_queue)]
        BY <1>6, <2>1, ConcatProperties, Zenon
      <4> QED
        BY <4>1, <4>2, Zenon
    <3>2. Len(internal_queue) \in Nat /\ Len(q) \in Nat
      BY <1>5, <1>6, <2>1, LenProperties
    <3> HIDE DEF e
    <3>3. \A i \in 1 .. Len(internal_queue) : e[i] = internal_queue[i]
      BY <3>1, <3>2
    <3>4. \A i \in 1 .. Len(q) : e[Len(internal_queue) + i] = q[i]
      BY <3>1, <3>2
    <3> QED
      BY <3>1, <3>2, <3>3, <3>4
  <2> HIDE DEF e
  <2>3. ChainSize(e) = ChainSize(internal_queue) + ChainSize(q)
    BY <1>5, <1>7, <2>2, ChainSizeJoined
  <2> QED
    BY <1>3, <2>3 DEF e
<1>9. BookSize' = BookSize + (0 - ChainSize(stops[p]))
  <2>1. ChainSize(stops'[p]) = 0
    BY <1>4, ChainSizeEmpty
  <2>2. /\ ChainSize(limits'[p]) + ChainSize(stops'[p]) =
              ChainSize(limits[p]) + ChainSize(stops[p]) + (0 - ChainSize(stops[p]))
        /\ 0 - ChainSize(stops[p]) \in Int
    BY <1>4, <1>5, <2>1
  <2> QED
    BY <1>4, <2>2, LevelMoves, Zenon DEF IInv
<1> QED
  BY <1>3, <1>5, <1>7, <1>8, <1>9, OpenSizeIs DEF Conserved

\* The head of the internal queue becomes cur.
LEMMA NextInternalConserves ==
    ASSUME IInv, NextInternal
    PROVE  Conserved
<1>1. /\ cur' = Head(internal_queue) /\ internal_queue' = Tail(internal_queue)
      /\ internal_queue # <<>> /\ internal_queue \in Seq(QueueElem)
      /\ limits' = limits /\ stops' = stops /\ total_volume' = total_volume
      /\ cur.sz = 0
  BY DEF NextInternal, IInv, TypeOK, BookTypeOK, ControlState, NoOrder, book
<1>2. BookSize \in Nat /\ total_volume \in Nat /\ Sized(internal_queue)
  BY SizesAreNat, Zenon DEF IInv, SizesTyped
<1>3. /\ ChainSize(internal_queue) = cur'.sz + ChainSize(internal_queue')
      /\ cur'.sz \in Nat /\ ChainSize(internal_queue') \in Nat
  BY <1>1, <1>2, ChainSizeTail, Zenon
<1>4. BookSize' = BookSize
  BY <1>1, SameBook
<1> QED
  BY <1>1, <1>2, <1>3, <1>4, OpenSizeIs DEF Conserved

\* The other steps of a window move no order and trade nothing.
LEMMA OthersConserve ==
    ASSUME RouteLimit \/ RouteMarket \/ EndTrade \/ EndBuyScan \/ EndSellScan
               \/ Filled \/ CloseWindow \/ UNCHANGED vars
    PROVE  Conserved
<1>1. /\ limits' = limits /\ stops' = stops /\ internal_queue' = internal_queue
      /\ total_volume' = total_volume /\ cur'.sz = cur.sz
  BY DEF RouteLimit, RouteMarket, EndTrade, EndBuyScan, EndSellScan, Filled,
         CloseWindow, NoOrder, book, vars
<1>2. BookSize' = BookSize
  BY <1>1, SameBook
<1>3. ChainSize(internal_queue') = ChainSize(internal_queue)
  BY <1>1, Zenon
<1> QED
  BY <1>1, <1>2, <1>3, OpenSizeIs DEF Conserved

\* No size is made or lost inside a window, only dropped by the liquidity
\* exception.
THEOREM SizeIsConserved == Spec => WindowConservesSize
<1>1. ASSUME IInv, [Next]_vars, pc # "idle", ~ (pc = "settle" /\ pc' = "idle")
      PROVE  Conserved
  <2>1. TypeOK'
    BY <1>1, TypeStep
  <2>2. ~ Client
    BY <1>1 DEF Client, InsertOrder, PullOrder, ReplaceOrder, GrowBookAbove,
                GrowBookBelow
  <2>3. ~ ThrowLiquidity
    BY <1>1 DEF ThrowLiquidity
  <2>4. CASE FillFront
    BY <1>1, <2>1, <2>4, FillFrontConserves
  <2>5. CASE FillPartOfFront
    BY <1>1, <2>1, <2>5, FillPartConserves
  <2>6. CASE InsertStop
    BY <1>1, <2>1, <2>6, InsertStopConserves
  <2>7. CASE RestLimit
    BY <1>1, <2>1, <2>7, RestLimitConserves
  <2>8. CASE ScanBuyStops
    BY <1>1, <2>1, <2>8, ScanConserves DEF ScanBuyStops, Sides
  <2>9. CASE ScanSellStops
    BY <1>1, <2>1, <2>9, ScanConserves DEF ScanSellStops, Sides
  <2>10. CASE NextInternal
    BY <1>1, <2>10, NextInternalConserves
  <2>11. CASE RouteLimit \/ RouteMarket \/ EndTrade \/ EndBuyScan \/ EndSellScan
                  \/ Filled \/ CloseWindow \/ UNCHANGED vars
    BY <2>11, OthersConserve
  <2> QED
    BY <1>1, <2>2, <2>3, <2>4, <2>5, <2>6, <2>7, <2>8, <2>9, <2>10, <2>11
       DEF Next, Window
<1>2. IInv /\ [Next]_vars =>
          [pc # "idle" /\ ~ (pc = "settle" /\ pc' = "idle") =>
               OpenSize' + 2 * total_volume' = OpenSize + 2 * total_volume]_vars
  BY <1>1 DEF Conserved
<1> QED
  BY <1>2, InductiveInvariant, PTL DEF Spec, WindowConservesSize

-----------------------------------------------------------------------------
(* A window comes to an end.  A triggered stop order becomes an order that  *)
(* trades, and its trade may trigger the next; the code sets no bound on    *)
(* such a cascade.  What bounds it is a measure that every step of a window *)
(* makes smaller.                                                           *)

\* stop orders that may still trigger: those on the chains, and the one
\* that is on its way to a chain
StopsLeft == SumTo([l \in Levels |-> Len(stops[l])], MaxLevel)
                 + (IF cur.type = "stop" THEN 1 ELSE 0)

\* how far the execution of cur is from its end
Place == IF pc = "route" THEN 6
         ELSE IF pc = "trade" THEN 5
         ELSE IF pc = "scan_buy" THEN 4
         ELSE IF pc = "scan_sell" THEN 3
         ELSE IF pc = "settle" THEN 2
         ELSE IF pc = "drain" THEN 1
         ELSE 0

\* and how far the loop at that place is from its end
Left == IF pc = "trade" THEN cur.sz
        ELSE IF pc = "scan_buy" THEN MaxLevel + 1 - scan
        ELSE IF pc = "scan_sell" THEN scan
        ELSE 0

Measure == <<<<StopsLeft, Len(internal_queue)>>, <<Place, Left>>>>

\* pairs of numbers, and pairs of these, in lexicographic order
Less == OpToRel(<, Nat)
LessPair == LexPairOrdering(Less, Less, Nat, Nat)
Smaller == LexPairOrdering(LessPair, LessPair, Nat \X Nat, Nat \X Nat)

\* The order has no infinite descending chain.
LEMMA SmallerIsWellFounded == IsWellFoundedOn(Smaller, (Nat \X Nat) \X (Nat \X Nat))
<1>1. IsWellFoundedOn(Less, Nat)
  BY NatLessThanWellFounded DEF Less
<1>2. IsWellFoundedOn(LessPair, Nat \X Nat)
  BY <1>1, WFLexPairOrdering DEF LessPair
<1> QED
  BY <1>2, WFLexPairOrdering DEF Smaller

\* a b c d comes before e f g h, told number by number
Before(a, b, c, d, e, f, g, h) ==
    \/ a < e
    \/ a = e /\ b < f
    \/ a = e /\ b = f /\ c < g
    \/ a = e /\ b = f /\ c = g /\ d < h

\* When one measure is below another.
LEMMA SmallerIs ==
    ASSUME NEW a \in Nat, NEW b \in Nat, NEW c \in Nat, NEW d \in Nat,
           NEW e \in Nat, NEW f \in Nat, NEW g \in Nat, NEW h \in Nat,
           Before(a, b, c, d, e, f, g, h)
    PROVE  <<<<<<a, b>>, <<c, d>>>>, <<<<e, f>>, <<g, h>>>>>> \in Smaller
<1>1. ASSUME NEW x \in Nat, NEW y \in Nat
      PROVE  <<x, y>> \in Less <=> x < y
  BY DEF Less, OpToRel
<1>2. ASSUME NEW u \in Nat, NEW v \in Nat, NEW x \in Nat, NEW y \in Nat,
             u < x \/ (u = x /\ v < y)
      PROVE  <<<<u, v>>, <<x, y>>>> \in LessPair
  <2>1. <<u, x>> \in Less \/ (u = x /\ <<v, y>> \in Less)
    BY <1>1, <1>2
  <2>2. <<u, v>> \in Nat \X Nat /\ <<x, y>> \in Nat \X Nat
    OBVIOUS
  <2> HIDE DEF Less
  <2> QED
    BY <2>1, <2>2 DEF LessPair, LexPairOrdering
<1>3. <<<<a, b>>, <<e, f>>>> \in LessPair
         \/ (<<a, b>> = <<e, f>> /\ <<<<c, d>>, <<g, h>>>> \in LessPair)
  BY <1>2 DEF Before
<1>4. /\ <<<<a, b>>, <<c, d>>>> \in (Nat \X Nat) \X (Nat \X Nat)
      /\ <<<<e, f>>, <<g, h>>>> \in (Nat \X Nat) \X (Nat \X Nat)
  OBVIOUS
<1> HIDE DEF LessPair
<1> QED
  BY <1>3, <1>4 DEF Smaller, LexPairOrdering

\* The numbers of the measure are numbers.
LEMMA MeasureType ==
    ASSUME TypeOK
    PROVE  /\ StopsLeft \in Nat /\ Len(internal_queue) \in Nat
           /\ Place \in Nat /\ Left \in Nat
           /\ \A l \in Levels : Len(stops[l]) \in Nat
<1>1. \A l \in Levels : Len(stops[l]) \in Nat
  BY LenProperties, Zenon DEF TypeOK, BookTypeOK
<1>2. Len(internal_queue) \in Nat
  BY LenProperties DEF TypeOK, BookTypeOK
<1>3. StopsLeft \in Nat
  <2> DEFINE f == [l \in Levels |-> Len(stops[l])]
  <2>1. MaxLevel \in Nat /\ \A l \in 1 .. MaxLevel : f[l] \in Nat
    BY <1>1, BookAssumption DEF Levels
  <2> HIDE DEF f
  <2>2. SumTo(f, MaxLevel) \in Nat
    BY <2>1, SumType
  <2> QED
    BY <2>2 DEF StopsLeft, f
<1>4. Place \in Nat
  BY DEF Place
<1>5. Left \in Nat
  <2>1. cur.sz \in Nat
    BY DEF TypeOK, BookTypeOK, QueueElem
  <2>2. scan \in 0 .. MaxLevel + 1 /\ MaxLevel \in Nat
    BY BookAssumption DEF TypeOK, BookTypeOK, Pointers
  <2> QED
    BY <2>1, <2>2 DEF Left
<1> QED
  BY <1>1, <1>2, <1>3, <1>4, <1>5

\* And so they are after a step.
LEMMA MeasureTypeAfter ==
    TypeOK' => (/\ StopsLeft \in Nat /\ Len(internal_queue) \in Nat
                /\ Place \in Nat /\ Left \in Nat
                /\ \A l \in Levels : Len(stops[l]) \in Nat)'
<1>1. TypeOK => (/\ StopsLeft \in Nat /\ Len(internal_queue) \in Nat
                 /\ Place \in Nat /\ Left \in Nat
                 /\ \A l \in Levels : Len(stops[l]) \in Nat)
  BY MeasureType
<1> QED
  BY <1>1, PTL

\* what a step of a window must do to the measure
RunsDown == <<Measure', Measure>> \in Smaller

\* RunsDown, told number by number.
LEMMA RunsDownIs ==
    ASSUME TypeOK, TypeOK',
           \/ StopsLeft' < StopsLeft
           \/ StopsLeft' = StopsLeft /\ Len(internal_queue') < Len(internal_queue)
           \/ /\ StopsLeft' = StopsLeft
              /\ Len(internal_queue') = Len(internal_queue) /\ Place' < Place
           \/ /\ StopsLeft' = StopsLeft
              /\ Len(internal_queue') = Len(internal_queue) /\ Place' = Place
              /\ Left' < Left
    PROVE  RunsDown
<1>1. /\ StopsLeft \in Nat /\ Len(internal_queue) \in Nat
      /\ Place \in Nat /\ Left \in Nat
  BY MeasureType
<1>2. /\ StopsLeft' \in Nat /\ Len(internal_queue') \in Nat
      /\ Place' \in Nat /\ Left' \in Nat
  BY MeasureTypeAfter
<1>3. PICK a, b, c, d \in Nat :
          a = StopsLeft' /\ b = Len(internal_queue') /\ c = Place' /\ d = Left'
  BY <1>2
<1>4. PICK e, f, g, h \in Nat :
          e = StopsLeft /\ f = Len(internal_queue) /\ g = Place /\ h = Left
  BY <1>1
<1>5. <<<<<<a, b>>, <<c, d>>>>, <<<<e, f>>, <<g, h>>>>>> \in Smaller
  <2>1. Before(a, b, c, d, e, f, g, h)
    BY <1>3, <1>4 DEF Before
  <2> QED
    BY <2>1, SmallerIs
<1>6. Measure = <<<<e, f>>, <<g, h>>>> /\ Measure' = <<<<a, b>>, <<c, d>>>>
  BY <1>3, <1>4, Zenon DEF Measure
<1> QED
  BY <1>5, <1>6, Zenon DEF RunsDown

\* With the same stop chains, as many stop orders are left as cur says.
LEMMA SameStops ==
    ASSUME stops' = stops, cur'.type = "stop" <=> cur.type = "stop"
    PROVE  StopsLeft' = StopsLeft
BY DEF StopsLeft, Levels

\* When one stop chain changes, so does what is left.
LEMMA StopsMove ==
    ASSUME TypeOK, TypeOK', NEW p \in Levels,
           \A l \in Levels : l # p => stops'[l] = stops[l]
    PROVE  StopsLeft' + Len(stops[p]) + (IF cur.type = "stop" THEN 1 ELSE 0) =
           StopsLeft + Len(stops'[p]) + (IF cur'.type = "stop" THEN 1 ELSE 0)
<1> DEFINE f == [l \in Levels |-> Len(stops[l])]
           g == [l \in Levels |-> Len(stops'[l])]
<1>1. MaxLevel \in Nat /\ p \in 1 .. MaxLevel
  BY BookAssumption DEF Levels
<1>2. \A l \in Levels : Len(stops[l]) \in Nat
  BY MeasureType
<1>4. \A l \in Levels : Len(stops'[l]) \in Nat
  BY MeasureTypeAfter DEF Levels
<1>5. \A l \in 1 .. MaxLevel : f[l] \in Nat /\ g[l] \in Nat
  BY <1>2, <1>4 DEF Levels
<1>6. \A l \in 1 .. MaxLevel : l # p => g[l] = f[l]
  BY DEF Levels
<1>7. f[p] = Len(stops[p]) /\ g[p] = Len(stops'[p])
  OBVIOUS
<1>8. /\ StopsLeft = SumTo(f, MaxLevel) + (IF cur.type = "stop" THEN 1 ELSE 0)
      /\ StopsLeft' = SumTo(g, MaxLevel) + (IF cur'.type = "stop" THEN 1 ELSE 0)
  BY DEF StopsLeft
<1> HIDE DEF f, g
<1>9. /\ SumTo(f, MaxLevel) \in Nat /\ SumTo(g, MaxLevel) \in Nat
      /\ SumTo(g, MaxLevel) + f[p] = SumTo(f, MaxLevel) + g[p]
  BY <1>1, <1>5, <1>6, SumChange
<1>10. PICK a, b \in Nat : a = SumTo(f, MaxLevel) /\ b = SumTo(g, MaxLevel)
  BY <1>9
<1>11. PICK m, n \in Nat : m = Len(stops[p]) /\ n = Len(stops'[p])
  BY <1>2, <1>4
<1>12. PICK x, y \in Nat : /\ x = IF cur.type = "stop" THEN 1 ELSE 0
                          /\ y = IF cur'.type = "stop" THEN 1 ELSE 0
  OBVIOUS
<1>13. b + m = a + n
  BY <1>7, <1>9, <1>10, <1>11
<1>14. StopsLeft = a + x /\ StopsLeft' = b + y
  BY <1>8, <1>10, <1>12
<1>15. (b + y) + m + x = (a + x) + n + y
  BY <1>13
<1> QED
  BY <1>11, <1>12, <1>14, <1>15, Zenon

\* A filled order makes what is left of cur smaller.
LEMMA FillRunsDown ==
    ASSUME IInv, TypeOK', FillFront \/ FillPartOfFront
    PROVE  RunsDown
<1>1. /\ pc = "trade" /\ KeepsTrading(cur)
      /\ pc' = pc /\ stops' = stops /\ internal_queue' = internal_queue
  BY DEF FillFront, FillPartOfFront
<1>2. cur \in QueueElem /\ cur.sz \in Nat /\ cur.sz > 0
  BY <1>1 DEF IInv, TypeOK, BookTypeOK, QueueElem, KeepsTrading
<1>3. PICK n \in Nat : n > 0 /\ n <= cur.sz /\ cur' = [cur EXCEPT !.sz = @ - n]
  <2>1. Head(limits[best[Opp(cur.side)]]).sz \in Nat \ {0}
    BY <1>1, TradeHitsAChain DEF LimitBndl
  <2>2. CASE FillFront
    BY <2>1, <2>2 DEF FillFront, TradeHasOccured
  <2>3. CASE FillPartOfFront
    BY <1>2, <2>3 DEF FillPartOfFront, TradeHasOccured
  <2> QED
    BY <2>2, <2>3
<1>4. cur'.sz = cur.sz - n /\ cur'.type = cur.type
  BY <1>2, <1>3 DEF QueueElem
<1>5. StopsLeft' = StopsLeft
  BY <1>1, <1>4, SameStops
<1>6. Place' = Place /\ Left' = cur.sz - n /\ Left = cur.sz
  BY <1>1, <1>4 DEF Place, Left
<1> QED
  BY <1>1, <1>2, <1>3, <1>5, <1>6, RunsDownIs DEF IInv

\* A level that the loop over the stops visits loses its chain, or has none
\* and brings the loop nearer its end.
LEMMA ScanRunsDown ==
    ASSUME IInv, TypeOK', NEW s \in Sides, NEW at,
           \/ s = "buy" /\ at = "scan_buy"
           \/ s = "sell" /\ at = "scan_sell",
           Scan(s, at)
    PROVE  RunsDown
<1>1. PICK p \in Levels : p = scan
  BY ScanInLevels DEF Scan
<1>2. PICK q : q = [i \in 1 .. Len(stops[p]) |-> TriggeredOrder(stops[p][i], last_id + i)]
  OBVIOUS
<1>3. /\ stops' = [stops EXCEPT ![p] = <<>>]
      /\ internal_queue' = internal_queue \o q
      /\ cur' = cur /\ pc = at /\ pc' = pc /\ scan' = Inc(s, p)
  BY <1>1, <1>2 DEF Scan, HandleTriggeredStopChain
<1>4. /\ stops'[p] = <<>>
      /\ \A l \in Levels : l # p => stops'[l] = stops[l]
  BY <1>3 DEF IInv, TypeOK, BookTypeOK
<1>5. /\ Len(stops[p]) \in Nat /\ StopsLeft \in Nat /\ Len(stops'[p]) = 0
  BY <1>4, MeasureType DEF IInv
<1>6. StopsLeft' \in Nat
  BY MeasureTypeAfter
<1>7. StopsLeft' + Len(stops[p]) = StopsLeft
  <2>1. StopsLeft' + Len(stops[p]) + (IF cur.type = "stop" THEN 1 ELSE 0) =
        StopsLeft + Len(stops'[p]) + (IF cur'.type = "stop" THEN 1 ELSE 0)
    BY <1>4, StopsMove DEF IInv
  <2>2. PICK a, b, m \in Nat : a = StopsLeft' /\ b = StopsLeft /\ m = Len(stops[p])
    BY <1>5, <1>6
  <2>3. PICK x \in Nat : x = IF cur.type = "stop" THEN 1 ELSE 0
    OBVIOUS
  <2>4. a + m + x = b + 0 + x
    <3>1. x = IF cur'.type = "stop" THEN 1 ELSE 0
      BY <1>3, <2>3, Zenon
    <3>2. StopsLeft' + Len(stops[p]) + x = StopsLeft + Len(stops'[p]) + x
      BY <2>1, <2>3, <3>1, Zenon
    <3> QED
      BY <1>5, <2>2, <3>2, Zenon
  <2>5. a + m = b
    BY <2>4
  <2> QED
    BY <2>2, <2>5
<1>8. CASE Len(stops[p]) > 0
  <2>1. PICK a, b, m \in Nat : a = StopsLeft' /\ b = StopsLeft /\ m = Len(stops[p])
    BY <1>5, <1>6
  <2>2. a + m = b /\ m > 0
    BY <1>7, <1>8, <2>1
  <2>3. a < b
    BY <2>2
  <2> QED
    BY <2>1, <2>3, RunsDownIs DEF IInv
<1>9. CASE Len(stops[p]) = 0
  <2>1. Len(internal_queue') = Len(internal_queue)
    <3>1. q \in Seq(QueueElem) /\ Len(q) = 0
      <4>1. q \in Seq(QueueElem)
        BY <1>1, <1>2, TriggeredType, Zenon DEF IInv
      <4> QED
        BY <1>2, <1>9, <4>1
    <3>2. internal_queue \in Seq(QueueElem)
      BY DEF IInv, TypeOK, BookTypeOK
    <3>3. Len(internal_queue \o q) = Len(internal_queue) + Len(q)
      BY <3>1, <3>2, ConcatProperties, Zenon
    <3>4. Len(internal_queue) \in Nat
      BY <3>2
    <3> QED
      BY <1>3, <3>1, <3>3, <3>4
  <2>2. StopsLeft' = StopsLeft
    <3>1. PICK a \in Nat : a = StopsLeft'
      BY <1>6
    <3>2. a + 0 = StopsLeft
      BY <1>7, <1>9, <3>1
    <3> QED
      BY <3>1, <3>2
  <2>3. Place' = Place
    BY <1>3 DEF Place
  <2>4. Left' < Left
    <3>1. p \in 1 .. MaxLevel /\ MaxLevel \in Nat
      BY BookAssumption DEF Levels
    <3>2. CASE s = "buy"
      <4>1. pc = "scan_buy" /\ pc' = "scan_buy" /\ scan' = p + 1 /\ scan = p
        BY <1>1, <1>3, <3>2 DEF Inc
      <4> QED
        BY <3>1, <4>1 DEF Left
    <3>3. CASE s = "sell"
      <4>1. pc = "scan_sell" /\ pc' = "scan_sell" /\ scan' = p - 1 /\ scan = p
        BY <1>1, <1>3, <3>3 DEF Inc
      <4> QED
        BY <3>1, <4>1 DEF Left
    <3> QED
      BY <3>2, <3>3 DEF Sides
  <2> QED
    BY <2>1, <2>2, <2>3, <2>4, RunsDownIs DEF IInv
<1> QED
  BY <1>5, <1>8, <1>9

\* A stop order that reaches its chain is still left.
LEMMA InsertStopRunsDown ==
    ASSUME IInv, TypeOK', InsertStop
    PROVE  RunsDown
<1>1. PICK p \in Levels : p = cur.stop
  <2>1. cur.stop \in Book
    BY DEF IInv, PricesInBook, InsertStop
  <2> QED
    BY <2>1, PointerFacts DEF IInv, TypeOK
<1>2. PICK x : x = [id |-> cur.id, sz |-> cur.sz, side |-> cur.side, limit |-> cur.limit]
  OBVIOUS
<1>3. /\ stops' = [stops EXCEPT ![p] = Append(@, x)]
      /\ internal_queue' = internal_queue /\ cur' = NoOrder /\ cur.type = "stop"
      /\ pc = "route" /\ pc' = "drain"
  BY <1>1, <1>2 DEF InsertStop, ChainEmplace
<1>4. /\ stops'[p] = Append(stops[p], x)
      /\ \A l \in Levels : l # p => stops'[l] = stops[l]
  BY <1>3 DEF IInv, TypeOK, BookTypeOK
<1>5. Len(stops'[p]) = Len(stops[p]) + 1
  <2>1. stops[p] \in Seq(StopBndl)
    BY DEF IInv, TypeOK, BookTypeOK
  <2> QED
    BY <1>4, <2>1
<1>6. Len(stops[p]) \in Nat /\ StopsLeft \in Nat
  BY MeasureType DEF IInv
<1>7. StopsLeft' \in Nat
  BY MeasureTypeAfter
<1>8. cur'.type # "stop"
  BY <1>3 DEF NoOrder
<1>9. StopsLeft' = StopsLeft
  <2>1. StopsLeft' + Len(stops[p]) + (IF cur.type = "stop" THEN 1 ELSE 0) =
        StopsLeft + Len(stops'[p]) + (IF cur'.type = "stop" THEN 1 ELSE 0)
    BY <1>4, StopsMove DEF IInv
  <2> QED
    BY <1>3, <1>5, <1>6, <1>7, <1>8, <2>1
<1>10. Place' < Place
  BY <1>3 DEF Place
<1> QED
  BY <1>3, <1>9, <1>10, RunsDownIs DEF IInv

\* An order that leaves the internal queue makes it shorter; none of them is
\* a stop order.
LEMMA NextInternalRunsDown ==
    ASSUME IInv, TypeOK', NextInternal
    PROVE  RunsDown
<1>1. /\ internal_queue # <<>> /\ internal_queue \in Seq(QueueElem)
      /\ cur' = Head(internal_queue) /\ internal_queue' = Tail(internal_queue)
      /\ stops' = stops /\ cur = NoOrder
  BY DEF NextInternal, IInv, TypeOK, BookTypeOK, ControlState, book
<1>2. /\ Head(internal_queue) = internal_queue[1]
      /\ 1 \in 1 .. Len(internal_queue)
      /\ Len(internal_queue') < Len(internal_queue)
  BY <1>1
<1>3. cur'.type # "stop" /\ cur.type # "stop"
  BY <1>1, <1>2 DEF IInv, PricesInBook, NoOrder
<1>4. StopsLeft' = StopsLeft
  BY <1>1, <1>3, SameStops
<1> QED
  BY <1>2, <1>4, RunsDownIs DEF IInv

\* The liquidity exception empties the queue.
LEMMA ThrowRunsDown ==
    ASSUME IInv, TypeOK', ThrowLiquidity
    PROVE  RunsDown
<1>1. /\ stops' = stops /\ cur' = NoOrder /\ cur.type # "stop"
      /\ pc = "settle" /\ pc' = "idle" /\ internal_queue' = <<>>
  BY DEF ThrowLiquidity, book
<1>2. StopsLeft' = StopsLeft
  BY <1>1, SameStops DEF NoOrder
<1>3. Place' < Place
  BY <1>1 DEF Place
<1>4. Len(internal_queue) \in Nat /\ Len(internal_queue') = 0
  BY <1>1, MeasureType DEF IInv
<1> QED
  BY <1>2, <1>3, <1>4, RunsDownIs DEF IInv

\* The other steps of a window bring the execution of cur nearer its end.
LEMMA OthersRunDown ==
    ASSUME IInv, TypeOK',
           RouteLimit \/ RouteMarket \/ EndTrade \/ EndBuyScan \/ EndSellScan
               \/ Filled \/ RestLimit \/ CloseWindow
    PROVE  RunsDown
<1>1. stops' = stops /\ internal_queue' = internal_queue
  BY DEF RouteLimit, RouteMarket, EndTrade, EndBuyScan, EndSellScan, Filled,
         RestLimit, CloseWindow, book
<1>2. cur.type # "stop" /\ cur'.type # "stop"
  BY DEF RouteLimit, RouteMarket, EndTrade, EndBuyScan, EndSellScan, Filled,
         RestLimit, CloseWindow, NoOrder, IInv, ControlState
<1>3. StopsLeft' = StopsLeft
  BY <1>1, <1>2, SameStops
<1>4. Place' < Place
  BY DEF Place, RouteLimit, RouteMarket, EndTrade, EndBuyScan, EndSellScan,
         Filled, RestLimit, CloseWindow
<1> QED
  BY <1>1, <1>3, <1>4, RunsDownIs DEF IInv

\* Every step of a window makes the measure smaller, in an order without
\* infinite descending chains: whatever rests in the book, a cascade of stop
\* orders that trigger one another ends.
THEOREM CascadesEnd ==
    /\ IsWellFoundedOn(Smaller, (Nat \X Nat) \X (Nat \X Nat))
    /\ Spec => [][pc # "idle" => <<Measure', Measure>> \in Smaller]_vars
<1>1. ASSUME IInv, Next, pc # "idle"
      PROVE  RunsDown
  <2>1. TypeOK'
    BY <1>1, TypeStep
  <2>2. ~ Client
    BY <1>1 DEF Client, InsertOrder, PullOrder, ReplaceOrder, GrowBookAbove,
                GrowBookBelow
  <2>3. CASE FillFront \/ FillPartOfFront
    BY <1>1, <2>1, <2>3, FillRunsDown
  <2>4. CASE InsertStop
    BY <1>1, <2>1, <2>4, InsertStopRunsDown
  <2>5. CASE ScanBuyStops
    BY <1>1, <2>1, <2>5, ScanRunsDown DEF ScanBuyStops, Sides
  <2>6. CASE ScanSellStops
    BY <1>1, <2>1, <2>6, ScanRunsDown DEF ScanSellStops, Sides
  <2>7. CASE NextInternal
    BY <1>1, <2>1, <2>7, NextInternalRunsDown
  <2>8. CASE ThrowLiquidity
    BY <1>1, <2>1, <2>8, ThrowRunsDown
  <2>9. CASE RouteLimit \/ RouteMarket \/ EndTrade \/ EndBuyScan \/ EndSellScan
                 \/ Filled \/ RestLimit \/ CloseWindow
    BY <1>1, <2>1, <2>9, OthersRunDown
  <2> QED
    BY <1>1, <2>2, <2>3, <2>4, <2>5, <2>6, <2>7, <2>8, <2>9 DEF Next, Window
<1>2. IInv /\ [Next]_vars => [pc # "idle" => <<Measure', Measure>> \in Smaller]_vars
  BY <1>1 DEF RunsDown
<1>3. Spec => [][pc # "idle" => <<Measure', Measure>> \in Smaller]_vars
  BY <1>2, InductiveInvariant, PTL DEF Spec
<1> QED
  BY <1>3, SmallerIsWellFounded
=============================================================================
