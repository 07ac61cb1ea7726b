---------------------------- MODULE PythonProofs ----------------------------
(***************************************************************************)
(* The reference count of a Python callback is the number of its holders,  *)
(* for any threads, callbacks and calls (PythonBook!RefsCountHolders).     *)
(*                                                                         *)
(* Every step moves a callback from one holder to another, or adds or      *)
(* drops one.  The first part says what Append, Tail and EXCEPT do to the  *)
(* numbers of holders.  The invariant then has to know which callbacks     *)
(* cannot be where a step puts one: a new order's is not in the book yet,  *)
(* and the count of one that is being sent is 1, its caller's.             *)
(***************************************************************************)
EXTENDS PythonBook, SequenceTheorems, FiniteSetTheorems, TLAPS

-----------------------------------------------------------------------------
(* Callbacks in sequences, in one sequence a thread, and in frames. *)

\* How often a sequence has a callback
Occurrences(c, s) == Cardinality(At(c, s))

\* A sequence has a callback in finitely many places.
LEMMA AtFinite ==
    ASSUME NEW X, NEW s \in Seq(X), NEW c
    PROVE  IsFiniteSet(At(c, s)) /\ Occurrences(c, s) \in Nat
<1>1. At(c, s) \in SUBSET (1..Len(s)) /\ Len(s) \in Nat
  BY DEF At
<1>2. IsFiniteSet(1..Len(s))
  BY <1>1, FS_Interval
<1>3. IsFiniteSet(At(c, s))
  BY <1>1, <1>2, FS_Subset
<1>. QED
  BY <1>3, FS_CardinalityType DEF Occurrences

\* The empty sequence has no callback: no queued order, nothing deferred.
LEMMA NoneInEmpty ==
    ASSUME NEW c
    PROVE  At(c, <<>>) = {} /\ Occurrences(c, <<>>) = 0
BY FS_EmptySet DEF At, Occurrences

\* Append adds one occurrence of what is appended: an order is queued.
LEMMA OneMore ==
    ASSUME NEW X, NEW s \in Seq(X), NEW x \in X, NEW c
    PROVE  Occurrences(c, Append(s, x)) =
               Occurrences(c, s) + (IF x = c THEN 1 ELSE 0)
<1>. DEFINE n == Len(s) + 1
<1>1. n \in Nat /\ n \notin At(c, s)
  BY DEF At
<1>2. CASE x = c
  <2>1. At(c, Append(s, x)) = At(c, s) \cup {n}
    BY <1>2 DEF At
  <2>2. Cardinality(At(c, s) \cup {n}) = Cardinality(At(c, s)) + 1
    BY <1>1, AtFinite, FS_AddElement
  <2>. QED
    BY <1>2, <2>1, <2>2 DEF Occurrences
<1>3. CASE x # c
  <2>1. At(c, Append(s, x)) = At(c, s)
    BY <1>3 DEF At
  <2>. QED
    BY <1>3, <2>1, AtFinite DEF Occurrences
<1>. QED
  BY <1>2, <1>3

\* Tail drops one occurrence of the head: an order leaves the queue, a callback
\* has been run.
LEMMA OneLess ==
    ASSUME NEW X, NEW s \in Seq(X), s # <<>>, NEW c
    PROVE  Occurrences(c, Tail(s)) =
               Occurrences(c, s) - (IF Head(s) = c THEN 1 ELSE 0)
<1>. DEFINE Q == At(c, s) \ {1}
            f == [i \in At(c, Tail(s)) |-> i + 1]
<1>1. /\ Len(s) \in Nat \ {0}
      /\ Tail(s) \in Seq(X)
      /\ Len(Tail(s)) = Len(s) - 1
      /\ \A i \in 1..Len(Tail(s)) : Tail(s)[i] = s[i + 1]
      /\ Head(s) = s[1]
  OBVIOUS
<1>2. At(c, s) \subseteq 1..Len(s) /\ At(c, Tail(s)) \subseteq 1..Len(Tail(s))
  BY <1>1 DEF At
<1>3. f \in [At(c, Tail(s)) -> Q]
  BY <1>1, <1>2 DEF At
<1>4. \A i, j \in At(c, Tail(s)) : f[i] = f[j] => i = j
  BY <1>1, <1>2
<1>5. ASSUME NEW q \in Q
      PROVE  \E i \in At(c, Tail(s)) : f[i] = q
  <2>1. q - 1 \in 1..Len(Tail(s)) /\ (q - 1) + 1 = q
    BY <1>1, <1>2
  <2>2. q - 1 \in At(c, Tail(s))
    BY <1>1, <2>1 DEF At
  <2>. QED
    BY <2>1, <2>2
<1>6. f \in Bijection(At(c, Tail(s)), Q)
  <2>1. f \in Injection(At(c, Tail(s)), Q)
    BY <1>3, <1>4 DEF Injection, IsInjective
  <2>2. f \in Surjection(At(c, Tail(s)), Q)
    BY <1>3, <1>5 DEF Surjection
  <2>. QED
    BY <2>1, <2>2 DEF Bijection
<1>7. ExistsBijection(At(c, Tail(s)), Q)
  BY <1>6 DEF ExistsBijection
<1>8. Cardinality(Q) = Cardinality(At(c, Tail(s)))
  BY <1>1, <1>7, AtFinite, FS_Bijection
<1>9. Cardinality(Q) = IF 1 \in At(c, s) THEN Cardinality(At(c, s)) - 1
                       ELSE Cardinality(At(c, s))
  BY AtFinite, FS_RemoveElement
<1>10. 1 \in At(c, s) <=> Head(s) = c
  BY <1>1 DEF At
<1>. QED
  BY <1>8, <1>9, <1>10, AtFinite DEF Occurrences

\* A fill defers two callbacks, the one of the order that was filled last.
LEMMA TwoMore ==
    ASSUME NEW X, NEW s \in Seq(X), NEW x \in X, NEW y \in X, NEW c
    PROVE  /\ s \o <<x, y>> \in Seq(X) /\ s \o <<x, y>> # <<>>
           /\ Last(s \o <<x, y>>) = y
           /\ Occurrences(c, s \o <<x, y>>) =
                  Occurrences(c, s) + In(c, {x}) + In(c, {y})
<1>. DEFINE z == s \o <<x, y>>
            w == Append(Append(s, x), y)
<1>1. /\ Append(s, x) \in Seq(X) /\ w \in Seq(X) /\ z \in Seq(X)
      /\ Len(s) \in Nat /\ Len(z) = Len(s) + 2 /\ Len(w) = Len(s) + 2
  OBVIOUS
<1>2. \A i \in 1..(Len(s) + 2) : z[i] = w[i]
  <2>1. \A i \in 1..Len(s) : z[i] = s[i] /\ w[i] = s[i]
    OBVIOUS
  <2>2. z[Len(s) + 1] = x /\ w[Len(s) + 1] = x
    OBVIOUS
  <2>3. z[Len(s) + 2] = y /\ w[Len(s) + 2] = y
    OBVIOUS
  <2>4. \A i \in 1..(Len(s) + 2) : i \in 1..Len(s) \/ i = Len(s) + 1 \/ i = Len(s) + 2
    BY <1>1
  <2>. QED
    BY <2>1, <2>2, <2>3, <2>4, Zenon
<1>3. z = w
  BY <1>1, <1>2, SeqEqual
<1>4. Occurrences(c, w) = Occurrences(c, Append(s, x)) + (IF y = c THEN 1 ELSE 0)
  BY <1>1, OneMore
<1>5. Occurrences(c, Append(s, x)) = Occurrences(c, s) + (IF x = c THEN 1 ELSE 0)
  BY OneMore
<1>6. z # <<>> /\ z[Len(z)] = y
  BY <1>1
<1>7. Last(z) = y
  BY <1>6 DEF Last
<1>8. In(c, {x}) = (IF x = c THEN 1 ELSE 0) /\ In(c, {y}) = (IF y = c THEN 1 ELSE 0)
  BY DEF In
<1>9. Occurrences(c, s) \in Nat
  BY AtFinite
<1>. QED
  BY <1>1, <1>3, <1>4, <1>5, <1>6, <1>7, <1>8, <1>9

\* 1 where an element of a queue has the callback, 0 where it has not
Marks(c, s) == [i \in 1..Len(s) |-> In(c, s[i].cb)]

\* The elements with a callback are the marked ones.
LEMMA MarksType ==
    ASSUME NEW s \in Seq(Elem), NEW c
    PROVE  /\ Marks(c, s) \in Seq({0, 1})
           /\ Len(Marks(c, s)) = Len(s)
           /\ \A i \in 1..Len(s) : Marks(c, s)[i] = In(c, s[i].cb)
           /\ Cardinality(ElemsWith(c, s)) = Occurrences(1, Marks(c, s))
           /\ Cardinality(ElemsWith(c, s)) \in Nat
<1>1. Len(s) \in Nat /\ DOMAIN s = 1..Len(s)
  OBVIOUS
<1>2. Marks(c, s) \in [1..Len(s) -> {0, 1}]
  BY DEF Marks, In
<1>3. Marks(c, s) \in Seq({0, 1}) /\ Len(Marks(c, s)) = Len(s)
  BY <1>1, <1>2
<1>4. \A i \in 1..Len(s) : Marks(c, s)[i] = In(c, s[i].cb)
  BY DEF Marks
<1>5. DOMAIN Marks(c, s) = 1..Len(s)
  BY DEF Marks
<1>6. At(1, Marks(c, s)) = ElemsWith(c, s)
  BY <1>1, <1>4, <1>5 DEF At, ElemsWith, In
<1>. QED
  BY <1>3, <1>4, <1>6, AtFinite DEF Occurrences

\* An element is queued.
LEMMA OneElemMore ==
    ASSUME NEW s \in Seq(Elem), NEW e \in Elem, NEW c
    PROVE  Cardinality(ElemsWith(c, Append(s, e))) =
               Cardinality(ElemsWith(c, s)) + In(c, e.cb)
<1>. DEFINE z == Append(s, e)
<1>1. /\ Len(s) \in Nat /\ z \in Seq(Elem) /\ Len(z) = Len(s) + 1
      /\ \A i \in 1..Len(s) : z[i] = s[i]
      /\ z[Len(s) + 1] = e
  OBVIOUS
<1>2. In(c, e.cb) \in {0, 1}
  BY DEF In
<1>3. /\ Marks(c, s) \in Seq({0, 1}) /\ Len(Marks(c, s)) = Len(s)
      /\ Marks(c, z) \in Seq({0, 1}) /\ Len(Marks(c, z)) = Len(s) + 1
  BY <1>1, MarksType
<1>m. /\ \A i \in 1..Len(s) : Marks(c, s)[i] = In(c, s[i].cb)
      /\ \A i \in 1..(Len(s) + 1) : Marks(c, z)[i] = In(c, z[i].cb)
  BY <1>1 DEF Marks
<1>n. Len(s) + 1 \in 1..(Len(s) + 1) /\ 1..Len(s) \subseteq 1..(Len(s) + 1)
  BY <1>1
<1>. HIDE DEF z
<1>4. \A i \in 1..Len(s) : Marks(c, z)[i] = Marks(c, s)[i]
  BY <1>1, <1>m, <1>n, Zenon
<1>5. Marks(c, z)[Len(s) + 1] = In(c, e.cb)
  BY <1>1, <1>m, <1>n, Zenon
<1>6. Append(Marks(c, s), In(c, e.cb)) \in Seq({0, 1})
      /\ Len(Append(Marks(c, s), In(c, e.cb))) = Len(s) + 1
      /\ \A i \in 1..Len(s) : Append(Marks(c, s), In(c, e.cb))[i] = Marks(c, s)[i]
      /\ Append(Marks(c, s), In(c, e.cb))[Len(s) + 1] = In(c, e.cb)
  BY <1>2, <1>3
<1>7. \A i \in 1..(Len(s) + 1) : Marks(c, z)[i] = Append(Marks(c, s), In(c, e.cb))[i]
  <2>1. \A i \in 1..(Len(s) + 1) : i \in 1..Len(s) \/ i = Len(s) + 1
    BY <1>1
  <2>2. ASSUME NEW i \in 1..Len(s)
        PROVE  Marks(c, z)[i] = Append(Marks(c, s), In(c, e.cb))[i]
    BY <1>4, <1>6, Zenon
  <2>3. Marks(c, z)[Len(s) + 1] = Append(Marks(c, s), In(c, e.cb))[Len(s) + 1]
    BY <1>5, <1>6
  <2>4. ASSUME NEW i \in 1..(Len(s) + 1)
        PROVE  Marks(c, z)[i] = Append(Marks(c, s), In(c, e.cb))[i]
    <3>1. CASE i \in 1..Len(s)
      BY <2>2, <3>1
    <3>2. CASE i = Len(s) + 1
      BY <2>3, <3>2, Zenon
    <3>. QED
      BY <2>1, <3>1, <3>2
  <2>. QED
    BY <2>4
<1>8. Marks(c, z) = Append(Marks(c, s), In(c, e.cb))
  BY <1>3, <1>6, <1>7, SeqEqual
<1>9. Occurrences(1, Append(Marks(c, s), In(c, e.cb))) =
          Occurrences(1, Marks(c, s)) + (IF In(c, e.cb) = 1 THEN 1 ELSE 0)
  BY <1>2, <1>3, OneMore
<1>. QED
  BY <1>1, <1>2, <1>8, <1>9, MarksType DEF z

\* The first element leaves the queue.
LEMMA OneElemLess ==
    ASSUME NEW s \in Seq(Elem), s # <<>>, NEW c
    PROVE  Cardinality(ElemsWith(c, Tail(s))) =
               Cardinality(ElemsWith(c, s)) - In(c, Head(s).cb)
<1>. DEFINE z == Tail(s)
            m == Marks(c, s)
<1>1. /\ Len(s) \in Nat \ {0} /\ z \in Seq(Elem) /\ Len(z) = Len(s) - 1
      /\ \A i \in 1..(Len(s) - 1) : z[i] = s[i + 1]
      /\ Head(s) = s[1]
  OBVIOUS
<1>2. m \in Seq({0, 1}) /\ Len(m) = Len(s) /\ m # <<>>
      /\ \A i \in 1..Len(s) : m[i] = In(c, s[i].cb)
  BY <1>1, MarksType
<1>3. Marks(c, z) \in Seq({0, 1}) /\ Len(Marks(c, z)) = Len(s) - 1
      /\ \A i \in 1..(Len(s) - 1) : Marks(c, z)[i] = In(c, z[i].cb)
  <2>1. Marks(c, z) \in Seq({0, 1}) /\ Len(Marks(c, z)) = Len(s) - 1
    BY <1>1, MarksType
  <2>2. \A i \in 1..(Len(s) - 1) : Marks(c, z)[i] = In(c, z[i].cb)
    BY <1>1 DEF Marks
  <2>. QED
    BY <2>1, <2>2
<1>. HIDE DEF m
<1>4. Tail(m) \in Seq({0, 1}) /\ Len(Tail(m)) = Len(s) - 1
      /\ \A i \in 1..(Len(s) - 1) : Tail(m)[i] = m[i + 1]
      /\ Head(m) = m[1]
  BY <1>1, <1>2
<1>5. \A i \in 1..(Len(s) - 1) : Marks(c, z)[i] = Tail(m)[i]
  BY <1>1, <1>2, <1>3, <1>4
<1>6. Marks(c, z) = Tail(m)
  BY <1>3, <1>4, <1>5, SeqEqual
<1>7. Occurrences(1, Tail(m)) = Occurrences(1, m) - (IF Head(m) = 1 THEN 1 ELSE 0)
  BY <1>2, OneLess
<1>8. Head(m) = In(c, Head(s).cb) /\ In(c, Head(s).cb) \in {0, 1}
  BY <1>1, <1>2, <1>4 DEF In
<1>. QED
  BY <1>1, <1>6, <1>7, <1>8, MarksType DEF m

\* The empty queue has no element, and a sequence of one has that one.
LEMMA OneElem ==
    ASSUME NEW c
    PROVE  /\ Cardinality(ElemsWith(c, <<>>)) = 0
           /\ \A e \in Elem : Cardinality(ElemsWith(c, <<e>>)) = In(c, e.cb)
<1>1. ElemsWith(c, <<>>) = {}
  BY DEF ElemsWith
<1>2. Cardinality(ElemsWith(c, <<>>)) = 0
  BY <1>1, FS_EmptySet
<1>3. ASSUME NEW e \in Elem
      PROVE  Cardinality(ElemsWith(c, <<e>>)) = In(c, e.cb)
  <2>1. <<>> \in Seq(Elem) /\ Append(<<>>, e) = <<e>>
    OBVIOUS
  <2>2. Cardinality(ElemsWith(c, Append(<<>>, e))) =
            Cardinality(ElemsWith(c, <<>>)) + In(c, e.cb)
    BY <2>1, OneElemMore, Zenon
  <2>3. Cardinality(ElemsWith(c, <<e>>)) = 0 + In(c, e.cb)
    BY <1>2, <2>1, <2>2, Zenon
  <2>. QED
    BY <2>3 DEF In
<1>. QED
  BY <1>2, <1>3

\* What no element of a queue has is in none of them.
LEMMA NotQueued ==
    ASSUME NEW s \in Seq(Elem), NEW c, Cardinality(ElemsWith(c, s)) = 0
    PROVE  \A i \in DOMAIN s : c \notin s[i].cb
<1>1. ElemsWith(c, s) \in SUBSET (1..Len(s)) /\ Len(s) \in Nat
  BY DEF ElemsWith
<1>2. IsFiniteSet(ElemsWith(c, s))
  <2>1. IsFiniteSet(1..Len(s))
    BY <1>1, FS_Interval
  <2>. QED
    BY <1>1, <2>1, FS_Subset
<1>3. ElemsWith(c, s) = {}
  BY <1>2, FS_EmptySet
<1>. QED
  BY <1>3 DEF ElemsWith

\* What threads have to run, when one gets another sequence of callbacks
LEMMA RunPlacesChange ==
    ASSUME NEW r \in [Threads -> Seq(Callbacks)], NEW u \in Threads,
           NEW s \in Seq(Callbacks), NEW c
    PROVE  /\ Cardinality(RunPlaces(c, r)) \in Nat
           /\ Cardinality(RunPlaces(c, [r EXCEPT ![u] = s])) \in Nat
           /\ Cardinality(RunPlaces(c, [r EXCEPT ![u] = s])) =
                  Cardinality(RunPlaces(c, r)) - Occurrences(c, r[u]) + Occurrences(c, s)
<1>. DEFINE q    == [r EXCEPT ![u] = s]
            part == [t \in Threads \ {u} |-> {t} \X At(c, r[t])]
            Parts == {part[t] : t \in Threads \ {u}}
            Others == UNION Parts
            Here(z) == {u} \X At(c, z)
<1>1. IsFiniteSet(Others)
  <2>1. IsFiniteSet(Threads \ {u})
    BY PythonAssumption, FS_RemoveElement
  <2>2. part \in Surjection(Threads \ {u}, Parts)
    BY DEF Surjection
  <2>3. IsFiniteSet(Parts)
    BY <2>1, <2>2, FS_Surjection
  <2>4. ASSUME NEW t \in Threads \ {u}
        PROVE  IsFiniteSet(part[t])
    <3>1. IsFiniteSet({t}) /\ IsFiniteSet(At(c, r[t]))
      BY FS_Singleton, AtFinite
    <3>. QED
      BY <3>1, FS_Product
  <2>. QED
    BY <2>3, <2>4, FS_UNION
<1>2. ASSUME NEW z \in Seq(Callbacks)
      PROVE  /\ IsFiniteSet(Here(z))
             /\ Cardinality(Here(z)) = Occurrences(c, z)
             /\ Cardinality(Others \cup Here(z)) = Cardinality(Others) + Occurrences(c, z)
  <2>1. IsFiniteSet({u}) /\ Cardinality({u}) = 1
    BY FS_Singleton
  <2>2. IsFiniteSet(At(c, z)) /\ Occurrences(c, z) \in Nat
    BY AtFinite
  <2>3. IsFiniteSet(Here(z)) /\ Cardinality(Here(z)) = 1 * Occurrences(c, z)
    BY <2>1, <2>2, FS_Product DEF Occurrences
  <2>4. Others \cap Here(z) = {}
    OBVIOUS
  <2>5. Cardinality(Others \cap Here(z)) = 0
    BY <2>4, FS_EmptySet
  <2>6. Cardinality(Others) \in Nat
    BY <1>1, FS_CardinalityType
  <2>7. Cardinality(Others \cup Here(z)) =
            Cardinality(Others) + Cardinality(Here(z)) - Cardinality(Others \cap Here(z))
    BY <1>1, <2>3, FS_Union
  <2>. QED
    BY <2>2, <2>3, <2>5, <2>6, <2>7
<1>3. RunPlaces(c, r) = Others \cup Here(r[u])
  BY DEF RunPlaces
<1>4. RunPlaces(c, q) = Others \cup Here(s)
  <2>1. q[u] = s /\ \A t \in Threads \ {u} : q[t] = r[t]
    OBVIOUS
  <2>. QED
    BY <2>1 DEF RunPlaces
<1>5. r[u] \in Seq(Callbacks) /\ Cardinality(Others) \in Nat
  BY <1>1, FS_CardinalityType
<1>6. Occurrences(c, r[u]) \in Nat /\ Occurrences(c, s) \in Nat
  BY <1>5, AtFinite
<1>7. /\ Cardinality(RunPlaces(c, r)) = Cardinality(Others) + Occurrences(c, r[u])
      /\ Cardinality(RunPlaces(c, q)) = Cardinality(Others) + Occurrences(c, s)
  BY <1>2, <1>3, <1>4, <1>5
<1>. QED
  BY <1>5, <1>6, <1>7

\* The frames that refer to a callback, when one of them gets other arguments;
\* when there is none, and when there is one
LEMMA FramesChange ==
    ASSUME NEW a \in [Threads -> SUBSET Callbacks], NEW u \in Threads, NEW C, NEW c
    PROVE  /\ Cardinality(Frames(c, a)) \in Nat
           /\ Cardinality(Frames(c, [a EXCEPT ![u] = C])) =
                  Cardinality(Frames(c, a)) - In(c, a[u]) + In(c, C)
           /\ Cardinality(Frames(c, a)) = 0 => \A t \in Threads : c \notin a[t]
           /\ Cardinality(Frames(c, a)) = 1 /\ c \in a[u] =>
                  \A t \in Threads : c \in a[t] => t = u
<1>. DEFINE Others == {t \in Threads \ {u} : c \in a[t]}
            b == [a EXCEPT ![u] = C]
<1>1. IsFiniteSet(Others) /\ Cardinality(Others) \in Nat /\ u \notin Others
  <2>1. IsFiniteSet(Threads) /\ Others \in SUBSET Threads
    BY PythonAssumption
  <2>. QED
    BY <2>1, FS_Subset, FS_CardinalityType
<1>2. Cardinality(Others \cup {u}) = Cardinality(Others) + 1
  BY <1>1, FS_AddElement
<1>3. Frames(c, a) = IF c \in a[u] THEN Others \cup {u} ELSE Others
  BY DEF Frames
<1>4. Frames(c, b) = IF c \in C THEN Others \cup {u} ELSE Others
  <2>1. b[u] = C /\ \A t \in Threads \ {u} : b[t] = a[t]
    OBVIOUS
  <2>. QED
    BY <2>1 DEF Frames
<1>5. Cardinality(Others) = 0 => Others = {}
  BY <1>1, FS_EmptySet
<1>. DEFINE before == Cardinality(Frames(c, a))
            after  == Cardinality(Frames(c, b))
            n == Cardinality(Others)
<1>6. before = IF c \in a[u] THEN n + 1 ELSE n
  BY <1>2, <1>3
<1>7. after = IF c \in C THEN n + 1 ELSE n
  BY <1>2, <1>4
<1>8. ASSUME n = 0, NEW t \in Threads, c \in a[t]
      PROVE  t = u
  BY <1>5, <1>8
<1>. HIDE DEF before, after, n
<1>9. /\ before \in Nat /\ after \in Nat
      /\ after = before - In(c, a[u]) + In(c, C)
  BY <1>1, <1>6, <1>7 DEF n, In
<1>10. before = 0 => \A t \in Threads : c \notin a[t]
  <2>1. before = 0 => n = 0 /\ c \notin a[u]
    BY <1>1, <1>6 DEF n
  <2>. QED
    BY <1>8, <2>1
<1>11. before = 1 /\ c \in a[u] => n = 0
  BY <1>1, <1>6 DEF n
<1>. QED
  BY <1>8, <1>9, <1>10, <1>11 DEF before, after

-----------------------------------------------------------------------------
\* Outside calls a frame has no argument.  A callback that is being sent has no
\* holder yet but the frame of its caller.
ArgsInv ==
    \A t \in Threads :
        /\ pc[t] \in {"idle", "python"} => arg[t] = {}
        /\ pc[t] = "sending" => \A c \in arg[t] : refs[c] = 1
\* inside the native part of a call that reads the book
Returning == {"wants_master", "reading", "wants_gil"}
\* A thread has callbacks to run between the answer and the return of its call,
\* and goes back to the one it runs after a call from it.
ToRunInv ==
    \A t \in Threads :
        /\ pc[t] \in {"idle", "python", "sending", "waiting", "leaving"} => toRun[t] = <<>>
        /\ pc[t] = "running" => toRun[t] # <<>>
        /\ pc[t] \in Returning => (ret[t] = "leaving" <=> toRun[t] = <<>>)
\* The dispatcher has an element whenever it is not idle.
CurInv ==
    /\ dpc = "idle" <=> cur = <<>>
    /\ dpc # "idle" => \E e \in Elem : cur = <<e>>
\* Callbacks are deferred from the pull or the fill to the answer; until it is
\* erased, the order they are of is still in the book.
DeferredInv ==
    /\ dpc \in {"idle", "pull", "dropping"} => deferred = <<>>
    /\ dpc = "pulled" => cur[1].pulls \subseteq resting
    /\ dpc = "filled" => deferred # <<>> /\ Last(deferred) \in resting
\* Every queued order, and the one of an open window, has its own caller, which
\* waits for the answer.
WaitInv ==
    /\ \A i \in DOMAIN queue : pc[queue[i].from] = "waiting"
    /\ \A i, j \in DOMAIN queue : queue[i].from = queue[j].from => i = j
    /\ dpc \notin {"idle", "dropping"} =>
           /\ pc[cur[1].from] = "waiting"
           /\ \A i \in DOMAIN queue : queue[i].from # cur[1].from
\* before the order of the element in work is in the book
Inserting == {"pull", "pulled", "insert"}
\* The callbacks of queued orders are different, and none is in the book.
NewInv ==
    /\ \A i \in DOMAIN queue : queue[i].cb \cap resting = {}
    /\ \A i, j \in DOMAIN queue : queue[i].cb \cap queue[j].cb # {} => i = j
    /\ dpc \in Inserting =>
           /\ cur[1].cb \cap resting = {}
           /\ \A i \in DOMAIN queue : queue[i].cb \cap cur[1].cb = {}

(* The inductive invariant. *)
PInv == TypeOK /\ RefsCountHolders /\ ArgsInv /\ ToRunInv /\ CurInv /\ DeferredInv /\ WaitInv /\ NewInv

\* Arguments and orders in work are sets of callbacks.
LEMMA SetsOfCallbacks ==
    /\ OneOrNone \subseteq SUBSET Callbacks
    /\ \A e \in Elem : /\ e.from \in Threads
                       /\ e.cb \in OneOrNone /\ e.pulls \in OneOrNone
                       /\ e.cb \subseteq Callbacks /\ e.pulls \subseteq Callbacks
    /\ \A x, C : In(x, C) \in {0, 1} /\ In(x, C) \in Nat
<1>1. OneOrNone \subseteq SUBSET Callbacks
  BY DEF OneOrNone
<1>2. \A e \in Elem : e.from \in Threads /\ e.cb \in OneOrNone /\ e.pulls \in OneOrNone
  BY DEF Elem
<1>3. \A x, C : In(x, C) \in {0, 1} /\ In(x, C) \in Nat
  BY DEF In
<1>. QED
  BY <1>1, <1>2, <1>3

\* What the queue holds
LEMMA QueueElements ==
    ASSUME TypeOK
    PROVE  /\ queue \in Seq(Elem)
           /\ \A i \in DOMAIN queue : /\ queue[i] \in Elem
                                      /\ queue[i].from \in Threads
                                      /\ queue[i].cb \subseteq Callbacks
<1>1. queue \in Seq(Elem)
  BY DEF TypeOK
<1>2. \A i \in DOMAIN queue : queue[i] \in Elem
  BY <1>1
<1>. QED
  BY <1>1, <1>2, SetsOfCallbacks

\* All numbers of holders are numbers.
LEMMA HoldersType ==
    ASSUME TypeOK, NEW c
    PROVE  /\ InFrames(c) \in Nat /\ InQueue(c) \in Nat /\ InWork(c) \in Nat
           /\ InBook(c) \in Nat /\ IsDeferred(c) \in Nat /\ IsToRun(c) \in Nat
<1>1. /\ toRun \in [Threads -> Seq(Callbacks)]
      /\ queue \in Seq(Elem) /\ cur \in Seq(Elem) /\ deferred \in Seq(Callbacks)
  BY DEF TypeOK
<1>2. InQueue(c) \in Nat /\ InWork(c) \in Nat
  BY <1>1, MarksType DEF InQueue, InWork
<1>3. IsDeferred(c) \in Nat
  BY <1>1, AtFinite DEF IsDeferred, Occurrences
<1>4. InBook(c) \in Nat
  BY DEF InBook, In
<1>5. InFrames(c) \in Nat
  <2>1. IsFiniteSet(Threads) /\ Frames(c, arg) \in SUBSET Threads
    BY PythonAssumption DEF Frames
  <2>. QED
    BY <2>1, FS_Subset, FS_CardinalityType DEF InFrames
<1>6. IsToRun(c) \in Nat
  <2>1. CASE Threads = {}
    <3>1. RunPlaces(c, toRun) = {}
      BY <2>1 DEF RunPlaces
    <3>. QED
      BY <3>1, FS_EmptySet DEF IsToRun
  <2>2. CASE Threads # {}
    <3>1. PICK t \in Threads : TRUE
      BY <2>2
    <3>2. toRun[t] \in Seq(Callbacks)
      BY <1>1
    <3>. QED
      BY <1>1, <3>1, <3>2, RunPlacesChange DEF IsToRun
  <2>. QED
    BY <2>1, <2>2
<1>. QED
  BY <1>2, <1>3, <1>4, <1>5, <1>6

\* The count of a callback is a sum of six numbers.
LEMMA Counted ==
    ASSUME TypeOK, RefsCountHolders, NEW x \in Callbacks
    PROVE  /\ refs[x] = InFrames(x) + InQueue(x) + InWork(x) + InBook(x)
                        + IsDeferred(x) + IsToRun(x)
           /\ InFrames(x) \in Nat /\ InQueue(x) \in Nat /\ InWork(x) \in Nat
           /\ InBook(x) \in Nat /\ IsDeferred(x) \in Nat /\ IsToRun(x) \in Nat
BY HoldersType DEF RefsCountHolders

\* What copies add to the counts
LEMMA WrapAdds ==
    ASSUME TypeOK, NEW C
    PROVE  /\ Wrap(C) \in [Callbacks -> Nat]
           /\ \A x \in Callbacks : Wrap(C)[x] = refs[x] + In(x, C)
<1>1. \A x \in Callbacks : refs[x] \in Nat /\ refs[x] + 1 \in Nat
  BY DEF TypeOK
<1>. QED
  BY <1>1 DEF Wrap, In

\* What destroyed copies take from the counts, which are not zero
LEMMA UnwrapTakes ==
    ASSUME TypeOK, NEW C, \A x \in Callbacks : x \in C => refs[x] >= 1
    PROVE  /\ Unwrap(C) \in [Callbacks -> Nat]
           /\ \A x \in Callbacks : Unwrap(C)[x] = refs[x] - In(x, C)
<1>1. \A x \in Callbacks : refs[x] \in Nat
  BY DEF TypeOK
<1>2. \A x \in Callbacks : x \in C => refs[x] - 1 \in Nat
  BY <1>1
<1>. QED
  BY <1>1, <1>2 DEF Unwrap, In

\* Each number depends on one variable.
LEMMA SameHolders ==
    ASSUME NEW c
    PROVE  /\ arg' = arg => InFrames(c)' = InFrames(c)
           /\ queue' = queue => InQueue(c)' = InQueue(c)
           /\ cur' = cur => InWork(c)' = InWork(c)
           /\ resting' = resting => InBook(c)' = InBook(c)
           /\ deferred' = deferred => IsDeferred(c)' = IsDeferred(c)
           /\ toRun' = toRun => IsToRun(c)' = IsToRun(c)
BY DEF InFrames, Frames, InQueue, InWork, InBook, In, IsDeferred, IsToRun

\* What the element in work is, and that it holds its callback
LEMMA ElementInWork ==
    ASSUME CurInv, dpc # "idle"
    PROVE  /\ cur[1] \in Elem /\ cur = <<cur[1]>> /\ cur # <<>>
           /\ cur[1].from \in Threads
           /\ cur[1].cb \in OneOrNone /\ cur[1].pulls \in OneOrNone
           /\ cur[1].cb \subseteq Callbacks /\ cur[1].pulls \subseteq Callbacks
           /\ \A x : InWork(x) = In(x, cur[1].cb)
<1>1. PICK e \in Elem : cur = <<e>>
  BY DEF CurInv
<1>2. cur[1] = e /\ cur = <<cur[1]>> /\ cur # <<>>
  BY <1>1
<1>3. \A x : InWork(x) = In(x, cur[1].cb)
  BY <1>1, <1>2, OneElem DEF InWork
<1>. QED
  BY <1>2, <1>3, SetsOfCallbacks

\* A callback that is being sent has one holder, the frame of its caller.
LEMMA SendingAlone ==
    ASSUME PInv, NEW u \in Threads, pc[u] = "sending", NEW c \in arg[u]
    PROVE  /\ c \in Callbacks /\ refs[c] = 1
           /\ InFrames(c) = 1 /\ InQueue(c) = 0 /\ InWork(c) = 0
           /\ InBook(c) = 0 /\ IsDeferred(c) = 0 /\ IsToRun(c) = 0
           /\ \A t \in Threads : c \in arg[t] => t = u
<1>1. arg \in [Threads -> SUBSET Callbacks] /\ TypeOK /\ RefsCountHolders
  BY SetsOfCallbacks DEF PInv, TypeOK
<1>2. c \in Callbacks /\ refs[c] = 1
  BY <1>1 DEF PInv, ArgsInv
<1>3. InFrames(c) # 0 /\ (InFrames(c) = 1 => \A t \in Threads : c \in arg[t] => t = u)
  BY <1>1, FramesChange DEF InFrames
<1>4. /\ InFrames(c) = 1 /\ InQueue(c) = 0 /\ InWork(c) = 0
      /\ InBook(c) = 0 /\ IsDeferred(c) = 0 /\ IsToRun(c) = 0
  BY <1>1, <1>2, <1>3, Counted
<1>. QED
  BY <1>2, <1>3, <1>4

\* No step adds or drops a holder of a callback that is being sent.
LEMMA ArgsStay ==
    ASSUME PInv, arg' = arg,
           \A u \in Threads : /\ pc'[u] \in {"idle", "python"} => pc[u] \in {"idle", "python"}
                              /\ pc'[u] = "sending" => pc[u] = "sending",
           \A u \in Threads : pc[u] = "sending" =>
               \A x \in arg[u] : refs'[x] = refs[x]
    PROVE  ArgsInv'
BY DEF PInv, ArgsInv

\* What was in the queue and in work waits as before, when no thread that waits
\* goes on.
LEMMA WaitStays ==
    ASSUME PInv, UNCHANGED <<queue, dpc, cur>>,
           \A u \in Threads : pc[u] = "waiting" => pc'[u] = "waiting"
    PROVE  WaitInv'
<1>1. \A i \in DOMAIN queue : queue[i].from \in Threads
  BY QueueElements DEF PInv
<1>2. dpc # "idle" => cur[1].from \in Threads
  BY ElementInWork DEF PInv
<1>. QED
  BY <1>1, <1>2 DEF PInv, WaitInv

\* A thread goes to another place and holds what it held.
Moves(t, place) ==
    /\ t \in Threads /\ pc[t] # "waiting"
    /\ Goto(t, place)
    /\ place \in Places \ {"sending", "waiting"}
    /\ UNCHANGED <<arg, toRun, refs, book>>

\* Such a step keeps the invariant where the thread may be without arguments or
\* callbacks to run.
LEMMA OnlyMoves ==
    ASSUME PInv, NEW t \in Threads, NEW place,
           Moves(t, place), TypeOK',
           place \in {"idle", "python"} => arg[t] = {},
           place \in {"idle", "python", "leaving"} => toRun[t] = <<>>,
           place = "running" => toRun[t] # <<>>,
           place \in Returning => (ret'[t] = "leaving" <=> toRun[t] = <<>>),
           \A u \in Threads \ {t} : ret'[u] = ret[u]
    PROVE  PInv'
<1>. USE DEF Moves, Goto
<1>1. /\ pc' = [pc EXCEPT ![t] = place] /\ pc \in [Threads -> Places]
      /\ pc'[t] = place /\ \A u \in Threads \ {t} : pc'[u] = pc[u]
      /\ UNCHANGED <<arg, toRun, refs, queue, dpc, cur, resting, deferred>>
  BY DEF PInv, TypeOK, book
<1>2. RefsCountHolders'
  BY <1>1, SameHolders DEF PInv, RefsCountHolders
<1>3. ArgsInv'
  BY <1>1 DEF PInv, ArgsInv
<1>4. ToRunInv'
  BY <1>1 DEF PInv, ToRunInv
<1>5. CurInv' /\ DeferredInv' /\ NewInv'
  BY <1>1 DEF PInv, CurInv, DeferredInv, NewInv
<1>6. WaitInv'
  BY <1>1, WaitStays
<1>. QED
  BY <1>2, <1>3, <1>4, <1>5, <1>6 DEF PInv

\* The steps of the two locks, and the reads of the book
LEMMA MovesKeep ==
    ASSUME PInv, NEW t \in Threads,
           \/ Enter(t) \/ StartCallback(t) \/ CallbacksDone(t) \/ (\E lock \in Threads \cup {NoOne} : ReadBook(t, lock))
           \/ LockMaster(t) \/ UnlockMaster(t) \/ TakeGil(t)
    PROVE  PInv'
<1>. USE DEF Goto, Places
<1>t. TypeOK /\ ArgsInv /\ ToRunInv
  BY DEF PInv
<1>1. CASE Enter(t)
  <2>1. TypeOK'
    BY <1>1, <1>t, PythonAssumption DEF TypeOK, Enter, book
  <2>2. Moves(t, "python") /\ ret' = ret
    BY <1>1 DEF Enter, Moves
  <2>3. arg[t] = {} /\ toRun[t] = <<>>
    BY <1>1, <1>t DEF Enter, ArgsInv, ToRunInv
  <2>. QED
    BY <2>1, <2>2, <2>3, OnlyMoves DEF Returning
<1>2. CASE StartCallback(t)
  <2>1. TypeOK'
    BY <1>2, <1>t DEF TypeOK, StartCallback, book
  <2>2. Moves(t, "running") /\ ret' = ret /\ toRun[t] # <<>>
    BY <1>2 DEF StartCallback, Moves
  <2>. QED
    BY <2>1, <2>2, OnlyMoves DEF Returning
<1>3. CASE CallbacksDone(t)
  <2>1. TypeOK'
    BY <1>3, <1>t DEF TypeOK, CallbacksDone, book
  <2>2. Moves(t, "wants_gil") /\ ret' = [ret EXCEPT ![t] = "leaving"] /\ toRun[t] = <<>>
    BY <1>3 DEF CallbacksDone, Moves
  <2>3. /\ ret'[t] = "leaving" <=> toRun[t] = <<>>
        /\ \A u \in Threads \ {t} : ret'[u] = ret[u]
    BY <1>t, <2>2 DEF TypeOK
  <2>. QED
    BY <2>1, <2>2, <2>3, OnlyMoves DEF Returning
<1>4. ASSUME NEW lock \in Threads \cup {NoOne}, ReadBook(t, lock)
      PROVE  PInv'
  <2>1. TypeOK'
    <3>1. gil' \in Threads \cup {NoOne} /\ pc' \in [Threads -> Places]
          /\ UNCHANGED <<master, arg, target, toRun, refs, book>>
      BY <1>4, <1>t DEF TypeOK, ReadBook
    <3>2. ret' \in [Threads -> {"leaving", "running"}]
      BY <1>4, <1>t DEF TypeOK, ReadBook
    <3>3. calls' \in 0..MaxCalls
      BY <1>4, <1>t, PythonAssumption DEF TypeOK, ReadBook
    <3>. QED
      BY <1>t, <3>1, <3>2, <3>3 DEF TypeOK, book
  <2>2. Moves(t, "wants_master")
    BY <1>4 DEF ReadBook, Moves
  <2>3. /\ \A u \in Threads \ {t} : ret'[u] = ret[u]
        /\ ret'[t] = "leaving" <=> toRun[t] = <<>>
    BY <1>4, <1>t DEF ReadBook, TypeOK, ToRunInv
  <2>. QED
    BY <2>1, <2>2, <2>3, OnlyMoves DEF Returning
<1>5. CASE LockMaster(t)
  <2>1. TypeOK'
    BY <1>5, <1>t DEF TypeOK, LockMaster, book
  <2>2. Moves(t, "reading") /\ ret' = ret /\ pc[t] = "wants_master"
    BY <1>5 DEF LockMaster, Moves
  <2>. QED
    BY <1>t, <2>1, <2>2, OnlyMoves DEF Returning, ToRunInv
<1>6. CASE UnlockMaster(t)
  <2>. DEFINE place == IF gil = t THEN ret[t] ELSE "wants_gil"
  <2>1. TypeOK'
    BY <1>6, <1>t DEF TypeOK, UnlockMaster, book
  <2>2. ret[t] \in {"leaving", "running"}
    BY <1>t DEF TypeOK
  <2>3. Moves(t, place) /\ ret' = ret /\ pc[t] = "reading"
    BY <1>6, <2>2 DEF UnlockMaster, Moves
  <2>4. ret[t] = "leaving" <=> toRun[t] = <<>>
    BY <1>t, <2>3 DEF ToRunInv, Returning
  <2>5. place \in {"leaving", "running", "wants_gil"} /\ (place = "leaving" => ret[t] = "leaving")
        /\ (place = "running" => ret[t] = "running")
    BY <2>2
  <2>. HIDE DEF place
  <2>. QED
    BY <2>1, <2>2, <2>3, <2>4, <2>5, OnlyMoves DEF Returning
<1>7. CASE TakeGil(t)
  <2>1. TypeOK'
    BY <1>7, <1>t DEF TypeOK, TakeGil, book
  <2>2. ret[t] \in {"leaving", "running"}
    BY <1>t DEF TypeOK
  <2>3. Moves(t, ret[t]) /\ ret' = ret /\ pc[t] = "wants_gil"
    BY <1>7, <2>2 DEF TakeGil, Moves
  <2>4. ret[t] = "leaving" <=> toRun[t] = <<>>
    BY <1>t, <2>3 DEF ToRunInv, Returning
  <2>. QED
    BY <2>1, <2>2, <2>3, <2>4, OnlyMoves DEF Returning
<1>. QED
  BY <1>1, <1>2, <1>3, <1>4, <1>5, <1>6, <1>7

\* What a change of one frame does to the number of frames
LEMMA FramesStep ==
    ASSUME TypeOK, NEW t \in Threads, NEW C, arg' = [arg EXCEPT ![t] = C], NEW c
    PROVE  /\ InFrames(c)' = InFrames(c) - In(c, arg[t]) + In(c, C)
           /\ c \in arg[t] => InFrames(c) >= 1
<1>1. arg \in [Threads -> SUBSET Callbacks]
  BY SetsOfCallbacks DEF TypeOK
<1>2. Cardinality(Frames(c, [arg EXCEPT ![t] = C])) =
          Cardinality(Frames(c, arg)) - In(c, arg[t]) + In(c, C)
  BY <1>1, FramesChange
<1>3. /\ InFrames(c) = Cardinality(Frames(c, arg))
      /\ InFrames(c)' = Cardinality(Frames(c, arg'))
  BY DEF InFrames, Frames
<1>4. c \in arg[t] => InFrames(c) # 0
  BY <1>1, <1>3, FramesChange
<1>. QED
  BY <1>2, <1>3, <1>4, HoldersType

\* What a change for one thread does to the number of callbacks to run
LEMMA ToRunStep ==
    ASSUME TypeOK, NEW t \in Threads, NEW s \in Seq(Callbacks),
           toRun' = [toRun EXCEPT ![t] = s], NEW c
    PROVE  /\ IsToRun(c)' \in Nat
           /\ IsToRun(c)' = IsToRun(c) - Occurrences(c, toRun[t]) + Occurrences(c, s)
BY RunPlacesChange DEF IsToRun, TypeOK

\* A method gets a callback that nobody refers to, or none.
LEMMA BeginCallKeeps ==
    ASSUME PInv, NEW t \in Threads, NEW C \in OneOrNone, NEW D \in OneOrNone,
           BeginCall(t, C, D)
    PROVE  PInv'
<1>. USE DEF Goto
<1>1. /\ TypeOK /\ RefsCountHolders /\ ArgsInv /\ ToRunInv
      /\ pc[t] = "python" /\ (\A c \in C : refs[c] = 0) /\ arg[t] = {} /\ toRun[t] = <<>>
      /\ refs' = Wrap(C) /\ arg' = [arg EXCEPT ![t] = C]
      /\ target' = [target EXCEPT ![t] = D]
      /\ pc' = [pc EXCEPT ![t] = "sending"] /\ gil' = NoOne
      /\ UNCHANGED <<master, ret, toRun, calls, queue, dpc, cur, resting, deferred>>
  BY DEF PInv, BeginCall, ArgsInv, ToRunInv, book
<1>2. /\ refs' \in [Callbacks -> Nat]
      /\ \A x \in Callbacks : refs'[x] = refs[x] + In(x, C)
  BY <1>1, WrapAdds
<1>3. TypeOK'
  BY <1>1, <1>2 DEF TypeOK, Places
<1>4. RefsCountHolders'
  <2>. SUFFICES ASSUME NEW x \in Callbacks
                PROVE  refs'[x] = InFrames(x)' + InQueue(x)' + InWork(x)' + InBook(x)'
                                  + IsDeferred(x)' + IsToRun(x)'
    BY DEF RefsCountHolders
  <2>1. InFrames(x)' = InFrames(x) + In(x, C)
    <3>1. InFrames(x)' = InFrames(x) - In(x, arg[t]) + In(x, C)
      BY <1>1, FramesStep
    <3>2. In(x, arg[t]) = 0
      BY <1>1 DEF In
    <3>. QED
      BY <1>1, <3>1, <3>2, HoldersType, SetsOfCallbacks
  <2>2. /\ InQueue(x)' = InQueue(x) /\ InWork(x)' = InWork(x) /\ InBook(x)' = InBook(x)
        /\ IsDeferred(x)' = IsDeferred(x) /\ IsToRun(x)' = IsToRun(x)
    BY <1>1, SameHolders
  <2>8. /\ refs[x] = InFrames(x) + InQueue(x) + InWork(x) + InBook(x)
                     + IsDeferred(x) + IsToRun(x)
        /\ InFrames(x) \in Nat /\ InQueue(x) \in Nat /\ InWork(x) \in Nat
        /\ InBook(x) \in Nat /\ IsDeferred(x) \in Nat /\ IsToRun(x) \in Nat
    BY <1>1, Counted
  <2>9. In(x, C) \in Nat
    BY SetsOfCallbacks
  <2>. QED
    BY <1>2, <2>1, <2>2, <2>8, <2>9
<1>5. ArgsInv'
  <2>. SUFFICES ASSUME NEW u \in Threads
                PROVE  /\ pc'[u] \in {"idle", "python"} => arg'[u] = {}
                       /\ pc'[u] = "sending" => \A c \in arg'[u] : refs'[c] = 1
    BY DEF ArgsInv
  <2>1. CASE u = t
    <3>1. pc'[u] = "sending" /\ arg'[u] = C /\ C \subseteq Callbacks
      BY <1>1, <2>1, SetsOfCallbacks DEF TypeOK
    <3>2. \A c \in C : refs'[c] = 1
      BY <1>1, <1>2, <3>1 DEF In
    <3>. QED
      BY <3>1, <3>2
  <2>2. CASE u # t
    <3>1. pc'[u] = pc[u] /\ arg'[u] = arg[u] /\ arg[u] \subseteq Callbacks
      BY <1>1, <2>2, SetsOfCallbacks DEF TypeOK
    <3>2. ASSUME pc[u] = "sending", NEW c \in arg[u]
          PROVE  refs'[c] = 1
      <4>1. refs[c] = 1 /\ c \in Callbacks /\ c \notin C
        BY <1>1, <3>1, <3>2 DEF ArgsInv
      <4>. QED
        BY <1>2, <4>1 DEF In
    <3>. QED
      BY <1>1, <3>1, <3>2 DEF ArgsInv
  <2>. QED
    BY <2>1, <2>2
<1>6. ToRunInv'
  BY <1>1 DEF ToRunInv, TypeOK, Returning
<1>7. CurInv' /\ DeferredInv' /\ NewInv'
  BY <1>1 DEF PInv, CurInv, DeferredInv, NewInv
<1>8. WaitInv'
  BY <1>1, WaitStays DEF TypeOK
<1>. QED
  BY <1>3, <1>4, <1>5, <1>6, <1>7, <1>8 DEF PInv

\* The call is queued, with a copy of its callback.
LEMMA SendKeeps ==
    ASSUME PInv, NEW t \in Threads, Send(t)
    PROVE  PInv'
<1>. DEFINE C == arg[t]
            e == [from |-> t, cb |-> C, pulls |-> target[t]]
<1>1. /\ TypeOK /\ RefsCountHolders /\ ArgsInv /\ ToRunInv /\ CurInv
      /\ pc[t] = "sending" /\ toRun[t] = <<>>
      /\ refs' = Wrap(C) /\ queue' = Append(queue, e)
      /\ target' = [target EXCEPT ![t] = {}]
      /\ pc' = [pc EXCEPT ![t] = "waiting"]
      /\ UNCHANGED <<gil, master, ret, arg, toRun, calls, dpc, cur, resting, deferred>>
  BY DEF PInv, Send, ToRunInv, Goto
<1>2. /\ e \in Elem /\ e.from = t /\ e.cb = C /\ C \subseteq Callbacks
      /\ queue \in Seq(Elem) /\ target' \in [Threads -> OneOrNone]
  <2>1. C \in OneOrNone /\ target[t] \in OneOrNone /\ {} \in OneOrNone
    BY <1>1 DEF TypeOK, OneOrNone
  <2>. QED
    BY <1>1, <2>1, QueueElements, SetsOfCallbacks DEF Elem, TypeOK
<1>3. \A c \in C : /\ c \in Callbacks /\ InQueue(c) = 0 /\ InWork(c) = 0 /\ InBook(c) = 0
                   /\ \A u \in Threads : c \in arg[u] => u = t
  BY <1>1, SendingAlone
<1>4. /\ refs' \in [Callbacks -> Nat]
      /\ \A x \in Callbacks : refs'[x] = refs[x] + In(x, C)
  BY <1>1, WrapAdds
<1>5. pc'[t] = "waiting" /\ \A u \in Threads \ {t} : pc'[u] = pc[u]
  BY <1>1 DEF TypeOK
<1>. HIDE DEF C, e
<1>6. TypeOK'
  <2>1. queue' \in Seq(Elem)
    BY <1>1, <1>2
  <2>. QED
    BY <1>1, <1>2, <1>4, <2>1 DEF TypeOK, Places
<1>7. RefsCountHolders'
  <2>. SUFFICES ASSUME NEW x \in Callbacks
                PROVE  refs'[x] = InFrames(x)' + InQueue(x)' + InWork(x)' + InBook(x)'
                                  + IsDeferred(x)' + IsToRun(x)'
    BY DEF RefsCountHolders
  <2>1. InQueue(x)' = InQueue(x) + In(x, C)
    BY <1>1, <1>2, OneElemMore DEF InQueue
  <2>2. /\ InFrames(x)' = InFrames(x) /\ InWork(x)' = InWork(x) /\ InBook(x)' = InBook(x)
        /\ IsDeferred(x)' = IsDeferred(x) /\ IsToRun(x)' = IsToRun(x)
    BY <1>1, SameHolders
  <2>8. /\ refs[x] = InFrames(x) + InQueue(x) + InWork(x) + InBook(x)
                     + IsDeferred(x) + IsToRun(x)
        /\ InFrames(x) \in Nat /\ InQueue(x) \in Nat /\ InWork(x) \in Nat
        /\ InBook(x) \in Nat /\ IsDeferred(x) \in Nat /\ IsToRun(x) \in Nat
    BY <1>1, Counted
  <2>9. In(x, C) \in Nat
    BY SetsOfCallbacks
  <2>. QED
    BY <1>4, <2>1, <2>2, <2>8, <2>9
<1>8. ArgsInv'
  <2>1. ASSUME NEW u \in Threads, u # t, pc[u] = "sending", NEW x \in arg[u]
        PROVE  refs'[x] = 1
    <3>1. refs[x] = 1 /\ x \in Callbacks
      BY <2>1, SendingAlone
    <3>2. x \notin C
      BY <1>3, <2>1
    <3>. QED
      BY <1>4, <3>1, <3>2 DEF In
  <2>. QED
    BY <1>1, <1>5, <2>1 DEF ArgsInv
<1>9. ToRunInv'
  BY <1>1 DEF ToRunInv, TypeOK, Returning
<1>10. CurInv' /\ DeferredInv'
  BY <1>1 DEF PInv, CurInv, DeferredInv
<1>11. /\ Len(queue') = Len(queue) + 1 /\ Len(queue) \in Nat
       /\ DOMAIN queue = 1..Len(queue) /\ DOMAIN queue' = 1..(Len(queue) + 1)
       /\ \A i \in 1..Len(queue) : queue'[i] = queue[i]
       /\ queue'[Len(queue) + 1] = e
  BY <1>1, <1>2
<1>12. NewInv'
  <2>1. \A i \in 1..Len(queue) : queue[i].cb \cap C = {}
    BY <1>2, <1>3, <1>11, NotQueued DEF InQueue
  <2>2. C \cap resting = {}
    BY <1>3 DEF InBook, In
  <2>3. dpc \in Inserting => cur[1].cb \cap C = {}
    <3>1. dpc \in Inserting => \A x : InWork(x) = In(x, cur[1].cb)
      BY <1>1, ElementInWork DEF Inserting
    <3>. QED
      BY <1>3, <3>1 DEF In
  <2>4. /\ \A i \in 1..Len(queue) : queue[i].cb \cap resting = {}
        /\ \A i, j \in 1..Len(queue) : queue[i].cb \cap queue[j].cb # {} => i = j
        /\ dpc \in Inserting =>
               /\ cur[1].cb \cap resting = {}
               /\ \A i \in 1..Len(queue) : queue[i].cb \cap cur[1].cb = {}
    BY <1>11 DEF PInv, NewInv
  <2>5. \A i \in DOMAIN queue' : i \in 1..Len(queue) \/ i = Len(queue) + 1
    BY <1>11
  <2>6. \A i \in DOMAIN queue' : queue'[i].cb \cap resting = {}
    BY <1>2, <1>11, <2>2, <2>4, <2>5
  <2>7. \A i, j \in DOMAIN queue' : queue'[i].cb \cap queue'[j].cb # {} => i = j
    <3>. SUFFICES ASSUME NEW i \in DOMAIN queue', NEW j \in DOMAIN queue', i # j
                  PROVE  queue'[i].cb \cap queue'[j].cb = {}
      OBVIOUS
    <3>1. CASE i \in 1..Len(queue) /\ j \in 1..Len(queue)
      BY <1>11, <2>4, <3>1
    <3>2. CASE i \in 1..Len(queue) /\ j = Len(queue) + 1
      BY <1>2, <1>11, <2>1, <3>2
    <3>3. CASE j \in 1..Len(queue) /\ i = Len(queue) + 1
      BY <1>2, <1>11, <2>1, <3>3
    <3>. QED
      BY <2>5, <3>1, <3>2, <3>3
  <2>8. dpc \in Inserting => \A i \in DOMAIN queue' : queue'[i].cb \cap cur[1].cb = {}
    BY <1>2, <1>11, <2>3, <2>4, <2>5
  <2>. QED
    BY <1>1, <2>4, <2>6, <2>7, <2>8 DEF NewInv
<1>13. WaitInv'
  <2>1. dpc # "idle" => cur[1].from \in Threads
    BY <1>1, ElementInWork
  <2>2. \A u \in Threads : pc[u] = "waiting" => pc'[u] = "waiting" /\ u # t
    BY <1>1, <1>5
  <2>. QED
    BY <1>1, <1>2, <1>5, <1>11, <2>1, <2>2, QueueElements DEF PInv, WaitInv
<1>. QED
  BY <1>6, <1>7, <1>8, <1>9, <1>10, <1>12, <1>13 DEF PInv

\* A callback has been run.
LEMMA EndCallbackKeeps ==
    ASSUME PInv, NEW t \in Threads, EndCallback(t)
    PROVE  PInv'
<1>. DEFINE h == Head(toRun[t])
            H == {h}
<1>1. /\ TypeOK /\ RefsCountHolders /\ ToRunInv
      /\ pc[t] = "running" /\ toRun[t] # <<>> /\ toRun[t] \in Seq(Callbacks)
      /\ refs' = Unwrap(H)
      /\ toRun' = [toRun EXCEPT ![t] = Tail(toRun[t])]
      /\ pc' = [pc EXCEPT ![t] = "answered"] /\ gil' = NoOne
      /\ UNCHANGED <<master, ret, arg, target, calls, queue, dpc, cur, resting, deferred>>
  BY DEF PInv, EndCallback, ToRunInv, TypeOK, book, Goto
<1>2. h \in Callbacks /\ Tail(toRun[t]) \in Seq(Callbacks)
  BY <1>1
<1>3. ASSUME NEW x \in Callbacks
      PROVE  IsToRun(x)' = IsToRun(x) - In(x, H) /\ IsToRun(x)' \in Nat
  <2>1. IsToRun(x)' \in Nat
        /\ IsToRun(x)' = IsToRun(x) - Occurrences(x, toRun[t]) + Occurrences(x, Tail(toRun[t]))
    BY <1>1, <1>2, ToRunStep
  <2>2. Occurrences(x, Tail(toRun[t])) = Occurrences(x, toRun[t]) - (IF h = x THEN 1 ELSE 0)
    BY <1>1, OneLess
  <2>3. Occurrences(x, toRun[t]) \in Nat /\ IsToRun(x) \in Nat
    BY <1>1, AtFinite, HoldersType
  <2>4. In(x, H) = IF h = x THEN 1 ELSE 0
    BY DEF In
  <2>. QED
    BY <2>1, <2>2, <2>3, <2>4
<1>h. \A x : In(x, H) = IF x = h THEN 1 ELSE 0
  BY DEF In
<1>. HIDE DEF h, H
<1>4. IsToRun(h) >= 1
  <2>1. In(h, H) = 1
    BY <1>h
  <2>2. ASSUME NEW x \in Callbacks, x = h
        PROVE  IsToRun(x) >= 1
    <3>1. IsToRun(x) \in Nat
      BY <1>1, HoldersType
    <3>2. IsToRun(x)' = IsToRun(x) - In(x, H) /\ IsToRun(x)' \in Nat
      BY <1>3
    <3>3. In(x, H) = 1
      BY <2>1, <2>2
    <3>. QED
      BY <3>1, <3>2, <3>3
  <2>. QED
    BY <1>2, <2>2
<1>5. /\ refs' \in [Callbacks -> Nat]
      /\ \A x \in Callbacks : refs'[x] = refs[x] - In(x, H)
  <2>1. refs[h] >= 1
    <3>1. /\ refs[h] = InFrames(h) + InQueue(h) + InWork(h) + InBook(h)
                       + IsDeferred(h) + IsToRun(h)
          /\ InFrames(h) \in Nat /\ InQueue(h) \in Nat /\ InWork(h) \in Nat
          /\ InBook(h) \in Nat /\ IsDeferred(h) \in Nat /\ IsToRun(h) \in Nat
      BY <1>1, <1>2, Counted
    <3>. QED
      BY <1>4, <3>1
  <2>2. \A x \in Callbacks : x \in H => refs[x] >= 1
    BY <2>1 DEF H
  <2>. QED
    BY <1>1, <2>2, UnwrapTakes
<1>6. TypeOK'
  <2>1. toRun' \in [Threads -> Seq(Callbacks)]
    BY <1>1, <1>2 DEF TypeOK
  <2>2. gil' \in Threads \cup {NoOne} /\ pc' \in [Threads -> Places]
    BY <1>1 DEF TypeOK, Places
  <2>. QED
    BY <1>1, <1>5, <2>1, <2>2 DEF TypeOK
<1>7. RefsCountHolders'
  <2>. SUFFICES ASSUME NEW x \in Callbacks
                PROVE  refs'[x] = InFrames(x)' + InQueue(x)' + InWork(x)' + InBook(x)'
                                  + IsDeferred(x)' + IsToRun(x)'
    BY DEF RefsCountHolders
  <2>1. /\ InFrames(x)' = InFrames(x) /\ InQueue(x)' = InQueue(x) /\ InWork(x)' = InWork(x)
        /\ InBook(x)' = InBook(x) /\ IsDeferred(x)' = IsDeferred(x)
    BY <1>1, SameHolders
  <2>8. /\ refs[x] = InFrames(x) + InQueue(x) + InWork(x) + InBook(x)
                     + IsDeferred(x) + IsToRun(x)
        /\ InFrames(x) \in Nat /\ InQueue(x) \in Nat /\ InWork(x) \in Nat
        /\ InBook(x) \in Nat /\ IsDeferred(x) \in Nat /\ IsToRun(x) \in Nat
    BY <1>1, Counted
  <2>9. In(x, H) \in Nat
    BY SetsOfCallbacks
  <2>. QED
    BY <1>3, <1>5, <2>1, <2>8, <2>9
<1>8. ArgsInv'
  <2>1. ASSUME NEW u \in Threads, pc[u] = "sending", NEW x \in arg[u]
        PROVE  refs'[x] = refs[x]
    <3>1. IsToRun(x) = 0 /\ x \in Callbacks /\ refs[x] = 1
      BY <2>1, SendingAlone
    <3>2. x # h
      BY <1>4, <3>1
    <3>. QED
      BY <1>5, <1>h, <3>1, <3>2
  <2>2. pc'[t] = "answered" /\ \A u \in Threads \ {t} : pc'[u] = pc[u]
    BY <1>1 DEF TypeOK
  <2>3. arg' = arg /\ ArgsInv
    BY <1>1 DEF PInv
  <2>4. \A u \in Threads : pc[u] = "sending" => \A x \in arg[u] : refs'[x] = refs[x]
    BY <2>1
  <2>. QED
    BY <2>2, <2>3, <2>4 DEF ArgsInv
<1>9. ToRunInv'
  BY <1>1 DEF ToRunInv, TypeOK, Returning
<1>10. CurInv' /\ DeferredInv' /\ NewInv'
  BY <1>1 DEF PInv, CurInv, DeferredInv, NewInv
<1>11. WaitInv'
  BY <1>1, WaitStays DEF TypeOK
<1>. QED
  BY <1>6, <1>7, <1>8, <1>9, <1>10, <1>11 DEF PInv

\* A method returns.
LEMMA LeaveKeeps ==
    ASSUME PInv, NEW t \in Threads, Leave(t)
    PROVE  PInv'
<1>1. /\ TypeOK /\ RefsCountHolders /\ ArgsInv /\ ToRunInv
      /\ pc[t] = "leaving" /\ toRun[t] = <<>>
      /\ refs' = Unwrap(arg[t])
      /\ arg' = [arg EXCEPT ![t] = {}]
      /\ pc' = [pc EXCEPT ![t] = "idle"] /\ gil' = NoOne
      /\ UNCHANGED <<master, ret, target, toRun, calls, queue, dpc, cur, resting, deferred>>
  BY DEF PInv, Leave, ToRunInv, book, Goto
<1>2. ASSUME NEW x \in Callbacks
      PROVE  InFrames(x)' = InFrames(x) - In(x, arg[t]) /\ (x \in arg[t] => InFrames(x) >= 1)
  <2>1. InFrames(x)' = InFrames(x) - In(x, arg[t]) + In(x, {})
        /\ (x \in arg[t] => InFrames(x) >= 1)
    BY <1>1, FramesStep
  <2>2. In(x, {}) = 0 /\ In(x, arg[t]) \in Nat /\ InFrames(x) \in Nat
    BY <1>1, HoldersType DEF In
  <2>. QED
    BY <2>1, <2>2
<1>3. /\ refs' \in [Callbacks -> Nat]
      /\ \A x \in Callbacks : refs'[x] = refs[x] - In(x, arg[t])
  <2>1. ASSUME NEW x \in Callbacks, x \in arg[t]
        PROVE  refs[x] >= 1
    <3>1. /\ refs[x] = InFrames(x) + InQueue(x) + InWork(x) + InBook(x)
                       + IsDeferred(x) + IsToRun(x)
          /\ InFrames(x) \in Nat /\ InQueue(x) \in Nat /\ InWork(x) \in Nat
          /\ InBook(x) \in Nat /\ IsDeferred(x) \in Nat /\ IsToRun(x) \in Nat
      BY <1>1, Counted
    <3>2. InFrames(x) >= 1
      BY <1>2, <2>1
    <3>. QED
      BY <3>1, <3>2
  <2>. QED
    BY <1>1, <2>1, UnwrapTakes
<1>4. TypeOK'
  <2>1. gil' \in Threads \cup {NoOne} /\ pc' \in [Threads -> Places]
        /\ arg' \in [Threads -> OneOrNone]
    BY <1>1 DEF TypeOK, Places, OneOrNone
  <2>. QED
    BY <1>1, <1>3, <2>1 DEF TypeOK
<1>5. RefsCountHolders'
  <2>. SUFFICES ASSUME NEW x \in Callbacks
                PROVE  refs'[x] = InFrames(x)' + InQueue(x)' + InWork(x)' + InBook(x)'
                                  + IsDeferred(x)' + IsToRun(x)'
    BY DEF RefsCountHolders
  <2>1. /\ InQueue(x)' = InQueue(x) /\ InWork(x)' = InWork(x) /\ InBook(x)' = InBook(x)
        /\ IsDeferred(x)' = IsDeferred(x) /\ IsToRun(x)' = IsToRun(x)
    BY <1>1, SameHolders
  <2>8. /\ refs[x] = InFrames(x) + InQueue(x) + InWork(x) + InBook(x)
                     + IsDeferred(x) + IsToRun(x)
        /\ InFrames(x) \in Nat /\ InQueue(x) \in Nat /\ InWork(x) \in Nat
        /\ InBook(x) \in Nat /\ IsDeferred(x) \in Nat /\ IsToRun(x) \in Nat
    BY <1>1, Counted
  <2>9. In(x, arg[t]) \in Nat
    BY SetsOfCallbacks
  <2>. QED
    BY <1>2, <1>3, <2>1, <2>8, <2>9
<1>6. ArgsInv'
  <2>1. ASSUME NEW u \in Threads, u # t, pc[u] = "sending", NEW x \in arg[u]
        PROVE  refs'[x] = 1
    <3>1. refs[x] = 1 /\ x \in Callbacks /\ x \notin arg[t]
      BY <2>1, SendingAlone
    <3>. QED
      BY <1>3, <3>1 DEF In
  <2>2. pc'[t] = "idle" /\ arg'[t] = {}
        /\ \A u \in Threads \ {t} : pc'[u] = pc[u] /\ arg'[u] = arg[u]
    BY <1>1 DEF TypeOK
  <2>. QED
    BY <1>1, <2>1, <2>2 DEF ArgsInv
<1>7. ToRunInv'
  BY <1>1 DEF ToRunInv, TypeOK, Returning
<1>8. CurInv' /\ DeferredInv' /\ NewInv'
  BY <1>1 DEF PInv, CurInv, DeferredInv, NewInv
<1>9. WaitInv'
  BY <1>1, WaitStays DEF TypeOK
<1>. QED
  BY <1>4, <1>5, <1>6, <1>7, <1>8, <1>9 DEF PInv

-----------------------------------------------------------------------------
(* The dispatcher's steps leave the frames and, but for the answer, the *)
(* threads alone. *)

\* The first element of the queue goes to the dispatcher.
LEMMA OpenWindowKeeps ==
    ASSUME PInv, OpenWindow
    PROVE  PInv'
<1>1. /\ TypeOK /\ RefsCountHolders /\ CurInv /\ DeferredInv /\ NewInv /\ WaitInv
      /\ dpc = "idle" /\ queue # <<>> /\ dpc' \in {"insert", "pull"} /\ master' = Worker
      /\ cur = <<>> /\ deferred = <<>>
      /\ cur' = <<Head(queue)>> /\ queue' = Tail(queue)
      /\ UNCHANGED <<gil, pc, ret, arg, target, toRun, calls, refs, resting, deferred>>
  BY DEF PInv, OpenWindow, frame, CurInv, DeferredInv
<1>2. /\ queue \in Seq(Elem) /\ Len(queue) \in Nat \ {0} /\ DOMAIN queue = 1..Len(queue)
      /\ queue' \in Seq(Elem) /\ DOMAIN queue' = 1..(Len(queue) - 1)
      /\ \A i \in 1..(Len(queue) - 1) : queue'[i] = queue[i + 1]
      /\ Head(queue) = queue[1] /\ Head(queue) \in Elem
  BY <1>1, QueueElements
<1>3. cur'[1] = queue[1] /\ cur' \in Seq(Elem)
  BY <1>1, <1>2
<1>4. TypeOK'
  BY <1>1, <1>2, <1>3 DEF TypeOK
<1>5. RefsCountHolders'
  <2>. SUFFICES ASSUME NEW x \in Callbacks
                PROVE  refs'[x] = InFrames(x)' + InQueue(x)' + InWork(x)' + InBook(x)'
                                  + IsDeferred(x)' + IsToRun(x)'
    BY DEF RefsCountHolders
  <2>1. /\ InFrames(x)' = InFrames(x) /\ InBook(x)' = InBook(x)
        /\ IsDeferred(x)' = IsDeferred(x) /\ IsToRun(x)' = IsToRun(x)
    BY <1>1, SameHolders
  <2>2. InQueue(x)' = InQueue(x) - In(x, Head(queue).cb)
    BY <1>1, <1>2, OneElemLess DEF InQueue
  <2>3. InWork(x)' = In(x, Head(queue).cb) /\ InWork(x) = 0
    BY <1>1, <1>2, OneElem DEF InWork
  <2>8. /\ refs[x] = InFrames(x) + InQueue(x) + InWork(x) + InBook(x)
                     + IsDeferred(x) + IsToRun(x)
        /\ InFrames(x) \in Nat /\ InQueue(x) \in Nat /\ InWork(x) \in Nat
        /\ InBook(x) \in Nat /\ IsDeferred(x) \in Nat /\ IsToRun(x) \in Nat
    BY <1>1, Counted
  <2>9. In(x, Head(queue).cb) \in Nat
    BY SetsOfCallbacks
  <2>. QED
    BY <1>1, <2>1, <2>2, <2>3, <2>8, <2>9
<1>6. ArgsInv' /\ ToRunInv'
  BY <1>1 DEF PInv, ArgsInv, ToRunInv
<1>7. CurInv'
  BY <1>1, <1>2 DEF CurInv
<1>8. DeferredInv'
  BY <1>1 DEF DeferredInv
<1>9. NewInv'
  <2>1. /\ \A i \in 1..Len(queue) : queue[i].cb \cap resting = {}
        /\ \A i, j \in 1..Len(queue) : queue[i].cb \cap queue[j].cb # {} => i = j
    BY <1>1, <1>2 DEF NewInv
  <2>2. \A i \in 1..(Len(queue) - 1) : i + 1 \in 1..Len(queue) /\ i + 1 # 1
    BY <1>2
  <2>3. 1 \in 1..Len(queue)
    BY <1>2
  <2>4. \A i \in DOMAIN queue' : queue'[i].cb \cap resting = {}
    BY <1>2, <2>1, <2>2
  <2>5. \A i, j \in DOMAIN queue' : queue'[i].cb \cap queue'[j].cb # {} => i = j
    BY <1>2, <2>1, <2>2
  <2>6. cur'[1].cb \cap resting = {}
    BY <1>3, <2>1, <2>3
  <2>7. \A i \in DOMAIN queue' : queue'[i].cb \cap cur'[1].cb = {}
    BY <1>2, <1>3, <2>1, <2>2, <2>3
  <2>. QED
    BY <1>1, <2>4, <2>5, <2>6, <2>7 DEF NewInv
<1>10. WaitInv'
  <2>1. /\ \A i \in 1..Len(queue) : pc[queue[i].from] = "waiting"
        /\ \A i, j \in 1..Len(queue) : queue[i].from = queue[j].from => i = j
    BY <1>1, <1>2 DEF WaitInv
  <2>2. \A i \in 1..(Len(queue) - 1) : i + 1 \in 1..Len(queue) /\ i + 1 # 1
    BY <1>2
  <2>3. 1 \in 1..Len(queue)
    BY <1>2
  <2>4. \A i \in DOMAIN queue' : pc'[queue'[i].from] = "waiting"
    BY <1>1, <1>2, <2>1, <2>2
  <2>5. \A i, j \in DOMAIN queue' : queue'[i].from = queue'[j].from => i = j
    BY <1>2, <2>1, <2>2
  <2>6. pc'[cur'[1].from] = "waiting"
    BY <1>1, <1>3, <2>1, <2>3
  <2>7. \A i \in DOMAIN queue' : queue'[i].from # cur'[1].from
    BY <1>2, <1>3, <2>1, <2>2, <2>3
  <2>. QED
    BY <2>4, <2>5, <2>6, <2>7 DEF WaitInv
<1>. QED
  BY <1>4, <1>5, <1>6, <1>7, <1>8, <1>9, <1>10 DEF PInv

\* Steps of the dispatcher that leave the threads, the queue and the element in
\* work alone keep the parts of the invariant that are about those.
LEMMA InsideWindow ==
    ASSUME PInv, dpc # "idle", dpc' \notin {"idle", "dropping"} => dpc # "dropping",
           dpc' # "idle",
           UNCHANGED <<pc, ret, arg, toRun, queue, cur>>,
           \A u \in Threads : pc[u] = "sending" => \A x \in arg[u] : refs'[x] = refs[x]
    PROVE  ArgsInv' /\ ToRunInv' /\ CurInv' /\ WaitInv'
<1>1. ArgsInv'
  BY ArgsStay
<1>2. ToRunInv'
  BY DEF PInv, ToRunInv
<1>3. CurInv'
  BY DEF PInv, CurInv
<1>4. WaitInv'
  BY DEF PInv, WaitInv
<1>. QED
  BY <1>1, <1>2, <1>3, <1>4

\* The callback of the order that is popped is deferred.
LEMMA PopOrderKeeps ==
    ASSUME PInv, PopOrder
    PROVE  PInv'
<1>. DEFINE D == cur[1].pulls
<1>1. /\ TypeOK /\ RefsCountHolders /\ CurInv /\ NewInv
      /\ dpc = "pull" /\ dpc' = "pulled" /\ D \subseteq resting /\ deferred = <<>>
      /\ refs' = Wrap(D)
      /\ UNCHANGED <<gil, master, pc, ret, arg, target, toRun, calls, queue, cur, resting>>
  BY DEF PInv, PopOrder, frame, DeferredInv
<1>2. PICK d \in D : deferred' = <<d>>
  BY DEF PopOrder
<1>3. D \in OneOrNone /\ D \subseteq Callbacks
  BY <1>1, ElementInWork
<1>4. D = {d} /\ d \in Callbacks
  BY <1>2, <1>3 DEF OneOrNone
<1>5. /\ refs' \in [Callbacks -> Nat]
      /\ \A x \in Callbacks : refs'[x] = refs[x] + In(x, D)
  BY <1>1, WrapAdds
<1>6. TypeOK'
  <2>1. deferred' \in Seq(Callbacks)
    BY <1>2, <1>4
  <2>. QED
    BY <1>1, <1>5, <2>1 DEF TypeOK
<1>7. RefsCountHolders'
  <2>. SUFFICES ASSUME NEW x \in Callbacks
                PROVE  refs'[x] = InFrames(x)' + InQueue(x)' + InWork(x)' + InBook(x)'
                                  + IsDeferred(x)' + IsToRun(x)'
    BY DEF RefsCountHolders
  <2>1. /\ InFrames(x)' = InFrames(x) /\ InQueue(x)' = InQueue(x) /\ InWork(x)' = InWork(x)
        /\ InBook(x)' = InBook(x) /\ IsToRun(x)' = IsToRun(x)
    BY <1>1, SameHolders
  <2>2. IsDeferred(x) = 0
    BY <1>1, NoneInEmpty DEF IsDeferred, Occurrences
  <2>3. IsDeferred(x)' = In(x, D)
    <3>1. Occurrences(x, <<d>>) = IF d = x THEN 1 ELSE 0
      <4>1. <<>> \in Seq(Callbacks) /\ Append(<<>>, d) = <<d>>
        OBVIOUS
      <4>2. Occurrences(x, Append(<<>>, d)) = Occurrences(x, <<>>) + (IF d = x THEN 1 ELSE 0)
        BY <1>4, <4>1, OneMore
      <4>. QED
        BY <4>1, <4>2, NoneInEmpty
    <3>. QED
      BY <1>2, <1>4, <3>1 DEF IsDeferred, Occurrences, In
  <2>8. /\ refs[x] = InFrames(x) + InQueue(x) + InWork(x) + InBook(x)
                     + IsDeferred(x) + IsToRun(x)
        /\ InFrames(x) \in Nat /\ InQueue(x) \in Nat /\ InWork(x) \in Nat
        /\ InBook(x) \in Nat /\ IsDeferred(x) \in Nat /\ IsToRun(x) \in Nat
    BY <1>1, Counted
  <2>9. In(x, D) \in Nat
    BY SetsOfCallbacks
  <2>. QED
    BY <1>5, <2>1, <2>2, <2>3, <2>8, <2>9
<1>8. ArgsInv' /\ ToRunInv' /\ CurInv' /\ WaitInv'
  <2>1. ASSUME NEW u \in Threads, pc[u] = "sending", NEW x \in arg[u]
        PROVE  refs'[x] = refs[x]
    <3>1. InBook(x) = 0 /\ x \in Callbacks /\ refs[x] = 1
      BY <2>1, SendingAlone
    <3>2. x \notin D
      BY <1>1, <3>1 DEF InBook, In
    <3>. QED
      BY <1>5, <3>1, <3>2 DEF In
  <2>. QED
    BY <1>1, <2>1, InsideWindow
<1>9. DeferredInv'
  BY <1>1 DEF DeferredInv
<1>10. NewInv'
  BY <1>1 DEF NewInv, Inserting
<1>. QED
  BY <1>6, <1>7, <1>8, <1>9, <1>10 DEF PInv

\* The order that was popped leaves the book.
LEMMA DropPoppedKeeps ==
    ASSUME PInv, DropPopped
    PROVE  PInv'
<1>. DEFINE D == cur[1].pulls
<1>1. /\ TypeOK /\ RefsCountHolders /\ CurInv /\ NewInv
      /\ dpc = "pulled" /\ dpc' \in {"insert", "processed"} /\ D \subseteq resting
      /\ refs' = Unwrap(D) /\ resting' = resting \ D
      /\ UNCHANGED <<gil, master, pc, ret, arg, target, toRun, calls, queue, cur, deferred>>
  BY DEF PInv, DropPopped, frame, DeferredInv
<1>2. D \subseteq Callbacks /\ \A x \in D : InBook(x) = 1
  BY <1>1, ElementInWork DEF InBook, In
<1>3. /\ refs' \in [Callbacks -> Nat]
      /\ \A x \in Callbacks : refs'[x] = refs[x] - In(x, D)
  <2>1. \A x \in Callbacks : x \in D => refs[x] >= 1
    BY <1>1, <1>2, Counted
  <2>. QED
    BY <1>1, <2>1, UnwrapTakes
<1>4. TypeOK'
  BY <1>1, <1>3 DEF TypeOK
<1>5. RefsCountHolders'
  <2>. SUFFICES ASSUME NEW x \in Callbacks
                PROVE  refs'[x] = InFrames(x)' + InQueue(x)' + InWork(x)' + InBook(x)'
                                  + IsDeferred(x)' + IsToRun(x)'
    BY DEF RefsCountHolders
  <2>1. /\ InFrames(x)' = InFrames(x) /\ InQueue(x)' = InQueue(x) /\ InWork(x)' = InWork(x)
        /\ IsDeferred(x)' = IsDeferred(x) /\ IsToRun(x)' = IsToRun(x)
    BY <1>1, SameHolders
  <2>2. InBook(x)' = InBook(x) - In(x, D)
    BY <1>1 DEF InBook, In
  <2>8. /\ refs[x] = InFrames(x) + InQueue(x) + InWork(x) + InBook(x)
                     + IsDeferred(x) + IsToRun(x)
        /\ InFrames(x) \in Nat /\ InQueue(x) \in Nat /\ InWork(x) \in Nat
        /\ InBook(x) \in Nat /\ IsDeferred(x) \in Nat /\ IsToRun(x) \in Nat
    BY <1>1, Counted
  <2>9. In(x, D) \in Nat
    BY SetsOfCallbacks
  <2>. QED
    BY <1>3, <2>1, <2>2, <2>8, <2>9
<1>6. ArgsInv' /\ ToRunInv' /\ CurInv' /\ WaitInv'
  <2>1. ASSUME NEW u \in Threads, pc[u] = "sending", NEW x \in arg[u]
        PROVE  refs'[x] = refs[x]
    <3>1. InBook(x) = 0 /\ x \in Callbacks /\ refs[x] = 1
      BY <2>1, SendingAlone
    <3>2. x \notin D
      BY <1>2, <3>1
    <3>. QED
      BY <1>3, <3>1, <3>2 DEF In
  <2>. QED
    BY <1>1, <2>1, InsideWindow
<1>7. DeferredInv'
  BY <1>1 DEF DeferredInv
<1>8. NewInv'
  BY <1>1 DEF NewInv, Inserting
<1>. QED
  BY <1>4, <1>5, <1>6, <1>7, <1>8 DEF PInv

\* There is nothing to pull.
LEMMA NothingToPullKeeps ==
    ASSUME PInv, NothingToPull
    PROVE  PInv'
<1>1. /\ dpc = "pull" /\ dpc' = "processed"
      /\ UNCHANGED <<gil, master, pc, ret, arg, target, toRun, calls, refs, queue, cur,
                     resting, deferred>>
  BY DEF NothingToPull, frame
<1>2. TypeOK'
  BY <1>1 DEF PInv, TypeOK
<1>3. RefsCountHolders'
  BY <1>1, SameHolders DEF PInv, RefsCountHolders
<1>4. ArgsInv' /\ ToRunInv' /\ CurInv' /\ WaitInv'
  BY <1>1, InsideWindow
<1>5. DeferredInv' /\ NewInv'
  BY <1>1 DEF PInv, DeferredInv, NewInv, Inserting
<1>. QED
  BY <1>2, <1>3, <1>4, <1>5 DEF PInv

\* The order goes to the book, which has not had it.
LEMMA RestKeeps ==
    ASSUME PInv, Rest
    PROVE  PInv'
<1>. DEFINE C == cur[1].cb
<1>1. /\ TypeOK /\ RefsCountHolders /\ CurInv /\ DeferredInv /\ NewInv
      /\ dpc = "insert" /\ dpc' = "processed"
      /\ refs' = Wrap(C) /\ resting' = resting \cup C
      /\ UNCHANGED <<gil, master, pc, ret, arg, target, toRun, calls, queue, cur, deferred>>
  BY DEF PInv, Rest, frame
<1>2. C \subseteq Callbacks /\ C \cap resting = {} /\ \A x : InWork(x) = In(x, C)
  BY <1>1, ElementInWork DEF NewInv, Inserting
<1>3. /\ refs' \in [Callbacks -> Nat]
      /\ \A x \in Callbacks : refs'[x] = refs[x] + In(x, C)
  BY <1>1, WrapAdds
<1>4. TypeOK'
  BY <1>1, <1>2, <1>3 DEF TypeOK
<1>5. RefsCountHolders'
  <2>. SUFFICES ASSUME NEW x \in Callbacks
                PROVE  refs'[x] = InFrames(x)' + InQueue(x)' + InWork(x)' + InBook(x)'
                                  + IsDeferred(x)' + IsToRun(x)'
    BY DEF RefsCountHolders
  <2>1. /\ InFrames(x)' = InFrames(x) /\ InQueue(x)' = InQueue(x) /\ InWork(x)' = InWork(x)
        /\ IsDeferred(x)' = IsDeferred(x) /\ IsToRun(x)' = IsToRun(x)
    BY <1>1, SameHolders
  <2>2. InBook(x)' = InBook(x) + In(x, C)
    BY <1>1, <1>2 DEF InBook, In
  <2>8. /\ refs[x] = InFrames(x) + InQueue(x) + InWork(x) + InBook(x)
                     + IsDeferred(x) + IsToRun(x)
        /\ InFrames(x) \in Nat /\ InQueue(x) \in Nat /\ InWork(x) \in Nat
        /\ InBook(x) \in Nat /\ IsDeferred(x) \in Nat /\ IsToRun(x) \in Nat
    BY <1>1, Counted
  <2>9. In(x, C) \in Nat
    BY SetsOfCallbacks
  <2>. QED
    BY <1>3, <2>1, <2>2, <2>8, <2>9
<1>6. ArgsInv' /\ ToRunInv' /\ CurInv' /\ WaitInv'
  <2>1. ASSUME NEW u \in Threads, pc[u] = "sending", NEW x \in arg[u]
        PROVE  refs'[x] = refs[x]
    <3>1. InWork(x) = 0 /\ x \in Callbacks /\ refs[x] = 1
      BY <2>1, SendingAlone
    <3>. QED
      BY <1>2, <1>3, <3>1
  <2>. QED
    BY <1>1, <2>1, InsideWindow
<1>7. DeferredInv'
  BY <1>1 DEF DeferredInv
<1>8. NewInv'
  <2>1. \A i \in DOMAIN queue : queue[i].cb \cap resting = {} /\ queue[i].cb \cap C = {}
    BY <1>1 DEF NewInv, Inserting
  <2>. QED
    BY <1>1, <2>1 DEF NewInv, Inserting
<1>. QED
  BY <1>4, <1>5, <1>6, <1>7, <1>8 DEF PInv

\* The callbacks of both orders are deferred.
LEMMA FillKeeps ==
    ASSUME PInv, NEW c \in Callbacks, Fill(c)
    PROVE  PInv'
<1>. DEFINE C == cur[1].cb
            F == {c}
<1>1. /\ TypeOK /\ RefsCountHolders /\ CurInv /\ DeferredInv /\ NewInv
      /\ dpc = "insert" /\ dpc' = "filled" /\ c \in resting
      /\ refs' = Wrap({c} \cup C) /\ deferred \in Seq(Callbacks)
      /\ UNCHANGED <<gil, master, pc, ret, arg, target, toRun, calls, queue, cur, resting>>
  BY DEF PInv, Fill, frame, TypeOK
<1>2. PICK d \in C : deferred' = deferred \o <<d, c>>
  BY DEF Fill
<1>3. /\ C \in OneOrNone /\ C \subseteq Callbacks /\ C \cap resting = {}
      /\ \A x : InWork(x) = In(x, C)
  BY <1>1, ElementInWork DEF NewInv, Inserting
<1>4. C = {d} /\ d \in Callbacks /\ d # c
  BY <1>1, <1>2, <1>3 DEF OneOrNone
<1>5. /\ refs' \in [Callbacks -> Nat]
      /\ \A x \in Callbacks : refs'[x] = refs[x] + In(x, C) + In(x, F)
  <2>1. /\ refs' \in [Callbacks -> Nat]
        /\ \A x \in Callbacks : refs'[x] = refs[x] + In(x, {c} \cup C)
    BY <1>1, WrapAdds
  <2>2. \A x : In(x, {c} \cup C) = In(x, C) + In(x, F)
    BY <1>4 DEF In
  <2>3. ASSUME NEW x \in Callbacks
        PROVE  refs'[x] = refs[x] + In(x, C) + In(x, F)
    <3>1. refs[x] \in Nat
      BY <1>1 DEF TypeOK
    <3>2. In(x, C) \in Nat /\ In(x, F) \in Nat
      BY SetsOfCallbacks
    <3>3. refs'[x] = refs[x] + (In(x, C) + In(x, F))
      BY <2>1, <2>2
    <3>. QED
      BY <3>1, <3>2, <3>3
  <2>. QED
    BY <2>1, <2>3
<1>6. /\ deferred' \in Seq(Callbacks) /\ deferred' # <<>> /\ Last(deferred') = c
      /\ \A x : Occurrences(x, deferred') =
                    Occurrences(x, deferred) + In(x, C) + In(x, F)
  <2>1. /\ deferred \o <<d, c>> \in Seq(Callbacks) /\ deferred \o <<d, c>> # <<>>
        /\ Last(deferred \o <<d, c>>) = c
        /\ \A x : Occurrences(x, deferred \o <<d, c>>) =
                      Occurrences(x, deferred) + In(x, {d}) + In(x, {c})
    <3>1. c \in Callbacks /\ d \in Callbacks /\ deferred \in Seq(Callbacks)
      BY <1>1, <1>4
    <3>. QED
      BY <3>1, TwoMore
  <2>. QED
    BY <1>2, <1>4, <2>1, Zenon
<1>. HIDE DEF C, F
<1>7. TypeOK'
  BY <1>1, <1>5, <1>6 DEF TypeOK
<1>8. RefsCountHolders'
  <2>. SUFFICES ASSUME NEW x \in Callbacks
                PROVE  refs'[x] = InFrames(x)' + InQueue(x)' + InWork(x)' + InBook(x)'
                                  + IsDeferred(x)' + IsToRun(x)'
    BY DEF RefsCountHolders
  <2>1. /\ InFrames(x)' = InFrames(x) /\ InQueue(x)' = InQueue(x) /\ InWork(x)' = InWork(x)
        /\ InBook(x)' = InBook(x) /\ IsToRun(x)' = IsToRun(x)
    BY <1>1, SameHolders
  <2>2. IsDeferred(x)' = IsDeferred(x) + In(x, C) + In(x, F)
    BY <1>6 DEF IsDeferred, Occurrences
  <2>8. /\ refs[x] = InFrames(x) + InQueue(x) + InWork(x) + InBook(x)
                     + IsDeferred(x) + IsToRun(x)
        /\ InFrames(x) \in Nat /\ InQueue(x) \in Nat /\ InWork(x) \in Nat
        /\ InBook(x) \in Nat /\ IsDeferred(x) \in Nat /\ IsToRun(x) \in Nat
    BY <1>1, Counted
  <2>9. In(x, C) \in Nat /\ In(x, F) \in Nat
    BY SetsOfCallbacks
  <2>. QED
    BY <1>5, <2>1, <2>2, <2>8, <2>9
<1>9. ArgsInv' /\ ToRunInv' /\ CurInv' /\ WaitInv'
  <2>1. ASSUME NEW u \in Threads, pc[u] = "sending", NEW x \in arg[u]
        PROVE  refs'[x] = refs[x]
    <3>1. InWork(x) = 0 /\ InBook(x) = 0 /\ x \in Callbacks /\ refs[x] = 1
      BY <2>1, SendingAlone
    <3>2. x # d
      BY <1>3, <1>4, <3>1 DEF In
    <3>3. x # c
      BY <1>1, <3>1 DEF InBook, In
    <3>. QED
      BY <1>5, <3>1, <3>2, <3>3, <1>4 DEF In, F
  <2>. QED
    BY <1>1, <2>1, InsideWindow
<1>10. DeferredInv'
  BY <1>1, <1>6 DEF DeferredInv
<1>11. NewInv'
  BY <1>1 DEF NewInv, Inserting
<1>. QED
  BY <1>7, <1>8, <1>9, <1>10, <1>11 DEF PInv

\* The order that was filled leaves the book.
LEMMA EraseFilledKeeps ==
    ASSUME PInv, EraseFilled
    PROVE  PInv'
<1>. DEFINE c == Last(deferred)
            F == {c}
<1>1. /\ TypeOK /\ RefsCountHolders /\ CurInv /\ DeferredInv /\ NewInv
      /\ dpc = "filled" /\ dpc' = "processed" /\ c \in resting
      /\ refs' = Unwrap(F) /\ resting' = resting \ F
      /\ UNCHANGED <<gil, master, pc, ret, arg, target, toRun, calls, queue, cur, deferred>>
  BY DEF PInv, EraseFilled, frame, DeferredInv
<1>2. c \in Callbacks /\ InBook(c) = 1
  BY <1>1 DEF TypeOK, InBook, In
<1>f. c \in F /\ \A x : x # c => x \notin F
  OBVIOUS
<1>. HIDE DEF c, F
<1>3. /\ refs' \in [Callbacks -> Nat]
      /\ \A x \in Callbacks : refs'[x] = refs[x] - In(x, F)
  <2>1. refs[c] >= 1
    BY <1>1, <1>2, Counted
  <2>2. \A x \in Callbacks : x \in F => refs[x] >= 1
    BY <1>f, <2>1
  <2>. QED
    BY <1>1, <2>2, UnwrapTakes
<1>4. TypeOK'
  BY <1>1, <1>3 DEF TypeOK
<1>5. RefsCountHolders'
  <2>. SUFFICES ASSUME NEW x \in Callbacks
                PROVE  refs'[x] = InFrames(x)' + InQueue(x)' + InWork(x)' + InBook(x)'
                                  + IsDeferred(x)' + IsToRun(x)'
    BY DEF RefsCountHolders
  <2>1. /\ InFrames(x)' = InFrames(x) /\ InQueue(x)' = InQueue(x) /\ InWork(x)' = InWork(x)
        /\ IsDeferred(x)' = IsDeferred(x) /\ IsToRun(x)' = IsToRun(x)
    BY <1>1, SameHolders
  <2>2. InBook(x)' = InBook(x) - In(x, F)
    BY <1>1, <1>f DEF InBook, In
  <2>8. /\ refs[x] = InFrames(x) + InQueue(x) + InWork(x) + InBook(x)
                     + IsDeferred(x) + IsToRun(x)
        /\ InFrames(x) \in Nat /\ InQueue(x) \in Nat /\ InWork(x) \in Nat
        /\ InBook(x) \in Nat /\ IsDeferred(x) \in Nat /\ IsToRun(x) \in Nat
    BY <1>1, Counted
  <2>9. In(x, F) \in Nat
    BY SetsOfCallbacks
  <2>. QED
    BY <1>3, <2>1, <2>2, <2>8, <2>9
<1>6. ArgsInv' /\ ToRunInv' /\ CurInv' /\ WaitInv'
  <2>1. ASSUME NEW u \in Threads, pc[u] = "sending", NEW x \in arg[u]
        PROVE  refs'[x] = refs[x]
    <3>1. InBook(x) = 0 /\ x \in Callbacks /\ refs[x] = 1
      BY <2>1, SendingAlone
    <3>2. x # c
      BY <1>2, <3>1
    <3>. QED
      BY <1>3, <1>f, <3>1, <3>2 DEF In
  <2>. QED
    BY <1>1, <2>1, InsideWindow
<1>7. DeferredInv'
  BY <1>1 DEF DeferredInv
<1>8. NewInv'
  BY <1>1 DEF NewInv, Inserting
<1>. QED
  BY <1>4, <1>5, <1>6, <1>7, <1>8 DEF PInv

\* The lock is given up.
LEMMA CloseWindowKeeps ==
    ASSUME PInv, CloseWindow
    PROVE  PInv'
<1>1. /\ dpc = "processed" /\ dpc' = "answering" /\ master' = NoOne
      /\ UNCHANGED <<gil, pc, ret, arg, target, toRun, calls, refs, queue, cur, resting,
                     deferred>>
  BY DEF CloseWindow, frame
<1>2. TypeOK'
  BY <1>1 DEF PInv, TypeOK
<1>3. RefsCountHolders'
  BY <1>1, SameHolders DEF PInv, RefsCountHolders
<1>4. ArgsInv' /\ ToRunInv' /\ CurInv' /\ WaitInv'
  BY <1>1, InsideWindow
<1>5. DeferredInv' /\ NewInv'
  BY <1>1 DEF PInv, DeferredInv, NewInv, Inserting
<1>. QED
  BY <1>2, <1>3, <1>4, <1>5 DEF PInv

\* The callbacks of the window go to the thread that waits for it.
LEMMA AnswerKeeps ==
    ASSUME PInv, Answer
    PROVE  PInv'
<1>. DEFINE t == cur[1].from
<1>1. /\ TypeOK /\ RefsCountHolders /\ CurInv /\ NewInv /\ WaitInv /\ ToRunInv
      /\ dpc = "answering" /\ dpc' = "dropping" /\ deferred' = <<>>
      /\ toRun' = [toRun EXCEPT ![t] = deferred] /\ pc' = [pc EXCEPT ![t] = "answered"]
      /\ UNCHANGED <<gil, master, ret, arg, target, calls, refs, queue, cur, resting>>
  BY DEF PInv, Answer, Goto
<1>2. t \in Threads /\ pc[t] = "waiting" /\ deferred \in Seq(Callbacks)
  BY <1>1, ElementInWork DEF WaitInv, TypeOK
<1>3. toRun[t] = <<>>
  BY <1>1, <1>2 DEF ToRunInv
<1>4. pc'[t] = "answered" /\ \A u \in Threads \ {t} : pc'[u] = pc[u]
  BY <1>1, <1>2 DEF TypeOK
<1>5. TypeOK'
  <2>1. toRun' \in [Threads -> Seq(Callbacks)] /\ pc' \in [Threads -> Places]
    BY <1>1, <1>2 DEF TypeOK, Places
  <2>2. deferred' \in Seq(Callbacks)
    BY <1>1
  <2>. QED
    BY <1>1, <2>1, <2>2 DEF TypeOK
<1>6. RefsCountHolders'
  <2>. SUFFICES ASSUME NEW x \in Callbacks
                PROVE  refs'[x] = InFrames(x)' + InQueue(x)' + InWork(x)' + InBook(x)'
                                  + IsDeferred(x)' + IsToRun(x)'
    BY DEF RefsCountHolders
  <2>1. /\ InFrames(x)' = InFrames(x) /\ InQueue(x)' = InQueue(x) /\ InWork(x)' = InWork(x)
        /\ InBook(x)' = InBook(x)
    BY <1>1, SameHolders
  <2>2. IsToRun(x)' = IsToRun(x) - Occurrences(x, toRun[t]) + Occurrences(x, deferred)
    BY <1>1, <1>2, ToRunStep
  <2>3. Occurrences(x, toRun[t]) = 0 /\ IsDeferred(x) = Occurrences(x, deferred)
        /\ IsDeferred(x)' = 0
    BY <1>1, <1>3, NoneInEmpty DEF IsDeferred, Occurrences
  <2>8. /\ refs[x] = InFrames(x) + InQueue(x) + InWork(x) + InBook(x)
                     + IsDeferred(x) + IsToRun(x)
        /\ InFrames(x) \in Nat /\ InQueue(x) \in Nat /\ InWork(x) \in Nat
        /\ InBook(x) \in Nat /\ IsDeferred(x) \in Nat /\ IsToRun(x) \in Nat
    BY <1>1, Counted
  <2>. QED
    BY <1>1, <2>1, <2>2, <2>3, <2>8
<1>7. ArgsInv'
  BY <1>1, <1>4, ArgsStay
<1>8. ToRunInv'
  BY <1>1, <1>2, <1>4 DEF ToRunInv, TypeOK, Returning
<1>9. CurInv' /\ DeferredInv' /\ NewInv'
  BY <1>1 DEF CurInv, DeferredInv, NewInv, Inserting
<1>10. WaitInv'
  <2>1. \A i \in DOMAIN queue : queue[i].from # t
    BY <1>1 DEF WaitInv
  <2>2. \A i \in DOMAIN queue : pc'[queue[i].from] = "waiting"
    BY <1>1, <1>4, <2>1, QueueElements DEF WaitInv
  <2>. QED
    BY <1>1, <2>2 DEF WaitInv
<1>. QED
  BY <1>5, <1>6, <1>7, <1>8, <1>9, <1>10 DEF PInv

\* The element goes.
LEMMA DropElementKeeps ==
    ASSUME PInv, DropElement
    PROVE  PInv'
<1>. DEFINE C == cur[1].cb
<1>1. /\ TypeOK /\ RefsCountHolders /\ CurInv /\ DeferredInv /\ NewInv /\ WaitInv
      /\ dpc = "dropping" /\ dpc' = "idle" /\ cur' = <<>>
      /\ refs' = Unwrap(C)
      /\ UNCHANGED <<gil, master, pc, ret, arg, target, toRun, calls, queue, resting, deferred>>
  BY DEF PInv, DropElement, frame
<1>2. C \subseteq Callbacks /\ \A x : InWork(x) = In(x, C)
  BY <1>1, ElementInWork
<1>3. /\ refs' \in [Callbacks -> Nat]
      /\ \A x \in Callbacks : refs'[x] = refs[x] - In(x, C)
  <2>1. ASSUME NEW x \in Callbacks, x \in C
        PROVE  refs[x] >= 1
    <3>1. InWork(x) = 1
      BY <1>2, <2>1 DEF In
    <3>. QED
      BY <1>1, <3>1, Counted
  <2>. QED
    BY <1>1, <2>1, UnwrapTakes
<1>4. TypeOK'
  <2>1. cur' \in Seq(Elem)
    BY <1>1
  <2>. QED
    BY <1>1, <1>3, <2>1 DEF TypeOK
<1>5. RefsCountHolders'
  <2>. SUFFICES ASSUME NEW x \in Callbacks
                PROVE  refs'[x] = InFrames(x)' + InQueue(x)' + InWork(x)' + InBook(x)'
                                  + IsDeferred(x)' + IsToRun(x)'
    BY DEF RefsCountHolders
  <2>1. /\ InFrames(x)' = InFrames(x) /\ InQueue(x)' = InQueue(x) /\ InBook(x)' = InBook(x)
        /\ IsDeferred(x)' = IsDeferred(x) /\ IsToRun(x)' = IsToRun(x)
    BY <1>1, SameHolders
  <2>2. InWork(x)' = 0
    BY <1>1, OneElem DEF InWork
  <2>8. /\ refs[x] = InFrames(x) + InQueue(x) + InWork(x) + InBook(x)
                     + IsDeferred(x) + IsToRun(x)
        /\ InFrames(x) \in Nat /\ InQueue(x) \in Nat /\ InWork(x) \in Nat
        /\ InBook(x) \in Nat /\ IsDeferred(x) \in Nat /\ IsToRun(x) \in Nat
    BY <1>1, Counted
  <2>9. In(x, C) \in Nat
    BY SetsOfCallbacks
  <2>. QED
    BY <1>2, <1>3, <2>1, <2>2, <2>8, <2>9
<1>6. ArgsInv'
  <2>1. ASSUME NEW u \in Threads, pc[u] = "sending", NEW x \in arg[u]
        PROVE  refs'[x] = refs[x]
    <3>1. InWork(x) = 0 /\ x \in Callbacks /\ refs[x] = 1
      BY <2>1, SendingAlone
    <3>. QED
      BY <1>2, <1>3, <3>1
  <2>. QED
    BY <1>1, <2>1, ArgsStay
<1>7. ToRunInv'
  BY <1>1 DEF PInv, ToRunInv
<1>8. CurInv' /\ DeferredInv' /\ WaitInv' /\ NewInv'
  BY <1>1 DEF CurInv, DeferredInv, WaitInv, NewInv, Inserting
<1>. QED
  BY <1>4, <1>5, <1>6, <1>7, <1>8 DEF PInv

-----------------------------------------------------------------------------

\* Nothing holds a callback at first.
LEMMA InitHolds ==
    Init => PInv
<1>. SUFFICES ASSUME Init PROVE PInv
  OBVIOUS
<1>1. TypeOK
  BY PythonAssumption DEF Init, TypeOK, Places, OneOrNone
<1>2. RefsCountHolders
  <2>. SUFFICES ASSUME NEW x \in Callbacks
                PROVE  refs[x] = InFrames(x) + InQueue(x) + InWork(x) + InBook(x)
                                 + IsDeferred(x) + IsToRun(x)
    BY DEF RefsCountHolders
  <2>1. InFrames(x) = 0
    <3>1. Frames(x, arg) = {}
      BY DEF Init, Frames
    <3>. QED
      BY <3>1, FS_EmptySet DEF InFrames
  <2>2. InQueue(x) = 0 /\ InWork(x) = 0 /\ IsDeferred(x) = 0
    BY OneElem, NoneInEmpty DEF Init, InQueue, InWork, IsDeferred, Occurrences
  <2>3. InBook(x) = 0 /\ refs[x] = 0
    BY DEF Init, InBook, In
  <2>4. IsToRun(x) = 0
    <3>1. RunPlaces(x, toRun) = {}
      BY NoneInEmpty DEF Init, RunPlaces
    <3>. QED
      BY <3>1, FS_EmptySet DEF IsToRun
  <2>. QED
    BY <2>1, <2>2, <2>3, <2>4
<1>3. ArgsInv /\ ToRunInv
  BY DEF Init, ArgsInv, ToRunInv, Returning
<1>4. CurInv /\ DeferredInv /\ WaitInv /\ NewInv
  BY DEF Init, CurInv, DeferredInv, WaitInv, NewInv, Inserting
<1>. QED
  BY <1>1, <1>2, <1>3, <1>4 DEF PInv

\* Every step keeps the invariant, with SOB_is_valid_price too.
LEMMA StepsKeep ==
    PInv /\ [Next \/ \E t \in Threads : IsValidPrice(t)]_vars => PInv'
<1>. SUFFICES ASSUME PInv, [Next \/ \E t \in Threads : IsValidPrice(t)]_vars
              PROVE  PInv'
  OBVIOUS
<1>1. CASE DispatcherStep
  BY <1>1, OpenWindowKeeps, PopOrderKeeps, DropPoppedKeeps, NothingToPullKeeps, RestKeeps,
     FillKeeps, EraseFilledKeeps, CloseWindowKeeps, AnswerKeeps, DropElementKeeps
     DEF DispatcherStep
<1>2. ASSUME NEW t \in Threads, Enter(t) \/ ThreadStep(t) \/ IsValidPrice(t)
      PROVE  PInv'
  <2>1. (\E lock \in Threads \cup {NoOne} : ReadBook(t, lock)) => PInv'
    BY MovesKeep, Zenon
  <2>2. Query(t) \/ IsValidPrice(t) => \E lock \in Threads \cup {NoOne} : ReadBook(t, lock)
    BY DEF Query, IsValidPrice
  <2>3. (\E C, D \in OneOrNone : BeginCall(t, C, D)) => PInv'
    BY BeginCallKeeps, Zenon
  <2>4. (\E c \in Callbacks : Trade(t, c) \/ PullOrder(t, c))
        \/ (\E c, d \in Callbacks : ReplaceOrder(t, c, d)) =>
            \E C, D \in OneOrNone : BeginCall(t, C, D)
    <3>1. {} \in OneOrNone /\ \A c \in Callbacks : {c} \in OneOrNone
      BY DEF OneOrNone
    <3>. QED
      BY <3>1 DEF Trade, PullOrder, ReplaceOrder
  <2>5. Enter(t) \/ StartCallback(t) \/ CallbacksDone(t) \/ LockMaster(t)
        \/ UnlockMaster(t) \/ TakeGil(t) => PInv'
    BY MovesKeep, Zenon
  <2>6. Send(t) \/ EndCallback(t) \/ Leave(t) => PInv'
    BY SendKeeps, EndCallbackKeeps, LeaveKeeps
  <2>. QED
    BY <1>2, <2>1, <2>2, <2>3, <2>4, <2>5, <2>6 DEF ThreadStep
<1>3. CASE UNCHANGED vars
  <2>1. UNCHANGED <<gil, master, pc, ret, arg, target, toRun, calls, refs, queue, dpc, cur,
                    resting, deferred>>
    BY <1>3 DEF vars, frame, book
  <2>2. RefsCountHolders'
    BY <2>1, SameHolders DEF PInv, RefsCountHolders
  <2>3. TypeOK' /\ ArgsInv' /\ ToRunInv'
    BY <2>1 DEF PInv, TypeOK, ArgsInv, ToRunInv
  <2>4. CurInv' /\ DeferredInv' /\ WaitInv' /\ NewInv'
    BY <2>1 DEF PInv, CurInv, DeferredInv, WaitInv, NewInv
  <2>. QED
    BY <2>2, <2>3, <2>4 DEF PInv
<1>. QED
  BY <1>1, <1>2, <1>3 DEF Next

\* The reference count of a callback is the number of its holders (the copies
\* made by wrap_cb, by the chains, by _push_exec_callback and for a cancel).
THEOREM CallbacksCounted == Spec => []RefsCountHolders
<1>1. PInv /\ [Next]_vars => PInv'
  BY StepsKeep
<1>2. PInv => RefsCountHolders
  BY DEF PInv
<1>. QED
  BY InitHolds, <1>1, <1>2, PTL DEF Spec

\* The same when SOB_is_valid_price keeps the interpreter lock
THEOREM CallbacksCountedWithBothLocks == KeepingSpec => []RefsCountHolders
<1>1. PInv => RefsCountHolders
  BY DEF PInv
<1>. QED
  BY InitHolds, StepsKeep, <1>1, PTL DEF KeepingSpec

\* The object that a thread is calling is alive, whoever passed it and however
\* long ago.
CalledIsAlive == \A t \in Threads : pc[t] = "running" => refs[Head(toRun[t])] > 0

\* No callback is run after its object has gone: ExecCallbackWrap::operator()
\* never meets a reference count of zero.
THEOREM CallbacksAlive == Spec => []CalledIsAlive
<1>1. PInv => CalledIsAlive
  <2>. SUFFICES ASSUME PInv, NEW t \in Threads, pc[t] = "running"
                PROVE  refs[Head(toRun[t])] > 0
    BY DEF CalledIsAlive
  <2>. DEFINE h == Head(toRun[t])
              r == [toRun EXCEPT ![t] = Tail(toRun[t])]
  <2>1. /\ TypeOK /\ toRun \in [Threads -> Seq(Callbacks)]
        /\ toRun[t] \in Seq(Callbacks) /\ toRun[t] # <<>>
    BY DEF PInv, TypeOK, ToRunInv
  <2>2. h \in Callbacks /\ Tail(toRun[t]) \in Seq(Callbacks)
    BY <2>1
  <2>3. /\ Cardinality(RunPlaces(h, r)) \in Nat
        /\ Cardinality(RunPlaces(h, r)) =
               IsToRun(h) - Occurrences(h, toRun[t]) + Occurrences(h, Tail(toRun[t]))
    BY <2>1, <2>2, RunPlacesChange DEF IsToRun
  <2>4. Occurrences(h, Tail(toRun[t])) = Occurrences(h, toRun[t]) - 1
    BY <2>1, OneLess
  <2>5. Occurrences(h, toRun[t]) \in Nat
    BY <2>1, AtFinite
  <2>6. refs[h] = InFrames(h) + InQueue(h) + InWork(h) + InBook(h)
                  + IsDeferred(h) + IsToRun(h)
    BY <2>2 DEF PInv, RefsCountHolders
  <2>7. /\ InFrames(h) \in Nat /\ InQueue(h) \in Nat /\ InWork(h) \in Nat
        /\ InBook(h) \in Nat /\ IsDeferred(h) \in Nat /\ IsToRun(h) \in Nat
    BY <2>1, HoldersType
  <2>8. IsToRun(h) >= 1
    BY <2>3, <2>4, <2>5, <2>7
  <2>. QED
    BY <2>6, <2>7, <2>8
<1>2. PInv /\ [Next]_vars => PInv'
  BY StepsKeep
<1>. QED
  BY InitHolds, <1>1, <1>2, PTL DEF Spec
=============================================================================
