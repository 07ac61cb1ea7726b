----------------------------- MODULE Induction ------------------------------
(***************************************************************************)
(* Induction over numbers and over sequences, without operators as         *)
(* parameters: a set of numbers with 0 in it that is closed under          *)
(* successor has them all, and so has a set of sequences with <<>> in it   *)
(* that is closed under Append.  A proof by induction is about the set of  *)
(* what its claim holds for.  The modules that prove something about a     *)
(* function defined by recursion extend this one.                          *)
(***************************************************************************)
EXTENDS WellFoundedInduction, SequenceTheorems, TLAPS

\* A set of numbers that is not empty has a least one.
LEMMA LeastNumber ==
    ASSUME NEW T, T \subseteq Nat, T # {}
    PROVE  \E m \in T : \A k \in T : m <= k
<1> DEFINE R == {ss \in Nat \X Nat : ss[1] < ss[2]}
<1>1. IsWellFoundedOn(R, Nat)
  BY NatLessThanWellFounded DEF OpToRel
<1>2. \E x \in T : \A y \in T : ~ (<<y, x>> \in R)
  BY <1>1, WFMin, Zenon
<1>3. PICK m \in T : \A y \in T : ~ (<<y, m>> \in R)
  BY <1>2, Zenon
<1>4. ASSUME NEW k \in T
      PROVE  m <= k
  <2>1. <<k, m>> \in R <=> k < m
    OBVIOUS
  <2>2. k \in Nat /\ m \in Nat
    OBVIOUS
  <2> QED
    BY <1>3, <2>1, <2>2
<1> QED
  BY <1>4

\* The induction principle, told with sets.
LEMMA SetInduction ==
    ASSUME NEW S, S \subseteq Nat, 0 \in S, \A n \in S : n + 1 \in S
    PROVE  S = Nat
<1> SUFFICES ASSUME Nat \ S # {} PROVE FALSE
  OBVIOUS
<1>1. PICK m \in Nat \ S : \A k \in Nat \ S : m <= k
  <2> DEFINE T == Nat \ S
  <2>1. T \subseteq Nat /\ T # {}
    OBVIOUS
  <2> HIDE DEF T
  <2>2. \E m \in T : \A k \in T : m <= k
    BY <2>1, LeastNumber
  <2> QED
    BY <2>2 DEF T
<1>2. m # 0 /\ m \in Nat
  OBVIOUS
<1>3. m - 1 \in Nat /\ (m - 1) + 1 = m /\ ~ (m <= m - 1)
  BY <1>2
<1>4. m - 1 \in S
  BY <1>1, <1>3
<1> QED
  BY <1>3, <1>4

\* A set of sequences with <<>> in it that is closed under Append has them all.
LEMMA SequenceInduction ==
    ASSUME NEW X, NEW S, S \subseteq Seq(X), <<>> \in S,
           \A s \in S, x \in X : Append(s, x) \in S
    PROVE  S = Seq(X)
<1> DEFINE T == {n \in Nat : \A s \in Seq(X) : Len(s) = n => s \in S}
<1>1. 0 \in T
  <2>1. \A s \in Seq(X) : Len(s) = 0 => s = <<>>
    BY EmptySeq
  <2> QED
    BY <2>1
<1>2. ASSUME NEW n \in T
      PROVE  n + 1 \in T
  <2> SUFFICES ASSUME NEW s \in Seq(X), Len(s) = n + 1 PROVE s \in S
    OBVIOUS
  <2>1. s # <<>> /\ n \in Nat
    BY EmptySeq
  <2>2. PICK f \in Seq(X), x \in X : s = Append(f, x)
    BY <2>1, SequenceEmptyOrAppend
  <2>3. Len(f) = n
    BY <2>1, <2>2, AppendProperties
  <2>4. f \in S
    BY <2>3
  <2> QED
    BY <2>2, <2>4
<1>3. T \subseteq Nat
  OBVIOUS
<1>4. T = Nat
  <2> HIDE DEF T
  <2> QED
    BY <1>1, <1>2, <1>3, SetInduction
<1>5. \A s \in Seq(X) : Len(s) \in Nat
  OBVIOUS
<1>6. ASSUME NEW s \in Seq(X)
      PROVE  s \in S
  <2>1. Len(s) \in T
    BY <1>4, <1>5
  <2> QED
    BY <2>1
<1> QED
  BY <1>6
=============================================================================
