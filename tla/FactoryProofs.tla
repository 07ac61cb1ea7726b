---------------------------- MODULE FactoryProofs ----------------------------
(***************************************************************************)
(* The registries always agree, for any tick ratios, prices and number of  *)
(* books; an order rests at the level of its price however its book grew,  *)
(* and prices that are seen come back, in the books whose ticks the grid   *)
(* of doubles can tell.  First that what prices are built from (TickPrice) does what a   *)
(* book relies on: every operation returns a normal form, prices compare   *)
(* as their ticks do, and a price survives the conversion to a double and  *)
(* back whenever the grid of doubles is not coarser than the ticks.  The   *)
(* arithmetic is not linear, so it is done in lemmas on integers.  Then    *)
(* the heap and the registries, which are invariants of their own, since   *)
(* no call on a book touches a registry.                                   *)
(***************************************************************************)
EXTENDS Factory, TLAPS

(***************************************************************************)
(* Integers.                                                               *)
(***************************************************************************)

\* Division rounds down.
LEMMA DivBounds ==
    ASSUME NEW a \in Int, NEW n \in Nat \ {0}
    PROVE  /\ a \div n \in Int
           /\ n * (a \div n) <= a
           /\ a < n * (a \div n) + n
  BY Z3

\* The quotient is the number whose multiple is just below.
LEMMA DivUnique ==
    ASSUME NEW a \in Int, NEW n \in Nat \ {0}, NEW q \in Int,
           n * q <= a, a < n * q + n
    PROVE  a \div n = q
  OBVIOUS

\* A product grows with its factor.
LEMMA ProductGrows ==
    ASSUME NEW n \in Nat \ {0}, NEW a \in Int, NEW b \in Int, a < b
    PROVE  n * a + n <= n * b
  OBVIOUS

(***************************************************************************)
(* Normal forms.                                                           *)
(***************************************************************************)

\* Truncated division leaves less than the divisor, with the dividend's sign.
LEMMA QuotBounds ==
    ASSUME NEW a \in Int, NEW n \in Nat \ {0}
    PROVE  /\ Quot(a, n) \in Int
           /\ a >= 0 => n * Quot(a, n) <= a /\ a < n * Quot(a, n) + n
           /\ a < 0 => a <= n * Quot(a, n) /\ n * Quot(a, n) - n < a
<1>1. CASE a >= 0
  BY <1>1, DivBounds DEF Quot
<1>2. CASE a < 0
  <2>1. -a \in Int
    OBVIOUS
  <2> DEFINE q == (-a) \div n
  <2>2. q \in Int /\ n * q <= -a /\ -a < n * q + n
    BY <2>1, DivBounds
  <2>3. Quot(a, n) = -q
    BY <1>2 DEF Quot
  <2>4. n * (-q) = -(n * q)
    BY <2>2
  <2> QED
    BY <1>2, <2>2, <2>3, <2>4
<1> QED
  BY <1>1, <1>2

\* What has as many ticks, and both parts in range, is the same price.
LEMMA TicksAreUnique ==
    ASSUME NEW T \in Nat \ {0}, NEW p \in TickPrices(T), NEW q \in TickPrices(T),
           AsTicks(T, p) = AsTicks(T, q)
    PROVE  p = q
<1> DEFINE a == p.whole
           b == q.whole
<1>1. a \in Int /\ b \in Int /\ p.ticks \in 0..(T - 1) /\ q.ticks \in 0..(T - 1)
  BY DEF TickPrices
<1>2. T * a + p.ticks = T * b + q.ticks
  BY DEF AsTicks
<1>3. ~ (a < b)
  <2> SUFFICES ASSUME a < b PROVE FALSE
    OBVIOUS
  <2> HIDE DEF a, b
  <2>1. T * a + T <= T * b
    BY <1>1, ProductGrows
  <2> QED
    BY <1>1, <1>2, <2>1
<1>4. ~ (b < a)
  <2> SUFFICES ASSUME b < a PROVE FALSE
    OBVIOUS
  <2> HIDE DEF a, b
  <2>1. T * b + T <= T * a
    BY <1>1, ProductGrows
  <2> QED
    BY <1>1, <1>2, <2>1
<1>5. a = b /\ p.ticks = q.ticks
  BY <1>1, <1>2, <1>3, <1>4
<1> QED
  BY <1>5 DEF TickPrices

\* The constructor's result is a normal form of as many ticks.
THEOREM ConstructorNormalises ==
    ASSUME NEW T \in Nat \ {0}, NEW whole \in Int, NEW ticks \in Int
    PROVE  /\ NewTickPrice(T, whole, ticks) \in TickPrices(T)
           /\ AsTicks(T, NewTickPrice(T, whole, ticks)) = T * whole + ticks
<1> DEFINE quot == Quot(ticks, T)
           rem == ticks - T * quot
<1>1. quot \in Int /\ rem \in Int /\ -T < rem /\ rem < T
  <2>1. /\ quot \in Int
        /\ ticks >= 0 => T * quot <= ticks /\ ticks < T * quot + T
        /\ ticks < 0 => ticks <= T * quot /\ T * quot - T < ticks
    BY QuotBounds
  <2> HIDE DEF quot
  <2> QED
    BY <2>1
<1>2. NewTickPrice(T, whole, ticks) =
          IF rem < 0 THEN [whole |-> whole + quot - 1, ticks |-> rem + T]
                     ELSE [whole |-> whole + quot, ticks |-> rem]
  BY DEF NewTickPrice
<1>3. T * (whole + quot) = T * whole + T * quot
  BY <1>1
<1>4. T * (whole + quot - 1) = T * whole + T * quot - T
  BY <1>1
<1>5. CASE rem < 0
  <2>1. NewTickPrice(T, whole, ticks) = [whole |-> whole + quot - 1, ticks |-> rem + T]
    BY <1>2, <1>5
  <2>2. whole + quot - 1 \in Int /\ rem + T \in 0..(T - 1)
    BY <1>1, <1>5
  <2>3. T * (whole + quot - 1) + (rem + T) = T * whole + ticks
    BY <1>1, <1>4
  <2> HIDE DEF quot, rem
  <2> QED
    BY <2>1, <2>2, <2>3 DEF TickPrices, AsTicks
<1>6. CASE ~ (rem < 0)
  <2>1. NewTickPrice(T, whole, ticks) = [whole |-> whole + quot, ticks |-> rem]
    BY <1>2, <1>6
  <2>2. whole + quot \in Int /\ rem \in 0..(T - 1)
    BY <1>1, <1>6
  <2>3. T * (whole + quot) + rem = T * whole + ticks
    BY <1>1, <1>3
  <2> HIDE DEF quot, rem
  <2> QED
    BY <2>1, <2>2, <2>3 DEF TickPrices, AsTicks
<1> QED
  BY <1>5, <1>6

\* Prices compare, lexicographically, as their ticks do.
THEOREM GreaterComparesTicks ==
    ASSUME NEW T \in Nat \ {0}, NEW p \in TickPrices(T), NEW q \in TickPrices(T)
    PROVE  Greater(p, q) <=> AsTicks(T, p) > AsTicks(T, q)
<1> DEFINE a == p.whole
           b == q.whole
<1>1. a \in Int /\ b \in Int /\ p.ticks \in 0..(T - 1) /\ q.ticks \in 0..(T - 1)
  BY DEF TickPrices
<1>2. /\ AsTicks(T, p) = T * a + p.ticks
      /\ AsTicks(T, q) = T * b + q.ticks
  BY DEF AsTicks
<1>3. Greater(p, q) <=> (a > b \/ (a = b /\ p.ticks > q.ticks))
  BY DEF Greater
<1> HIDE DEF a, b
<1>4. a < b => T * a + T <= T * b
  BY <1>1, ProductGrows
<1>5. b < a => T * b + T <= T * a
  BY <1>1, ProductGrows
<1>6. T * a \in Int /\ T * b \in Int
  BY <1>1
<1> QED
  BY <1>1, <1>2, <1>3, <1>4, <1>5, <1>6

\* Differences and sums are those of the ticks.
LEMMA MinusCountsTicks ==
    ASSUME NEW T \in Nat \ {0}, NEW p \in TickPrices(T), NEW q \in TickPrices(T)
    PROVE  /\ Minus(T, p, q) \in TickPrices(T)
           /\ AsTicks(T, Minus(T, p, q)) = AsTicks(T, p) - AsTicks(T, q)
<1>1. p.whole \in Int /\ q.whole \in Int /\ p.ticks \in Int /\ q.ticks \in Int
  BY DEF TickPrices
<1>2. /\ Minus(T, p, q) \in TickPrices(T)
      /\ AsTicks(T, Minus(T, p, q)) = T * (p.whole - q.whole) + (p.ticks - q.ticks)
  <2> DEFINE w == p.whole - q.whole
             t == p.ticks - q.ticks
  <2>1. w \in Int /\ t \in Int
    BY <1>1
  <2>2. Minus(T, p, q) = NewTickPrice(T, w, t)
    BY DEF Minus
  <2> HIDE DEF w, t
  <2>3. /\ NewTickPrice(T, w, t) \in TickPrices(T)
        /\ AsTicks(T, NewTickPrice(T, w, t)) = T * w + t
    BY <2>1, ConstructorNormalises
  <2> QED
    BY <2>2, <2>3 DEF w, t
<1>3. T * (p.whole - q.whole) = T * p.whole - T * q.whole
  BY <1>1
<1> QED
  BY <1>1, <1>2, <1>3 DEF AsTicks

LEMMA PlusCountsTicks ==
    ASSUME NEW T \in Nat \ {0}, NEW p \in TickPrices(T), NEW n \in Int
    PROVE  /\ PlusTicks(T, p, n) \in TickPrices(T)
           /\ AsTicks(T, PlusTicks(T, p, n)) = AsTicks(T, p) + n
<1>1. p.whole \in Int /\ p.ticks \in Int
  BY DEF TickPrices
<1>2. /\ PlusTicks(T, p, n) \in TickPrices(T)
      /\ AsTicks(T, PlusTicks(T, p, n)) = T * p.whole + (p.ticks + n)
  <2> DEFINE w == p.whole
             t == p.ticks + n
  <2>1. w \in Int /\ t \in Int
    BY <1>1
  <2>2. PlusTicks(T, p, n) = NewTickPrice(T, w, t)
    BY DEF PlusTicks
  <2> HIDE DEF w, t
  <2>3. /\ NewTickPrice(T, w, t) \in TickPrices(T)
        /\ AsTicks(T, NewTickPrice(T, w, t)) = T * w + t
    BY <2>1, ConstructorNormalises
  <2> QED
    BY <2>2, <2>3 DEF w, t
<1> QED
  BY <1>1, <1>2 DEF AsTicks

LEMMA OfTicksCounts ==
    ASSUME NEW T \in Nat \ {0}, NEW n \in Int
    PROVE  OfTicks(T, n) \in TickPrices(T) /\ AsTicks(T, OfTicks(T, n)) = n
<1>1. /\ NewTickPrice(T, 0, n) \in TickPrices(T)
      /\ AsTicks(T, NewTickPrice(T, 0, n)) = T * 0 + n
  <2>1. 0 \in Int
    OBVIOUS
  <2> QED
    BY <2>1, ConstructorNormalises
<1>2. T * 0 = 0
  OBVIOUS
<1> QED
  BY <1>1, <1>2 DEF OfTicks

(***************************************************************************)
(* Doubles.                                                                *)
(***************************************************************************)

\* Rounding moves a quotient by half at most.
LEMMA RoundBounds ==
    ASSUME NEW a \in Nat, NEW n \in Nat \ {0}
    PROVE  /\ Round(a, n) \in Int
           /\ 2 * (n * Round(a, n)) <= 2 * a + n
           /\ 2 * a + n < 2 * (n * Round(a, n)) + 2 * n
<1> DEFINE m == 2 * n
           c == 2 * a + n
           r == c \div m
<1>1. m \in Nat \ {0} /\ c \in Int
  OBVIOUS
<1>2. Round(a, n) = r
  BY DEF Round
<1>3. r \in Int /\ m * r <= c /\ c < m * r + m
  <2> HIDE DEF m, c
  <2> QED
    BY <1>1, DivBounds
<1>4. m * r = 2 * (n * r)
  <2> HIDE DEF r
  <2> QED
    BY <1>3
<1> HIDE DEF r
<1> QED
  BY <1>2, <1>3, <1>4

LEMMA RoundIsInt ==
    ASSUME NEW a \in Int, NEW n \in Nat \ {0}
    PROVE  Round(a, n) \in Int
<1>1. /\ (2 * a + n) \div (2 * n) \in Int
      /\ (2 * (-a) + n) \div (2 * n) \in Int
  <2>1. 2 * a + n \in Int /\ 2 * (-a) + n \in Int /\ 2 * n \in Nat \ {0}
    OBVIOUS
  <2> QED
    BY <2>1, DivBounds
<1> QED
  BY <1>1 DEF Round

\* The ticks of a double are not more than a whole: what is exactly one whole
\* is carried, so the constructor from a double returns a normal form too.
THEOREM DoublesNormalise ==
    ASSUME NEW T \in Nat \ {0}, NEW x \in Int
    PROVE  FromDouble(T, x) \in TickPrices(T)
<1> DEFINE whole == Quot(x, Radj) - (IF x < 0 THEN 1 ELSE 0)
           rem == x - whole * Radj
           ticks == Round(rem * T, Radj)
<1>1. Radj \in Nat \ {0}
  BY RadjAssumption
<1>2. whole \in Int /\ 0 <= rem /\ rem <= Radj
  <2> DEFINE q == Quot(x, Radj)
  <2>1. /\ q \in Int
        /\ x >= 0 => Radj * q <= x /\ x < Radj * q + Radj
        /\ x < 0 => x <= Radj * q /\ Radj * q - Radj < x
    BY <1>1, QuotBounds
  <2> HIDE DEF q
  <2>2. CASE x >= 0
    <3>1. whole = q /\ whole * Radj = Radj * q
      BY <1>1, <2>1, <2>2 DEF q
    <3> QED
      BY <1>1, <2>1, <2>2, <3>1
  <2>3. CASE x < 0
    <3>1. whole = q - 1
      BY <2>3 DEF q
    <3>2. (q - 1) * Radj = Radj * q - Radj
      BY <1>1, <2>1
    <3>3. rem = x - (Radj * q - Radj)
      BY <3>1, <3>2
    <3> QED
      BY <1>1, <2>1, <2>3, <3>1, <3>3
  <2> QED
    BY <2>2, <2>3
<1>3. rem \in Nat
  <2>1. rem \in Int
    BY <1>1, <1>2
  <2> HIDE DEF rem, whole
  <2> QED
    BY <1>2, <2>1
<1>4. ticks \in 0..T
  <2> HIDE DEF rem, whole
  <2>1. rem * T \in Nat
    BY <1>3
  <2>2. /\ ticks \in Int
        /\ 2 * (Radj * ticks) <= 2 * (rem * T) + Radj
        /\ 2 * (rem * T) + Radj < 2 * (Radj * ticks) + 2 * Radj
    BY <1>1, <2>1, RoundBounds
  <2> HIDE DEF ticks
  <2>3. rem * T <= Radj * T
    BY <1>1, <1>2, <1>3
  <2>4. ~ (ticks < 0)
    <3> SUFFICES ASSUME ticks < 0 PROVE FALSE
      OBVIOUS
    <3>1. Radj * ticks + Radj <= Radj * 0
      BY <1>1, <2>2, ProductGrows
    <3> QED
      BY <1>1, <2>1, <2>2, <3>1
  <2>5. ~ (T < ticks)
    <3> SUFFICES ASSUME T < ticks PROVE FALSE
      OBVIOUS
    <3>1. Radj * T + Radj <= Radj * ticks
      BY <1>1, <2>2, ProductGrows
    <3> QED
      BY <1>1, <2>1, <2>2, <2>3, <3>1
  <2> QED
    BY <2>2, <2>4, <2>5
<1>5. FromDouble(T, x) = IF ticks = T THEN [whole |-> whole + 1, ticks |-> 0]
                                      ELSE [whole |-> whole, ticks |-> ticks]
  BY DEF FromDouble
<1> HIDE DEF whole, rem, ticks
<1> QED
  BY <1>2, <1>4, <1>5 DEF TickPrices

\* A double is next to its price: T doubles are as far from Radj ticks as half
\* a tick.
LEMMA ToDoubleBounds ==
    ASSUME NEW T \in Nat \ {0}, NEW p \in TickPrices(T), AsTicks(T, p) >= 0
    PROVE  LET x == ToDouble(T, p)
               n == AsTicks(T, p)
           IN  /\ x \in Int
               /\ 2 * (T * x) <= 2 * (n * Radj) + T
               /\ 2 * (n * Radj) + T < 2 * (T * x) + 2 * T
<1> DEFINE n == AsTicks(T, p)
<1>1. n \in Nat
  BY DEF AsTicks, TickPrices
<1>2. Radj \in Nat \ {0}
  BY RadjAssumption
<1>3. ToDouble(T, p) = Round(n * Radj, T)
  BY DEF ToDouble, AsTicks
<1> HIDE DEF n
<1>4. n * Radj \in Nat
  BY <1>1, <1>2
<1>5. /\ Round(n * Radj, T) \in Int
      /\ 2 * (T * Round(n * Radj, T)) <= 2 * (n * Radj) + T
      /\ 2 * (n * Radj) + T < 2 * (T * Round(n * Radj, T)) + 2 * T
  BY <1>4, RoundBounds
<1> QED
  BY <1>3, <1>5 DEF n

\* A price of one tick or more is not zero as a double.
LEMMA ToDoublePositive ==
    ASSUME NEW T \in Nat \ {0}, T <= Radj, NEW p \in TickPrices(T), AsTicks(T, p) >= 1
    PROVE  ToDouble(T, p) \in Int /\ ToDouble(T, p) > 0
<1> DEFINE n == AsTicks(T, p)
           x == ToDouble(T, p)
<1>1. n \in Nat \ {0} /\ Radj \in Nat \ {0}
  BY RadjAssumption DEF AsTicks, TickPrices
<1>2. /\ x \in Int
      /\ 2 * (n * Radj) + T < 2 * (T * x) + 2 * T
  BY <1>1, ToDoubleBounds
<1> HIDE DEF n, x
<1>3. Radj <= n * Radj
  BY <1>1
<1>4. ~ (x < 1)
  <2> SUFFICES ASSUME x < 1 PROVE FALSE
    OBVIOUS
  <2>1. T * x + T <= T * 1
    BY <1>2, ProductGrows
  <2> QED
    BY <1>1, <1>2, <1>3, <2>1
<1> QED
  BY <1>2, <1>4 DEF x

\* Integers within half a tick of Radj ticks: what the round trip comes to.
LEMMA NearTick ==
    ASSUME NEW T \in Nat \ {0}, NEW R \in Nat \ {0}, T <= R,
           NEW t \in 0..(T - 1), NEW y \in Int,
           2 * (T * y) <= 2 * (R * t) + T,
           2 * (R * t) < 2 * (T * y) + T
    PROVE  /\ y \in 0..(R - 1)
           /\ Round(y * T, R) = t
<1>1. ~ (y < 0)
  <2> SUFFICES ASSUME y < 0 PROVE FALSE
    OBVIOUS
  <2>1. T * y + T <= T * 0
    BY ProductGrows
  <2>2. R * t >= 0
    OBVIOUS
  <2> QED
    BY <2>1, <2>2
<1>2. R * t + R <= R * T
  BY ProductGrows
<1>3. ~ (R - 1 < y)
  <2> SUFFICES ASSUME R <= y PROVE FALSE
    OBVIOUS
  <2>1. T * R <= T * y
    OBVIOUS
  <2>2. T * R = R * T
    OBVIOUS
  <2> QED
    BY <1>2, <2>1, <2>2
<1>4. y \in Nat /\ y * T \in Nat /\ y * T = T * y
  BY <1>1
<1> DEFINE r == Round(y * T, R)
<1>5. /\ r \in Int
      /\ 2 * (R * r) <= 2 * (y * T) + R
      /\ 2 * (y * T) + R < 2 * (R * r) + 2 * R
  BY <1>4, RoundBounds
<1> HIDE DEF r
<1>6. ~ (r < t)
  <2> SUFFICES ASSUME r < t PROVE FALSE
    OBVIOUS
  <2>1. R * r + R <= R * t
    BY <1>5, ProductGrows
  <2> QED
    BY <1>4, <1>5, <2>1
<1>7. ~ (t < r)
  <2> SUFFICES ASSUME t < r PROVE FALSE
    OBVIOUS
  <2>1. R * t + R <= R * r
    BY <1>5, ProductGrows
  <2>2. T = R
    BY <1>4, <1>5, <2>1
  <2>3. ~ (y < t) /\ ~ (t < y)
    <3>1. y < t => R * y + R <= R * t
      BY ProductGrows
    <3>2. t < y => R * t + R <= R * y
      BY ProductGrows
    <3> QED
      BY <2>2, <3>1, <3>2
  <2>4. y = t
    BY <2>3
  <2> QED
    BY <1>4, <1>5, <2>1, <2>2, <2>4
<1> QED
  BY <1>1, <1>3, <1>5, <1>6, <1>7 DEF r

\* A price that is seen as a double and passed back is the same price: no order
\* moves when it is replaced at the price the book reports for it.
THEOREM PricesRoundTrip ==
    ASSUME NEW T \in Nat \ {0}, T <= Radj, NEW p \in TickPrices(T), AsTicks(T, p) >= 0
    PROVE  FromDouble(T, ToDouble(T, p)) = p
<1> DEFINE w == p.whole
           t == p.ticks
           x == ToDouble(T, p)
           y == x - w * Radj
<1>1. w \in Int /\ t \in 0..(T - 1) /\ Radj \in Nat \ {0}
  BY RadjAssumption DEF TickPrices
<1>2. p = [whole |-> w, ticks |-> t]
  BY DEF TickPrices
<1>3. AsTicks(T, p) = T * w + t
  BY DEF AsTicks
<1>4. w \in Nat
  <2> HIDE DEF w, t
  <2>1. w < 0 => T * w + T <= T * 0
    BY <1>1, ProductGrows
  <2> QED
    BY <1>1, <1>3, <2>1
<1>5. /\ x \in Int
      /\ 2 * (T * x) <= 2 * ((T * w + t) * Radj) + T
      /\ 2 * ((T * w + t) * Radj) + T < 2 * (T * x) + 2 * T
  <2>1. /\ x \in Int
        /\ 2 * (T * x) <= 2 * (AsTicks(T, p) * Radj) + T
        /\ 2 * (AsTicks(T, p) * Radj) + T < 2 * (T * x) + 2 * T
    BY ToDoubleBounds
  <2> QED
    BY <1>3, <2>1
<1> HIDE DEF w, t, x
<1>6. /\ y \in Int
      /\ T * y = T * x - T * (w * Radj)
      /\ (T * w + t) * Radj = T * (w * Radj) + Radj * t
  BY <1>1, <1>5
<1> HIDE DEF y
<1>7. /\ y \in 0..(Radj - 1)
      /\ Round(y * T, Radj) = t
  <2>1. /\ 2 * (T * y) <= 2 * (Radj * t) + T
        /\ 2 * (Radj * t) < 2 * (T * y) + T
    <3>1. T * x \in Int /\ T * (w * Radj) \in Int /\ Radj * t \in Int
      BY <1>1, <1>4, <1>5
    <3> QED
      BY <1>5, <1>6, <3>1
  <2> QED
    BY <1>1, <1>6, <2>1, NearTick
<1>8. x >= 0 /\ Quot(x, Radj) = w
  <2>1. x = Radj * w + y
    BY <1>1, <1>4, <1>5 DEF y
  <2>2. x >= 0
    BY <1>1, <1>4, <1>7, <2>1
  <2>3. x \div Radj = w
    BY <1>1, <1>4, <1>5, <1>7, <2>1, DivUnique
  <2> QED
    BY <2>2, <2>3 DEF Quot
<1>9. FromDouble(T, x) = [whole |-> w, ticks |-> t]
  <2>1. Quot(x, Radj) - (IF x < 0 THEN 1 ELSE 0) = w
    BY <1>4, <1>5, <1>8
  <2>2. Round((x - w * Radj) * T, Radj) = t
    BY <1>7 DEF y
  <2> QED
    BY <1>1, <2>1, <2>2 DEF FromDouble
<1> QED
  BY <1>2, <1>9 DEF x

(***************************************************************************)
(* Books and registries.                                                   *)
(***************************************************************************)

\* A book whose lowest price is at least one tick and whose orders rest at the
\* levels of their prices, if the grid is fine enough.
AtTheirLevels(bk) ==
    \A o \in bk.orders : /\ o.level \in 1..bk.levels
                         /\ PlusTicks(bk.ratio, bk.base, o.level - 1) = o.price

GoodBook(bk) ==
    /\ bk \in Book
    /\ bk.base \in TickPrices(bk.ratio)
    /\ AsTicks(bk.ratio, bk.base) >= 1
    /\ FineEnough(bk.ratio) => AtTheirLevels(bk)

HeapInv == DOMAIN heap \subseteq Books /\ \A b \in DOMAIN heap : GoodBook(heap[b])

ResourcesOK ==
    /\ DOMAIN resources = Managers
    /\ \A m \in Managers :
           /\ DOMAIN resources[m] \subseteq Books
           /\ \A b \in DOMAIN resources[m] : resources[m][b] \in ResourceInfo

IInv == HeapInv /\ ResourcesOK /\ RegistriesAgree

(***************************************************************************)
(* Constants.                                                              *)
(***************************************************************************)

LEMMA RatioFacts ==
    ASSUME NEW T \in Ratios
    PROVE  T \in Nat \ {0}
  BY FactoryAssumption

LEMMA PriceFacts ==
    /\ Prices \subseteq Int
    /\ Radj \in Nat \ {0}
    /\ Master \notin Ratios
  BY FactoryAssumption, RadjAssumption DEF Master

\* The lowest price create takes is a tick or more.
LEMMA LowestPriceIsATick ==
    ASSUME NEW T \in Ratios, NEW x \in Int,
           ~ Greater(OfTicks(T, 0), FromDouble(T, x))
    PROVE  /\ LowestPrice(T, x) \in TickPrices(T)
           /\ AsTicks(T, LowestPrice(T, x)) >= 1
<1> DEFINE p == FromDouble(T, x)
           zero == OfTicks(T, 0)
<1>1. T \in Nat \ {0}
  BY RatioFacts
<1>2. p \in TickPrices(T)
  BY <1>1, DoublesNormalise
<1>3. zero \in TickPrices(T) /\ AsTicks(T, zero) = 0
  BY <1>1, OfTicksCounts
<1>4. AsTicks(T, p) \in Int
  BY <1>1, <1>2 DEF AsTicks, TickPrices
<1>5. LowestPrice(T, x) = IF p = zero THEN PlusTicks(T, p, 1) ELSE p
  BY DEF LowestPrice
<1>6. ~ Greater(zero, p)
  OBVIOUS
<1> HIDE DEF p, zero
<1>7. AsTicks(T, p) >= 0
  BY <1>1, <1>2, <1>3, <1>4, <1>6, GreaterComparesTicks
<1>8. CASE p = zero
  <2>1. /\ PlusTicks(T, p, 1) \in TickPrices(T)
        /\ AsTicks(T, PlusTicks(T, p, 1)) = AsTicks(T, p) + 1
    BY <1>1, <1>2, PlusCountsTicks
  <2> QED
    BY <1>3, <1>5, <1>8, <2>1
<1>9. CASE p # zero
  <2>1. AsTicks(T, p) # 0
    BY <1>1, <1>2, <1>3, <1>9, TicksAreUnique
  <2> QED
    BY <1>2, <1>4, <1>5, <1>7, <1>9, <2>1
<1> QED
  BY <1>8, <1>9

LEMMA NewBaseIsATick ==
    ASSUME NEW T \in Ratios, NEW x \in Int
    PROVE  /\ NewBase(T, x) \in TickPrices(T)
           /\ AsTicks(T, NewBase(T, x)) >= 1
<1> DEFINE p == FromDouble(T, x)
           one == OfTicks(T, 1)
<1>1. T \in Nat \ {0}
  BY RatioFacts
<1>2. p \in TickPrices(T)
  BY <1>1, DoublesNormalise
<1>3. one \in TickPrices(T) /\ AsTicks(T, one) = 1
  BY <1>1, OfTicksCounts
<1>4. AsTicks(T, p) \in Int
  BY <1>1, <1>2 DEF AsTicks, TickPrices
<1>5. NewBase(T, x) = IF Greater(one, p) THEN one ELSE p
  BY DEF NewBase
<1> HIDE DEF p, one
<1>6. Greater(one, p) <=> AsTicks(T, one) > AsTicks(T, p)
  BY <1>1, <1>2, <1>3, GreaterComparesTicks
<1> QED
  BY <1>2, <1>3, <1>4, <1>5, <1>6

(***************************************************************************)
(* One book.                                                               *)
(***************************************************************************)

\* What is used of a good book.
LEMMA GoodBookFacts ==
    ASSUME NEW bk, GoodBook(bk)
    PROVE  /\ bk.ratio \in Ratios /\ bk.ratio \in Nat \ {0}
           /\ bk.base \in TickPrices(bk.ratio)
           /\ bk.levels \in Nat
           /\ AsTicks(bk.ratio, bk.base) \in Nat \ {0}
<1>1. /\ bk.ratio \in Ratios
      /\ bk.base \in TickPrices(bk.ratio)
      /\ bk.levels \in Nat
      /\ AsTicks(bk.ratio, bk.base) >= 1
  BY DEF GoodBook, Book
<1>2. \A T \in Ratios : T \in Nat \ {0}
  BY RatioFacts
<1>3. AsTicks(bk.ratio, bk.base) \in Int
  BY <1>1, <1>2 DEF AsTicks, TickPrices
<1> QED
  BY <1>1, <1>2, <1>3

\* A new book is good.
LEMMA NewBookIsGood ==
    ASSUME NEW T \in Ratios, NEW min \in TickPrices(T), AsTicks(T, min) >= 1,
           NEW n \in Nat
    PROVE  GoodBook([ratio |-> T, base |-> min, levels |-> n, orders |-> {}])
  BY DEF GoodBook, Book, AtTheirLevels

\* An order at the level of its price leaves a good book good.
LEMMA OrderKeepsBookGood ==
    ASSUME NEW bk, GoodBook(bk), NEW level \in Int,
           NEW price \in TickPrices(bk.ratio),
           FineEnough(bk.ratio) =>
               /\ level \in 1..bk.levels
               /\ AsTicks(bk.ratio, price) = AsTicks(bk.ratio, bk.base) + (level - 1)
    PROVE  GoodBook([bk EXCEPT !.orders = @ \cup {[level |-> level, price |-> price]}])
<1> DEFINE o == [level |-> level, price |-> price]
           new == [bk EXCEPT !.orders = @ \cup {o}]
<1>1. /\ bk.ratio \in Ratios /\ bk.ratio \in Nat \ {0} /\ bk.levels \in Nat
      /\ bk.base \in TickPrices(bk.ratio)
  BY GoodBookFacts
<1>2. level - 1 \in Int
  OBVIOUS
<1>3. ASSUME FineEnough(bk.ratio)
      PROVE  PlusTicks(bk.ratio, bk.base, level - 1) = price
  <2>1. /\ PlusTicks(bk.ratio, bk.base, level - 1) \in TickPrices(bk.ratio)
        /\ AsTicks(bk.ratio, PlusTicks(bk.ratio, bk.base, level - 1)) =
               AsTicks(bk.ratio, bk.base) + (level - 1)
    BY <1>1, <1>2, PlusCountsTicks
  <2> QED
    BY <1>1, <1>3, <2>1, TicksAreUnique
<1>4. o \in [level : Int, price : UNION {TickPrices(T) : T \in Ratios}]
  BY <1>1, <1>2
<1>5. /\ new \in Book
      /\ new.ratio = bk.ratio /\ new.base = bk.base /\ new.levels = bk.levels
      /\ new.orders = bk.orders \cup {o}
  BY <1>4 DEF GoodBook, Book
<1> HIDE DEF new
<1>6. FineEnough(new.ratio) => AtTheirLevels(new)
  BY <1>3, <1>5 DEF GoodBook, AtTheirLevels
<1> QED
  BY <1>5, <1>6 DEF GoodBook, new

\* Levels added on top leave a good book good.
LEMMA GrowingAboveKeepsBookGood ==
    ASSUME NEW bk, GoodBook(bk), NEW incr \in Nat
    PROVE  GoodBook([bk EXCEPT !.levels = @ + incr])
<1> DEFINE new == [bk EXCEPT !.levels = @ + incr]
<1>1. bk.levels \in Nat
  BY GoodBookFacts
<1>2. /\ new \in Book
      /\ new.ratio = bk.ratio /\ new.base = bk.base /\ new.orders = bk.orders
      /\ new.levels = bk.levels + incr
  BY <1>1 DEF GoodBook, Book
<1> HIDE DEF new
<1>3. FineEnough(new.ratio) => AtTheirLevels(new)
  BY <1>1, <1>2 DEF GoodBook, AtTheirLevels
<1> QED
  BY <1>2, <1>3 DEF GoodBook, new

\* A book whose base, levels and orders change is still a book.
LEMMA ChangedBook ==
    ASSUME NEW R, NEW B, NEW L, NEW O,
           NEW bk \in [ratio : R, base : B, levels : L, orders : O],
           NEW base \in B, NEW levels \in L, NEW orders \in O
    PROVE  LET new == [bk EXCEPT !.base = base, !.levels = levels, !.orders = orders]
           IN  /\ new \in [ratio : R, base : B, levels : L, orders : O]
               /\ new.ratio = bk.ratio /\ new.base = base
               /\ new.levels = levels /\ new.orders = orders
<1> DEFINE Rec == [ratio : R, base : B, levels : L, orders : O]
           one == [bk EXCEPT !.base = base]
           two == [one EXCEPT !.levels = levels]
           new == [two EXCEPT !.orders = orders]
<1>1. one \in Rec /\ one.ratio = bk.ratio /\ one.base = base
  OBVIOUS
<1> HIDE DEF one
<1>2. two \in Rec /\ two.ratio = bk.ratio /\ two.base = base /\ two.levels = levels
  BY <1>1
<1> HIDE DEF two
<1>3. /\ new \in Rec /\ new.ratio = bk.ratio /\ new.base = base
      /\ new.levels = levels /\ new.orders = orders
  BY <1>2
<1> QED
  BY <1>3 DEF one, two

\* Levels added below, with the orders moved up by as many, do too.
LEMMA GrowingBelowKeepsBookGood ==
    ASSUME NEW bk, GoodBook(bk), NEW incr \in Nat, NEW base \in TickPrices(bk.ratio),
           AsTicks(bk.ratio, base) >= 1,
           AsTicks(bk.ratio, bk.base) = AsTicks(bk.ratio, base) + incr
    PROVE  GoodBook([bk EXCEPT !.base = base, !.levels = @ + incr,
                     !.orders = {[o EXCEPT !.level = @ + incr] : o \in @}])
<1> DEFINE T == bk.ratio
           moved == {[o EXCEPT !.level = @ + incr] : o \in bk.orders}
           new == [bk EXCEPT !.base = base, !.levels = @ + incr, !.orders = moved]
           Order == [level : Int, price : UNION {TickPrices(t) : t \in Ratios}]
           Base == UNION {TickPrices(t) : t \in Ratios}
<1>1. /\ T \in Ratios /\ T \in Nat \ {0} /\ bk.levels \in Nat
      /\ bk.base \in TickPrices(T)
  BY GoodBookFacts
<1>2. \A o \in bk.orders : o \in Order
  BY DEF GoodBook, Book
<1>3. \A o \in bk.orders : [o EXCEPT !.level = @ + incr] \in Order
  BY <1>2
<1>4. moved \in SUBSET Order
  BY <1>3
<1>5. base \in Base
  BY <1>1
<1>6. /\ new.ratio = T /\ new.base = base /\ new.levels = bk.levels + incr
      /\ new.orders = moved
      /\ new \in Book
  <2>1. bk \in [ratio : Ratios, base : Base, levels : Nat, orders : SUBSET Order]
    BY DEF GoodBook, Book
  <2>2. bk.levels + incr \in Nat
    BY <1>1
  <2>3. Book = [ratio : Ratios, base : Base, levels : Nat, orders : SUBSET Order]
    BY DEF Book
  <2> HIDE DEF moved, Base, Order
  <2> QED
    BY <1>1, <1>4, <1>5, <2>1, <2>2, <2>3, ChangedBook
<1> HIDE DEF new
<1>7. ASSUME FineEnough(T), NEW o \in bk.orders
      PROVE  /\ o.level + incr \in 1..(bk.levels + incr)
             /\ PlusTicks(T, base, (o.level + incr) - 1) = o.price
  <2>1. o.level \in 1..bk.levels /\ PlusTicks(T, bk.base, o.level - 1) = o.price
    BY <1>7 DEF GoodBook, AtTheirLevels
  <2> DEFINE n == o.level - 1
  <2>2. n \in Int /\ n + incr \in Int /\ (o.level + incr) - 1 = n + incr
    BY <1>1, <2>1
  <2> HIDE DEF n
  <2>3. /\ PlusTicks(T, bk.base, n) \in TickPrices(T)
        /\ AsTicks(T, PlusTicks(T, bk.base, n)) = AsTicks(T, bk.base) + n
    BY <1>1, <2>2, PlusCountsTicks
  <2>4. /\ PlusTicks(T, base, n + incr) \in TickPrices(T)
        /\ AsTicks(T, PlusTicks(T, base, n + incr)) = AsTicks(T, base) + (n + incr)
    BY <1>1, <2>2, PlusCountsTicks
  <2>5. AsTicks(T, base) \in Int
    BY <1>1 DEF AsTicks, TickPrices
  <2>6. AsTicks(T, PlusTicks(T, base, n + incr)) = AsTicks(T, PlusTicks(T, bk.base, n))
    BY <2>2, <2>3, <2>4, <2>5
  <2>7. PlusTicks(T, base, n + incr) = PlusTicks(T, bk.base, n)
    BY <1>1, <2>3, <2>4, <2>6, TicksAreUnique
  <2>8. o.level + incr \in 1..(bk.levels + incr)
    BY <1>1, <2>1
  <2> QED
    BY <2>1, <2>2, <2>7, <2>8 DEF n
<1>8. ASSUME FineEnough(T), NEW q \in moved
      PROVE  /\ q.level \in 1..(bk.levels + incr)
             /\ PlusTicks(T, base, q.level - 1) = q.price
  <2>1. PICK o \in bk.orders : q = [o EXCEPT !.level = @ + incr]
    OBVIOUS
  <2>2. o \in Order
    BY <1>2
  <2>3. q.level = o.level + incr /\ q.price = o.price
    BY <2>1, <2>2
  <2> QED
    BY <1>7, <1>8, <2>3
<1>9. GoodBook(new)
  BY <1>1, <1>6, <1>8 DEF GoodBook, AtTheirLevels
<1> QED
  BY <1>9 DEF new

(***************************************************************************)
(* Calls on a book.                                                        *)
(***************************************************************************)

\* The level of a price counts its ticks from the lowest price.
LEMMA LevelCountsTicks ==
    ASSUME NEW b \in DOMAIN heap, GoodBook(heap[b]),
           NEW p \in TickPrices(heap[b].ratio)
    PROVE  LevelOf(b, p) = 1 + AsTicks(heap[b].ratio, p)
                             - AsTicks(heap[b].ratio, heap[b].base)
<1> DEFINE T == heap[b].ratio
<1>1. T \in Nat \ {0} /\ heap[b].base \in TickPrices(T)
  BY GoodBookFacts
<1>2. AsTicks(T, p) \in Int /\ AsTicks(T, heap[b].base) \in Int
  BY <1>1 DEF AsTicks, TickPrices
<1>3. AsTicks(T, Minus(T, p, heap[b].base)) = AsTicks(T, p) - AsTicks(T, heap[b].base)
  BY <1>1, MinusCountsTicks
<1>4. LevelOf(b, p) = 1 + AsTicks(T, Minus(T, p, heap[b].base))
  BY DEF LevelOf
<1> HIDE DEF T
<1>5. LevelOf(b, p) = 1 + AsTicks(T, p) - AsTicks(T, heap[b].base)
  BY <1>2, <1>3, <1>4
<1> QED
  BY <1>5 DEF T

\* A valid price comes back from the double it is handed on as, if the grid is
\* fine enough, so that the order rests at the level that was validated.
LEMMA InsertOrderKeepsBookGood ==
    ASSUME NEW b \in DOMAIN heap, GoodBook(heap[b]), NEW x \in Prices,
           InsertOrder(b, x)
    PROVE  \E orders : LET bk == [heap[b] EXCEPT !.orders = orders]
                       IN  GoodBook(bk) /\ heap' = [heap EXCEPT ![b] = bk]
<1> DEFINE T == heap[b].ratio
           base == heap[b].base
           p == TickOf(b, x)
           tick == TickOf(b, ToDouble(T, p))
           level == LevelOf(b, tick)
           new == [level |-> level, price |-> p]
<1>1. /\ T \in Nat \ {0} /\ heap[b].levels \in Nat
      /\ base \in TickPrices(T) /\ AsTicks(T, base) \in Nat \ {0}
  BY GoodBookFacts
<1>2. p \in TickPrices(T) /\ tick \in TickPrices(T)
  <2>1. p \in TickPrices(T)
    BY <1>1, PriceFacts, DoublesNormalise DEF TickOf
  <2>2. ToDouble(T, p) \in Int
    <3>1. (T * p.whole + p.ticks) * Radj \in Int
      BY <1>1, <2>1, PriceFacts DEF TickPrices
    <3> QED
      BY <1>1, <3>1, RoundIsInt DEF ToDouble
  <2> QED
    BY <1>1, <2>1, <2>2, DoublesNormalise DEF TickOf
<1>3. LevelOf(b, p) \in 1..heap[b].levels
  BY DEF InsertOrder, IsValidPrice
<1>4. AsTicks(T, p) \in Int /\ AsTicks(T, tick) \in Int
  BY <1>1, <1>2 DEF AsTicks, TickPrices
<1>5. /\ LevelOf(b, p) = 1 + AsTicks(T, p) - AsTicks(T, base)
      /\ level = 1 + AsTicks(T, tick) - AsTicks(T, base)
  BY <1>2, LevelCountsTicks
<1>6. FineEnough(T) => tick = p
  <2>1. AsTicks(T, p) >= 0
    BY <1>1, <1>3, <1>4, <1>5
  <2>2. FineEnough(T) => FromDouble(T, ToDouble(T, p)) = p
    BY <1>1, <1>2, <2>1, PricesRoundTrip DEF FineEnough
  <2> QED
    BY <2>2 DEF TickOf
<1>7. heap' = [heap EXCEPT ![b] = [heap[b] EXCEPT !.orders = heap[b].orders \cup {new}]]
  BY DEF InsertOrder
<1>8. GoodBook([heap[b] EXCEPT !.orders = heap[b].orders \cup {new}])
  <2>1. level \in Int
    BY <1>1, <1>4, <1>5
  <2>2. FineEnough(T) => /\ level \in 1..heap[b].levels
                         /\ AsTicks(T, p) = AsTicks(T, base) + (level - 1)
    BY <1>1, <1>3, <1>4, <1>5, <1>6
  <2> HIDE DEF level, p
  <2> QED
    BY <1>2, <2>1, <2>2, OrderKeepsBookGood
<1> QED
  BY <1>7, <1>8

\* Levels are added above for a price above the highest only.
LEMMA GrowBookAboveKeepsBookGood ==
    ASSUME NEW b \in DOMAIN heap, GoodBook(heap[b]), NEW x \in Prices,
           GrowBookAbove(b, x)
    PROVE  \E levels : LET bk == [heap[b] EXCEPT !.levels = levels]
                       IN  GoodBook(bk) /\ heap' = [heap EXCEPT ![b] = bk]
<1> DEFINE T == heap[b].ratio
           top == PriceOf(b, heap[b].levels)
           diff == Minus(T, TickOf(b, x), top)
           incr == AsTicks(T, diff)
           zero == OfTicks(T, 0)
<1>1. T \in Nat \ {0} /\ heap[b].levels \in Nat /\ heap[b].base \in TickPrices(T)
  BY GoodBookFacts
<1>2. TickOf(b, x) \in TickPrices(T)
  BY <1>1, PriceFacts, DoublesNormalise DEF TickOf
<1>3. top \in TickPrices(T)
  <2>1. heap[b].levels - 1 \in Int
    BY <1>1
  <2> QED
    BY <1>1, <2>1, PlusCountsTicks DEF PriceOf
<1> HIDE DEF top
<1>4. diff \in TickPrices(T)
  BY <1>1, <1>2, <1>3, MinusCountsTicks
<1>5. zero \in TickPrices(T) /\ AsTicks(T, zero) = 0
  BY <1>1, OfTicksCounts
<1>6. Greater(diff, zero)
  BY DEF GrowBookAbove, top
<1>7. heap' = [heap EXCEPT ![b] = [heap[b] EXCEPT !.levels = heap[b].levels + incr]]
  BY DEF GrowBookAbove, top
<1>8. incr \in Int
  BY <1>1, <1>4 DEF AsTicks, TickPrices
<1> HIDE DEF diff, zero
<1>9. incr \in Nat
  <2>1. incr > 0
    BY <1>1, <1>4, <1>5, <1>6, GreaterComparesTicks
  <2> HIDE DEF incr
  <2> QED
    BY <1>8, <2>1
<1> HIDE DEF incr
<1>10. GoodBook([heap[b] EXCEPT !.levels = heap[b].levels + incr])
  BY <1>9, GrowingAboveKeepsBookGood
<1> QED
  BY <1>7, <1>10

\* Levels are added below for a price below the lowest only, and as many as
\* the orders move up by.
LEMMA GrowBookBelowKeepsBookGood ==
    ASSUME NEW b \in DOMAIN heap, GoodBook(heap[b]), NEW x \in Prices,
           GrowBookBelow(b, x)
    PROVE  \E base, levels, orders :
               LET bk == [heap[b] EXCEPT !.base = base, !.levels = levels,
                                         !.orders = orders]
               IN  GoodBook(bk) /\ heap' = [heap EXCEPT ![b] = bk]
<1> DEFINE T == heap[b].ratio
           base == heap[b].base
           new == NewBase(T, x)
           diff == Minus(T, base, new)
           incr == AsTicks(T, diff)
           zero == OfTicks(T, 0)
           moved == {[o EXCEPT !.level = @ + incr] : o \in heap[b].orders}
           grown == [heap[b] EXCEPT !.base = new, !.levels = @ + incr, !.orders = moved]
<1>1. /\ T \in Ratios /\ T \in Nat \ {0} /\ base \in TickPrices(T)
      /\ AsTicks(T, base) \in Nat \ {0}
  BY GoodBookFacts
<1>2. new \in TickPrices(T) /\ AsTicks(T, new) >= 1
  BY <1>1, PriceFacts, NewBaseIsATick
<1>3. AsTicks(T, new) \in Int
  BY <1>1, <1>2 DEF AsTicks, TickPrices
<1>4. Greater(diff, zero)
  BY DEF GrowBookBelow
<1>5. heap' = [heap EXCEPT ![b] = grown]
  BY DEF GrowBookBelow
<1> HIDE DEF new
<1>6. diff \in TickPrices(T) /\ incr = AsTicks(T, base) - AsTicks(T, new)
  BY <1>1, <1>2, MinusCountsTicks
<1>7. zero \in TickPrices(T) /\ AsTicks(T, zero) = 0
  BY <1>1, OfTicksCounts
<1> HIDE DEF diff, zero
<1>8. incr > 0
  BY <1>1, <1>4, <1>6, <1>7, GreaterComparesTicks
<1> HIDE DEF incr
<1>9. incr \in Nat /\ AsTicks(T, base) = AsTicks(T, new) + incr
  BY <1>1, <1>3, <1>6, <1>8
<1>10. GoodBook(grown)
  BY <1>2, <1>9, GrowingBelowKeepsBookGood
<1> QED
  BY <1>5, <1>10

\* A call on a book leaves every book good, where it is and of its ratio.
LEMMA BookStep ==
    ASSUME HeapInv, NEW b \in DOMAIN heap, NEW x \in Prices,
           InsertOrder(b, x) \/ GrowBookAbove(b, x) \/ GrowBookBelow(b, x)
    PROVE  /\ HeapInv'
           /\ DOMAIN heap' = DOMAIN heap
           /\ \A k \in DOMAIN heap : heap'[k].ratio = heap[k].ratio
           /\ UNCHANGED resources
<1>1. GoodBook(heap[b])
  BY DEF HeapInv
<1>2. \E bk : GoodBook(bk) /\ bk.ratio = heap[b].ratio /\ heap' = [heap EXCEPT ![b] = bk]
  <2>1. CASE InsertOrder(b, x)
    <3>1. PICK orders : LET bk == [heap[b] EXCEPT !.orders = orders]
                        IN  GoodBook(bk) /\ heap' = [heap EXCEPT ![b] = bk]
      BY <1>1, <2>1, InsertOrderKeepsBookGood
    <3>2. [heap[b] EXCEPT !.orders = orders].ratio = heap[b].ratio
      BY <1>1 DEF GoodBook, Book
    <3> QED
      BY <3>1, <3>2
  <2>2. CASE GrowBookAbove(b, x)
    <3>1. PICK levels : LET bk == [heap[b] EXCEPT !.levels = levels]
                        IN  GoodBook(bk) /\ heap' = [heap EXCEPT ![b] = bk]
      BY <1>1, <2>2, GrowBookAboveKeepsBookGood
    <3>2. [heap[b] EXCEPT !.levels = levels].ratio = heap[b].ratio
      BY <1>1 DEF GoodBook, Book
    <3> QED
      BY <3>1, <3>2
  <2>3. CASE GrowBookBelow(b, x)
    <3>1. PICK base, levels, orders :
              LET bk == [heap[b] EXCEPT !.base = base, !.levels = levels,
                                        !.orders = orders]
              IN  GoodBook(bk) /\ heap' = [heap EXCEPT ![b] = bk]
      BY <1>1, <2>3, GrowBookBelowKeepsBookGood
    <3>2. [heap[b] EXCEPT !.base = base, !.levels = levels, !.orders = orders].ratio
              = heap[b].ratio
      BY <1>1 DEF GoodBook, Book
    <3> QED
      BY <3>1, <3>2
  <2> QED
    BY <2>1, <2>2, <2>3
<1>3. PICK bk : GoodBook(bk) /\ bk.ratio = heap[b].ratio /\ heap' = [heap EXCEPT ![b] = bk]
  BY <1>2
<1>4. DOMAIN heap' = DOMAIN heap
  BY <1>3
<1>5. \A k \in DOMAIN heap : heap'[k] = IF k = b THEN bk ELSE heap[k]
  BY <1>3
<1>6. HeapInv'
  BY <1>3, <1>4, <1>5 DEF HeapInv
<1>7. UNCHANGED resources
  BY DEF InsertOrder, GrowBookAbove, GrowBookBelow
<1> QED
  BY <1>3, <1>4, <1>5, <1>6, <1>7

(***************************************************************************)
(* The registries.                                                         *)
(***************************************************************************)

LEMMA InitIInv ==
    ASSUME Init
    PROVE  IInv
<1>1. DOMAIN heap = {} /\ \A m \in Managers : DOMAIN resources[m] = {}
  BY DEF Init
<1>2. DOMAIN resources = Managers
  BY DEF Init
<1> QED
  BY <1>1, <1>2 DEF IInv, HeapInv, ResourcesOK, RegistriesAgree

\* create registers the book with its ratio's manager and the master, neither
\* of which has the address.
LEMMA CreateStep ==
    ASSUME IInv, NEW T \in Ratios, NEW b \in Books, NEW lower \in Prices,
           NEW upper \in Prices, Create(T, b, lower, upper)
    PROVE  IInv'
<1> DEFINE min == LowestPrice(T, lower)
           n == LevelsAsked(T, min, FromDouble(T, upper))
           new == [ratio |-> T, base |-> min, levels |-> n, orders |-> {}]
           mine == [relatives |-> {Master}, owner |-> TRUE]
<1>1. lower \in Int /\ upper \in Int /\ T # Master /\ T \in Nat \ {0}
  BY PriceFacts, RatioFacts
<1>2. min \in TickPrices(T) /\ AsTicks(T, min) >= 1
  BY <1>1, LowestPriceIsATick DEF Create
<1>3. n \in Nat
  <2>1. FromDouble(T, upper) \in TickPrices(T)
    BY <1>1, DoublesNormalise
  <2>2. Minus(T, FromDouble(T, upper), min) \in TickPrices(T)
    BY <1>1, <1>2, <2>1, MinusCountsTicks
  <2>3. n \in Int
    BY <1>1, <2>2 DEF LevelsAsked, AsTicks, TickPrices
  <2>4. n >= 3
    BY DEF Create
  <2> HIDE DEF n
  <2> QED
    BY <2>3, <2>4
<1>4. GoodBook(new)
  BY <1>2, <1>3, NewBookIsGood
<1>5. new.ratio = T
  OBVIOUS
<1>6. /\ b \notin DOMAIN heap
      /\ DOMAIN heap' = DOMAIN heap \cup {b}
      /\ heap'[b] = new
      /\ \A k \in DOMAIN heap : heap'[k] = heap[k]
  BY DEF Create
<1>7. resources' = Add(T, b, {Master})
  BY DEF Create
<1> HIDE DEF new
<1>8. HeapInv'
  BY <1>4, <1>6 DEF IInv, HeapInv
<1>9. \A m \in Managers : b \notin DOMAIN resources[m]
  BY <1>6 DEF IInv, RegistriesAgree
<1>10. T \in Managers /\ Master \in Managers
  BY DEF Managers
<1>11. DOMAIN resources' = Managers
  BY <1>7 DEF Add
<1>12. /\ DOMAIN resources'[T] = DOMAIN resources[T] \cup {b}
       /\ resources'[T][b] = mine
       /\ \A k \in DOMAIN resources[T] : resources'[T][k] = resources[T][k]
  BY <1>7, <1>9, <1>10 DEF Add, Emplace
<1>13. /\ DOMAIN resources'[Master] = DOMAIN resources[Master] \cup {b}
       /\ resources'[Master][b] = Entry({T})
       /\ \A k \in DOMAIN resources[Master] : resources'[Master][k] = resources[Master][k]
  BY <1>1, <1>7, <1>9, <1>10 DEF Add, Emplace
<1>14. \A m \in Managers \ {T, Master} : resources'[m] = resources[m]
  BY <1>7 DEF Add
<1>15. mine \in ResourceInfo /\ Entry({T}) \in ResourceInfo
  BY <1>10 DEF ResourceInfo, Entry
<1>16. ResourcesOK'
  <2>1. ASSUME NEW m \in Managers
        PROVE  /\ DOMAIN resources'[m] \subseteq Books
               /\ \A k \in DOMAIN resources'[m] : resources'[m][k] \in ResourceInfo
    <3>1. /\ DOMAIN resources[m] \subseteq Books
          /\ \A k \in DOMAIN resources[m] : resources[m][k] \in ResourceInfo
      BY DEF IInv, ResourcesOK
    <3>2. CASE m = T
      BY <1>12, <1>15, <3>1, <3>2
    <3>3. CASE m = Master
      BY <1>13, <1>15, <3>1, <3>3
    <3>4. CASE m \notin {T, Master}
      BY <1>14, <3>1, <3>4
    <3> QED
      BY <3>2, <3>3, <3>4
  <2> QED
    BY <1>11, <2>1 DEF ResourcesOK
<1>17. RegistriesAgree'
  <2>1. ASSUME NEW k \in DOMAIN heap'
        PROVE  /\ k \in DOMAIN resources'[heap'[k].ratio]
               /\ resources'[heap'[k].ratio][k] = mine
               /\ k \in DOMAIN resources'[Master]
               /\ resources'[Master][k] = Entry({heap'[k].ratio})
    <3>1. CASE k = b
      BY <1>5, <1>6, <1>12, <1>13, <3>1
    <3>2. CASE k # b
      <4>1. k \in DOMAIN heap /\ heap'[k] = heap[k]
        BY <1>6, <3>2
      <4>2. /\ k \in DOMAIN resources[heap[k].ratio]
            /\ resources[heap[k].ratio][k] = mine
            /\ k \in DOMAIN resources[Master]
            /\ resources[Master][k] = Entry({heap[k].ratio})
        BY <4>1 DEF IInv, RegistriesAgree
      <4>3. heap[k].ratio \in Ratios /\ heap[k].ratio # Master
        BY <4>1, GoodBookFacts, PriceFacts DEF IInv, HeapInv
      <4>4. CASE heap[k].ratio = T
        BY <1>12, <1>13, <4>1, <4>2, <4>4
      <4>5. CASE heap[k].ratio # T
        <5>1. heap[k].ratio \in Managers \ {T, Master}
          BY <4>3, <4>5 DEF Managers
        <5> QED
          BY <1>13, <1>14, <4>1, <4>2, <5>1
      <4> QED
        BY <4>4, <4>5
    <3> QED
      BY <3>1, <3>2
  <2>2. ASSUME NEW m \in Managers, NEW k \in DOMAIN resources'[m]
        PROVE  k \in DOMAIN heap' /\ m \in {Master, heap'[k].ratio}
    <3>1. CASE k = b
      <4>1. m \in {T, Master}
        BY <1>9, <1>14, <3>1
      <4> QED
        BY <1>5, <1>6, <3>1, <4>1
    <3>2. CASE k # b
      <4>1. k \in DOMAIN resources[m]
        BY <1>12, <1>13, <1>14, <3>2
      <4>2. k \in DOMAIN heap /\ m \in {Master, heap[k].ratio}
        BY <4>1 DEF IInv, RegistriesAgree
      <4> QED
        BY <1>6, <4>2
    <3> QED
      BY <3>1, <3>2
  <2> QED
    BY <2>1, <2>2 DEF RegistriesAgree
<1> QED
  BY <1>8, <1>16, <1>17 DEF IInv

\* A manager that removes books of its own reaches both registries of each,
\* and the deleter of each runs.
LEMMA RemovedAreDeleted ==
    ASSUME IInv, NEW m \in Managers, NEW S \in SUBSET DOMAIN resources[m]
    PROVE  /\ \A b \in S : Reached(m, b) = {Master, heap[b].ratio}
           /\ Deleted(m, S) = S
<1>1. ASSUME NEW b \in S
      PROVE  /\ Reached(m, b) = {Master, heap[b].ratio}
             /\ b \in DOMAIN resources[heap[b].ratio]
             /\ resources[heap[b].ratio][b].owner
  <2>1. b \in DOMAIN heap /\ m \in {Master, heap[b].ratio}
    BY DEF IInv, RegistriesAgree
  <2>2. /\ b \in DOMAIN resources[heap[b].ratio]
        /\ resources[heap[b].ratio][b] = [relatives |-> {Master}, owner |-> TRUE]
        /\ resources[Master][b] = Entry({heap[b].ratio})
    BY <2>1 DEF IInv, RegistriesAgree
  <2>3. resources[heap[b].ratio][b].relatives = {Master}
    BY <2>2
  <2>4. resources[Master][b].relatives = {heap[b].ratio}
    BY <2>2 DEF Entry
  <2>5. Reached(m, b) = {Master, heap[b].ratio}
    BY <2>1, <2>3, <2>4 DEF Reached
  <2> QED
    BY <2>2, <2>5
<1> QED
  BY <1>1 DEF Deleted

\* Books that both registries forget and the heap frees leave the rest in place.
LEMMA RemoveStep ==
    ASSUME IInv, NEW m \in Managers, NEW S \in SUBSET DOMAIN resources[m],
           resources' = Remove(m, S), heap' = Erase(heap, Deleted(m, S))
    PROVE  IInv'
<1>1. /\ \A b \in S : Reached(m, b) = {Master, heap[b].ratio}
      /\ Deleted(m, S) = S
  BY RemovedAreDeleted
<1>2. /\ DOMAIN heap' = DOMAIN heap \ S
      /\ \A b \in DOMAIN heap' : heap'[b] = heap[b]
  BY <1>1 DEF Erase
<1>3. DOMAIN resources' = Managers
  BY DEF Remove
<1>4. ASSUME NEW k \in Managers
      PROVE  /\ DOMAIN resources'[k] =
                    DOMAIN resources[k] \ {b \in S : k \in {Master, heap[b].ratio}}
             /\ \A b \in DOMAIN resources'[k] : resources'[k][b] = resources[k][b]
  <2>1. resources'[k] = Erase(resources[k], {b \in S : k \in Reached(m, b)})
    BY DEF Remove
  <2>2. {b \in S : k \in Reached(m, b)} = {b \in S : k \in {Master, heap[b].ratio}}
    BY <1>1
  <2> QED
    BY <2>1, <2>2 DEF Erase
<1>5. HeapInv'
  BY <1>2 DEF IInv, HeapInv
<1>6. ResourcesOK'
  BY <1>3, <1>4 DEF IInv, ResourcesOK
<1>7. RegistriesAgree'
  <2>1. ASSUME NEW b \in DOMAIN heap'
        PROVE  /\ b \in DOMAIN resources'[heap'[b].ratio]
               /\ resources'[heap'[b].ratio][b] =
                      [relatives |-> {Master}, owner |-> TRUE]
               /\ b \in DOMAIN resources'[Master]
               /\ resources'[Master][b] = Entry({heap'[b].ratio})
    <3>1. b \in DOMAIN heap /\ b \notin S /\ heap'[b] = heap[b]
      BY <1>2
    <3>2. heap[b].ratio \in Managers /\ Master \in Managers
      BY <3>1, GoodBookFacts DEF IInv, HeapInv, Managers
    <3>3. /\ b \in DOMAIN resources[heap[b].ratio]
          /\ resources[heap[b].ratio][b] = [relatives |-> {Master}, owner |-> TRUE]
          /\ b \in DOMAIN resources[Master]
          /\ resources[Master][b] = Entry({heap[b].ratio})
      BY <3>1 DEF IInv, RegistriesAgree
    <3>4. /\ b \in DOMAIN resources'[heap[b].ratio]
          /\ resources'[heap[b].ratio][b] = resources[heap[b].ratio][b]
      BY <1>4, <3>1, <3>2, <3>3
    <3>5. /\ b \in DOMAIN resources'[Master]
          /\ resources'[Master][b] = resources[Master][b]
      BY <1>4, <3>1, <3>2, <3>3
    <3> QED
      BY <3>1, <3>3, <3>4, <3>5
  <2>2. ASSUME NEW k \in Managers, NEW b \in DOMAIN resources'[k]
        PROVE  b \in DOMAIN heap' /\ k \in {Master, heap'[b].ratio}
    <3>1. /\ b \in DOMAIN resources[k]
          /\ b \notin {a \in S : k \in {Master, heap[a].ratio}}
      BY <1>4
    <3>2. b \in DOMAIN heap /\ k \in {Master, heap[b].ratio}
      BY <3>1 DEF IInv, RegistriesAgree
    <3>3. b \notin S
      BY <3>1, <3>2
    <3> QED
      BY <1>2, <3>2, <3>3
  <2> QED
    BY <2>1, <2>2 DEF RegistriesAgree
<1> QED
  BY <1>5, <1>6, <1>7 DEF IInv

LEMMA NextIInv ==
    ASSUME IInv, [Next]_vars
    PROVE  IInv'
<1>1. CASE UNCHANGED vars
  BY <1>1 DEF vars, IInv, HeapInv, ResourcesOK, RegistriesAgree
<1>2. ASSUME NEW m \in Managers, NEW b \in Books, Destroy(m, b)
      PROVE  IInv'
  <2>1. {b} \in SUBSET DOMAIN resources[m]
    BY <1>2 DEF Destroy
  <2> QED
    BY <1>2, <2>1, RemoveStep DEF Destroy
<1>3. ASSUME NEW m \in Managers, DestroyAll(m)
      PROVE  IInv'
  BY <1>3, RemoveStep DEF DestroyAll
<1>4. ASSUME NEW T \in Ratios, NEW b \in Books, NEW lower \in Prices,
             NEW upper \in Prices, Create(T, b, lower, upper)
      PROVE  IInv'
  BY <1>4, CreateStep
<1>5. ASSUME NEW b \in DOMAIN heap, NEW x \in Prices,
             InsertOrder(b, x) \/ GrowBookAbove(b, x) \/ GrowBookBelow(b, x)
      PROVE  IInv'
  <2>1. /\ HeapInv'
        /\ DOMAIN heap' = DOMAIN heap
        /\ \A k \in DOMAIN heap : heap'[k].ratio = heap[k].ratio
        /\ resources' = resources
    BY <1>5, BookStep DEF IInv
  <2>2. ResourcesOK'
    BY <2>1 DEF IInv, ResourcesOK
  <2>3. RegistriesAgree'
    BY <2>1 DEF IInv, RegistriesAgree
  <2> QED
    BY <2>1, <2>2, <2>3 DEF IInv
<1> QED
  BY <1>1, <1>2, <1>3, <1>4, <1>5 DEF Next, FactoryNext, BookNext

(***************************************************************************)
(* Theorems.                                                               *)
(***************************************************************************)

LEMMA Invariance == Spec => []IInv
<1>1. Init => IInv
  BY InitIInv
<1>2. IInv /\ [Next]_vars => IInv'
  BY NextIInv
<1> QED
  BY <1>1, <1>2, PTL DEF Spec

\* Books and registry entries stay what the code's types allow.
THEOREM FactoryTypeCorrect == Spec => []TypeOK
<1>1. IInv => TypeOK
  BY DEF IInv, HeapInv, ResourcesOK, GoodBook, TypeOK
<1> QED
  BY <1>1, Invariance, PTL

\* Every book that is allocated is in its ratio's registry, as its owner, and
\* in the master's; nothing else is in a registry.
THEOREM EachBookHasOneOwner == Spec => []RegistriesAgree
<1>1. IInv => RegistriesAgree
  BY DEF IInv
<1> QED
  BY <1>1, Invariance, PTL

\* An order rests at the level of its price however its book grew, in every
\* book whose ticks the grid of doubles can tell.
THEOREM GrowingMovesOrders == Spec => []OrdersAtTheirPrices
<1>1. IInv => OrdersAtTheirPrices
  BY DEF IInv, HeapInv, GoodBook, AtTheirLevels, OrdersAtTheirPrices, FineBooks, PriceOf
<1> QED
  BY <1>1, Invariance, PTL

\* The price of a level, as a double, is that level's when it is passed back.
LEMMA LevelComesBack ==
    ASSUME NEW b \in FineBooks, GoodBook(heap[b]), NEW level \in Int, level >= 0
    PROVE  /\ TickOf(b, PriceSeen(b, level)) = PriceOf(b, level)
           /\ PriceOf(b, level) \in TickPrices(heap[b].ratio)
           /\ AsTicks(heap[b].ratio, PriceOf(b, level)) =
                  AsTicks(heap[b].ratio, heap[b].base) + (level - 1)
           /\ LevelOf(b, TickOf(b, PriceSeen(b, level))) = level
           /\ level >= 1 => PriceSeen(b, level) > 0
<1> DEFINE T == heap[b].ratio
           base == heap[b].base
           p == PriceOf(b, level)
<1>1. /\ T \in Nat \ {0} /\ T <= Radj
      /\ base \in TickPrices(T) /\ AsTicks(T, base) \in Nat \ {0}
  BY GoodBookFacts DEF FineBooks, FineEnough
<1>2. /\ p \in TickPrices(T)
      /\ AsTicks(T, p) = AsTicks(T, base) + (level - 1)
  BY <1>1, PlusCountsTicks DEF PriceOf
<1>3. AsTicks(T, p) >= 0 /\ (level >= 1 => AsTicks(T, p) >= 1)
  BY <1>1, <1>2
<1>4. FromDouble(T, ToDouble(T, p)) = p
  BY <1>1, <1>2, <1>3, PricesRoundTrip
<1>5. TickOf(b, PriceSeen(b, level)) = p
  BY <1>4 DEF TickOf, PriceSeen
<1>6. level >= 1 => PriceSeen(b, level) > 0
  BY <1>1, <1>2, <1>3, ToDoublePositive DEF PriceSeen
<1>7. LevelOf(b, p) = 1 + AsTicks(T, p) - AsTicks(T, base)
  BY <1>2, LevelCountsTicks DEF FineBooks
<1>8. LevelOf(b, p) = level
  BY <1>1, <1>2, <1>7
<1> QED
  BY <1>2, <1>5, <1>6, <1>8

\* In every book whose ticks the grid of doubles can tell, a price that a client
\* sees is valid, positive and comes back as its level, and the range in ticks is
\* what the levels say.
THEOREM SeenPricesRoundTrip == Spec => []SeenPricesComeBack
<1>1. IInv => SeenPricesComeBack
  <2> SUFFICES ASSUME IInv, NEW b \in FineBooks
               PROVE  /\ \A level \in 1..heap[b].levels :
                             LET x == PriceSeen(b, level)
                             IN  /\ x > 0
                                 /\ IsValidPrice(b, x)
                                 /\ LevelOf(b, TickOf(b, x)) = level
                      /\ TicksInRange(b, PriceSeen(b, 1), PriceSeen(b, heap[b].levels))
                             = heap[b].levels - 1
    BY DEF SeenPricesComeBack
  <2>1. GoodBook(heap[b])
    BY DEF IInv, HeapInv, FineBooks
  <2> DEFINE T == heap[b].ratio
             n == heap[b].levels
  <2>2. /\ T \in Nat \ {0} /\ n \in Nat
        /\ AsTicks(T, heap[b].base) \in Nat \ {0}
    BY <2>1, GoodBookFacts
  <2>3. ASSUME NEW level \in 1..n
        PROVE  /\ PriceSeen(b, level) > 0
               /\ IsValidPrice(b, PriceSeen(b, level))
               /\ LevelOf(b, TickOf(b, PriceSeen(b, level))) = level
    <3>1. level \in Int /\ level >= 1 /\ level >= 0
      BY <2>2
    <3>2. /\ PriceSeen(b, level) > 0
          /\ LevelOf(b, TickOf(b, PriceSeen(b, level))) = level
      BY <2>1, <3>1, LevelComesBack
    <3> QED
      BY <3>2 DEF IsValidPrice
  <2>4. TicksInRange(b, PriceSeen(b, 1), PriceSeen(b, n)) = n - 1
    <3>1. /\ TickOf(b, PriceSeen(b, 1)) = PriceOf(b, 1)
          /\ PriceOf(b, 1) \in TickPrices(T)
          /\ AsTicks(T, PriceOf(b, 1)) = AsTicks(T, heap[b].base) + (1 - 1)
      BY <2>1, LevelComesBack
    <3>2. /\ TickOf(b, PriceSeen(b, n)) = PriceOf(b, n)
          /\ PriceOf(b, n) \in TickPrices(T)
          /\ AsTicks(T, PriceOf(b, n)) = AsTicks(T, heap[b].base) + (n - 1)
      BY <2>1, <2>2, LevelComesBack
    <3>3. AsTicks(T, Minus(T, PriceOf(b, n), PriceOf(b, 1))) =
              AsTicks(T, PriceOf(b, n)) - AsTicks(T, PriceOf(b, 1))
      BY <2>2, <3>1, <3>2, MinusCountsTicks
    <3>4. TicksInRange(b, PriceSeen(b, 1), PriceSeen(b, n)) =
              AsTicks(T, Minus(T, PriceOf(b, n), PriceOf(b, 1)))
      BY <3>1, <3>2 DEF TicksInRange
    <3> QED
      BY <2>2, <3>1, <3>2, <3>3, <3>4
  <2> QED
    BY <2>3, <2>4
<1> QED
  BY <1>1, Invariance, PTL
=============================================================================
