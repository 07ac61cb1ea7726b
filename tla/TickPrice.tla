------------------------------ MODULE TickPrice ------------------------------
(***************************************************************************)
(* Prices of a book (include/tick_price.hpp): a whole part and a number of *)
(* ticks, exact in a unit of T ticks.  The template's TickRatio is the     *)
(* first argument T of the operators: every ratio the template accepts is  *)
(* one unit divided by a whole number of ticks.  The clients' prices are   *)
(* doubles; here a double is the integer x of the price x / Radj, since    *)
(* operator double rounds to that grid and the constructor reads from it.  *)
(***************************************************************************)
EXTENDS Integers

\* radj: 10 to the power of RoundPrecision, which is 5 for T up to 316227
CONSTANT Radj

\* The grid is not coarser than the ticks.  The code does not see to it: its
\* static_assert compares a rounded logarithm with RoundPrecision, which lets T
\* be up to three times Radj, and then two levels may have one double.
FineEnough(T) == T <= Radj

ASSUME RadjAssumption == Radj \in Nat \ {0}

TickPrices(T) == [whole : Int, ticks : 0..(T - 1)]

\* ldiv and the cast to long truncate towards zero
Quot(a, b) == IF a >= 0 THEN a \div b ELSE -((-a) \div b)

\* std::round of a / b, half away from zero
Round(a, b) == IF a >= 0 THEN (2 * a + b) \div (2 * b)
                         ELSE -((2 * (-a) + b) \div (2 * b))

\* TickPrice(long whole, long ticks)
NewTickPrice(T, whole, ticks) ==
    LET quot == Quot(ticks, T)
        rem  == ticks - T * quot
    IN  IF rem < 0 THEN [whole |-> whole + quot - 1, ticks |-> rem + T]
                   ELSE [whole |-> whole + quot, ticks |-> rem]

\* Mutant: the ticks are truncated.
FromDoubleTruncating(T, x) ==
    LET whole == Quot(x, Radj) - (IF x < 0 THEN 1 ELSE 0)
    IN  [whole |-> whole, ticks |-> Quot((x - whole * Radj) * T, Radj)]

\* TickPrice(double)
FromDouble(T, x) ==
    LET whole == Quot(x, Radj) - (IF x < 0 THEN 1 ELSE 0)
        ticks == Round((x - whole * Radj) * T, Radj)
    IN  IF ticks = T THEN [whole |-> whole + 1, ticks |-> 0]
                     ELSE [whole |-> whole, ticks |-> ticks]

AsTicks(T, p) == T * p.whole + p.ticks

ToDouble(T, p) == Round((T * p.whole + p.ticks) * Radj, T)

Minus(T, p, q) == NewTickPrice(T, p.whole - q.whole, p.ticks - q.ticks)
PlusTicks(T, p, n) == NewTickPrice(T, p.whole, p.ticks + n)
OfTicks(T, n) == NewTickPrice(T, 0, n)

Greater(p, q) ==
    \/ p.whole > q.whole
    \/ p.whole = q.whole /\ p.ticks > q.ticks
=============================================================================
