------------------------------- MODULE Factory -------------------------------
(***************************************************************************)
(* Books are created and destroyed through factories, one for each tick    *)
(* ratio, and managed in two registries: the ratio's own, which owns the   *)
(* book, and the master's (include/resource_manager.hpp, the factories of  *)
(* simpleorderbook.hpp).  Of a book this module keeps what the price side  *)
(* of it needs (orderbook/impl.tpp): the lowest price, the number of       *)
(* levels and the levels orders rest at; Orderbook and the modules on top  *)
(* of it speak of levels only.                                             *)
(*                                                                         *)
(* The registries have no lock: calls of factories come one at a time.     *)
(***************************************************************************)
EXTENDS TickPrice, FiniteSets

CONSTANTS Books,       \* addresses; one that was freed may be used again
          Ratios,      \* the factories' tick ratios, as ticks in a unit
          Prices,      \* the prices clients pass, on the grid of Radj
          MaxLevels    \* bound on the levels a book grows to

ASSUME FactoryAssumption ==
    /\ Ratios \subseteq Nat \ {0}
    /\ Prices \subseteq Int
    /\ MaxLevels \in Nat

\* master_rmanager, beside the rmanager of each ratio
Master == 0
Managers == {Master} \cup Ratios

VARIABLES
    heap,        \* the books allocated: address -> book
    resources    \* _resources of each manager: address -> ResourceInfo

vars == <<heap, resources>>

ResourceInfo == [relatives : SUBSET Managers, owner : BOOLEAN]

Book == [ratio : Ratios, base : UNION {TickPrices(T) : T \in Ratios},
         levels : Nat,
         orders : SUBSET [level : Int,
                          price : UNION {TickPrices(T) : T \in Ratios}]]

\* Books and entries are what the code's types allow.
TypeOK ==
    /\ DOMAIN heap \subseteq Books
    /\ \A b \in DOMAIN heap : /\ heap[b] \in Book
                              /\ heap[b].base \in TickPrices(heap[b].ratio)
    /\ DOMAIN resources = Managers
    /\ \A m \in Managers :
           /\ DOMAIN resources[m] \subseteq Books
           /\ \A b \in DOMAIN resources[m] : resources[m][b] \in ResourceInfo

Init ==
    /\ heap = [b \in {} |-> 0]
    /\ resources = [m \in Managers |-> [b \in {} |-> 0]]

-----------------------------------------------------------------------------
(* The registries. *)

\* What a map holds after emplace (which keeps an entry it finds), and after erase
Emplace(map, b, info) ==
    [x \in DOMAIN map \cup {b} |-> IF x \in DOMAIN map THEN map[x] ELSE info]
Erase(map, S) == [x \in DOMAIN map \ S |-> map[x]]

Entry(relatives) == [relatives |-> relatives, owner |-> FALSE]

\* add: an entry in this manager and one in each relative, then adopt
Add(m, b, others) ==
    [k \in Managers |->
        IF k = m THEN Emplace(resources[m], b,
                              [relatives |-> others, owner |-> TRUE])
        ELSE IF k \in others THEN Emplace(resources[k], b, Entry({m}))
        ELSE resources[k]]

\* the managers that remove(b) on m erases b from: m and the entry's relatives
Reached(m, b) == {m} \cup resources[m][b].relatives

\* Mutant: the relatives keep their entries.
RemoveHere(m, S) == [resources EXCEPT ![m] = Erase(@, S)]

\* remove, of every book in S
Remove(m, S) ==
    [k \in Managers |->
        Erase(resources[k], {b \in S : k \in Reached(m, b)})]

\* the books whose ResourceInfo destructors run the deleter
Deleted(m, S) ==
    {b \in S : \E k \in Reached(m, b) :
                   b \in DOMAIN resources[k] /\ resources[k][b].owner}

-----------------------------------------------------------------------------
(* Prices and levels; a level counts from one, as _beg is the book's second *)
(* element. *)

TickOf(b, x) == FromDouble(heap[b].ratio, x)

\* _ptoi, and the level of a price that may be outside the book
LevelOf(b, p) == 1 + AsTicks(heap[b].ratio, Minus(heap[b].ratio, p, heap[b].base))

\* _itop
PriceOf(b, level) == PlusTicks(heap[b].ratio, heap[b].base, level - 1)

\* the same as the double clients see: min_price, max_price, order_info
PriceSeen(b, level) == ToDouble(heap[b].ratio, PriceOf(b, level))

IsValidPrice(b, x) == LevelOf(b, TickOf(b, x)) \in 1..heap[b].levels

TicksInRange(b, lower, upper) ==
    AsTicks(heap[b].ratio, Minus(heap[b].ratio, TickOf(b, upper), TickOf(b, lower)))

-----------------------------------------------------------------------------
(* Calls. *)

\* min and the levels of the book create(min, max) asks for
LowestPrice(T, x) ==
    LET min == FromDouble(T, x)
    IN  IF min = OfTicks(T, 0) THEN PlusTicks(T, min, 1) ELSE min
LevelsAsked(T, min, max) == AsTicks(T, Minus(T, max, min)) + 1

\* create(min, max) on the factory of ratio T; invalid arguments throw
Create(T, b, lower, upper) ==
    LET min == LowestPrice(T, lower)
        max == FromDouble(T, upper)
        n   == LevelsAsked(T, min, max)
    IN  /\ b \notin DOMAIN heap
        /\ ~ Greater(OfTicks(T, 0), FromDouble(T, lower))
        /\ ~ Greater(FromDouble(T, lower), max)
        /\ n >= 3
        /\ n <= MaxLevels
        /\ resources' = Add(T, b, {Master})
        /\ heap' = [x \in DOMAIN heap \cup {b} |->
                       IF x = b THEN [ratio |-> T, base |-> min,
                                      levels |-> n, orders |-> {}]
                                ELSE heap[x]]

\* destroy on a factory or SimpleOrderbook::Destroy; a book the manager does
\* not have is left alone
Destroy(m, b) ==
    /\ b \in DOMAIN resources[m]
    /\ resources' = Remove(m, {b})
    /\ heap' = Erase(heap, Deleted(m, {b}))

\* destroy_all, SimpleOrderbook::DestroyAll and a manager's destructor
DestroyAll(m) ==
    LET all == DOMAIN resources[m]
    IN  /\ all # {}
        /\ resources' = Remove(m, all)
        /\ heap' = Erase(heap, Deleted(m, all))

\* A limit order at price x: _tick_price_or_throw, then _ptoi in the window
InsertOrder(b, x) ==
    LET T    == heap[b].ratio
        tick == ToDouble(T, TickOf(b, x))
        new  == [level |-> LevelOf(b, TickOf(b, tick)), price |-> TickOf(b, x)]
    IN  /\ IsValidPrice(b, x)
        /\ heap' = [heap EXCEPT ![b].orders = @ \cup {new}]
        /\ UNCHANGED resources

\* grow_book_above: incr levels more; the orders stay at theirs
GrowBookAbove(b, x) ==
    LET T    == heap[b].ratio
        diff == Minus(T, TickOf(b, x), PriceOf(b, heap[b].levels))
        incr == AsTicks(T, diff)
    IN  /\ Greater(diff, OfTicks(T, 0))
        /\ heap[b].levels + incr <= MaxLevels
        /\ heap' = [heap EXCEPT ![b].levels = @ + incr]
        /\ UNCHANGED resources

\* the new lowest price: nothing is below one tick
NewBase(T, x) ==
    LET p == FromDouble(T, x)
    IN  IF Greater(OfTicks(T, 1), p) THEN OfTicks(T, 1) ELSE p

\* Mutant: the levels of the orders do not follow.
GrowBelowInPlace(b, x) ==
    LET T    == heap[b].ratio
        diff == Minus(T, heap[b].base, NewBase(T, x))
    IN  /\ Greater(diff, OfTicks(T, 0))
        /\ heap[b].levels + AsTicks(T, diff) <= MaxLevels
        /\ heap' = [heap EXCEPT ![b].base = NewBase(T, x),
                                ![b].levels = @ + AsTicks(T, diff)]
        /\ UNCHANGED resources

\* grow_book_below: the elements move up by incr
GrowBookBelow(b, x) ==
    LET T    == heap[b].ratio
        diff == Minus(T, heap[b].base, NewBase(T, x))
        incr == AsTicks(T, diff)
    IN  /\ heap[b].base # OfTicks(T, 1)
        /\ Greater(diff, OfTicks(T, 0))
        /\ heap[b].levels + incr <= MaxLevels
        /\ heap' = [heap EXCEPT
                       ![b].base = NewBase(T, x),
                       ![b].levels = @ + incr,
                       ![b].orders = {[o EXCEPT !.level = @ + incr] : o \in @}]
        /\ UNCHANGED resources

FactoryNext ==
    \/ \E m \in Managers : \/ \E b \in Books : Destroy(m, b)
                           \/ DestroyAll(m)
    \/ \E T \in Ratios, b \in Books, lower, upper \in Prices :
           Create(T, b, lower, upper)

BookNext ==
    \E b \in DOMAIN heap, x \in Prices :
        \/ InsertOrder(b, x)
        \/ GrowBookAbove(b, x)
        \/ GrowBookBelow(b, x)

Next == FactoryNext \/ BookNext

Spec == Init /\ [][Next]_vars

-----------------------------------------------------------------------------
(* Properties. *)

\* A book that is allocated is in its own ratio's registry, which owns it, and
\* in the master's, which knows the owner; nothing else is in a registry.  So
\* each book is freed by whichever of the two is asked, once, and no registry
\* keeps an address that was freed, whose reuse create would refuse.
RegistriesAgree ==
    /\ \A b \in DOMAIN heap :
           /\ b \in DOMAIN resources[heap[b].ratio]
           /\ resources[heap[b].ratio][b] =
                  [relatives |-> {Master}, owner |-> TRUE]
           /\ b \in DOMAIN resources[Master]
           /\ resources[Master][b] = Entry({heap[b].ratio})
    /\ \A m \in Managers : \A b \in DOMAIN resources[m] :
           b \in DOMAIN heap /\ m \in {Master, heap[b].ratio}

\* the books whose levels differ as doubles
FineBooks == {b \in DOMAIN heap : FineEnough(heap[b].ratio)}

\* However often a book grew, at either end, an order rests at the level of
\* the price it was given, within the book, when the grid of doubles is as fine
\* as its ticks.
OrdersAtTheirPrices ==
    \A b \in FineBooks : \A o \in heap[b].orders :
        /\ o.level \in 1..heap[b].levels
        /\ PriceOf(b, o.level) = o.price

\* The price a client sees for a level, passed back, is valid and is that
\* level again: replacing an order, or pulling and inserting it, at its own
\* price does not move it.  No level is below one tick, and the range is as
\* wide as the levels are many.  All this when the grid is fine enough.
SeenPricesComeBack ==
    \A b \in FineBooks :
        /\ \A level \in 1..heap[b].levels :
               LET x == PriceSeen(b, level)
               IN  /\ x > 0
                   /\ IsValidPrice(b, x)
                   /\ LevelOf(b, TickOf(b, x)) = level
        /\ TicksInRange(b, PriceSeen(b, 1), PriceSeen(b, heap[b].levels))
               = heap[b].levels - 1
=============================================================================
