--------------------------- MODULE PriceTimeBook ---------------------------
(***************************************************************************)
(* What the matching engine promises, without chains, pointers, caches or  *)
(* a queue: resting limit orders, at most one incoming order, and matching *)
(* by price, then by age.  Ids are handed out in the order orders are made *)
(* so age is the order of ids.  Orderbook is shown to implement this.      *)
(***************************************************************************)
EXTENDS Integers

CONSTANTS
    Prices,    \* the prices a limit order may have
    AnyPrice   \* the price of an incoming market order

VARIABLES
    resting,   \* set of [id, side, price, sz]
    incoming,  \* NoIncoming, or the order that is being executed
    last       \* price of the last trade, 0 before the first

ptbVars == <<resting, incoming, last>>

Side == {"buy", "sell"}
NoIncoming == [id |-> 0, side |-> "buy", price |-> 0, sz |-> 0]

Order(P) == [id : Nat, side : Side, price : P, sz : Nat]

\* o, a resting order, is acceptable to the incoming order
Crosses(o, in) ==
    /\ o.side # in.side
    /\ \/ in.price = AnyPrice
       \/ IF in.side = "buy" THEN o.price <= in.price ELSE o.price >= in.price

\* o goes before q: a better price, or the same price and older
GoesBefore(o, q) ==
    \/ IF o.side = "buy" THEN o.price > q.price ELSE o.price < q.price
    \/ o.price = q.price /\ o.id < q.id

Less(x, y) == IF x < y THEN x ELSE y

PTBInit ==
    /\ resting = {}
    /\ incoming = NoIncoming
    /\ last = 0

Arrive ==
    /\ incoming = NoIncoming
    /\ incoming' \in Order(Prices \cup {AnyPrice})
    /\ incoming'.sz > 0
    /\ \A o \in resting : o.id < incoming'.id
    /\ UNCHANGED <<resting, last>>

Match(o) ==
    /\ o \in resting
    /\ incoming.sz > 0
    /\ Crosses(o, incoming)
    /\ \A q \in resting : q.side = o.side /\ q # o => GoesBefore(o, q)
    /\ last' = o.price
    /\ LET amount == Less(o.sz, incoming.sz)
       IN  /\ incoming' = [incoming EXCEPT !.sz = @ - amount]
           /\ resting' = (resting \ {o}) \cup
                  IF amount = o.sz THEN {} ELSE {[o EXCEPT !.sz = @ - amount]}

\* a limit order rests once nothing that is resting crosses it
Rest ==
    /\ incoming.sz > 0
    /\ incoming.price # AnyPrice
    /\ \A o \in resting : ~ Crosses(o, incoming)
    /\ resting' = resting \cup {incoming}
    /\ incoming' = NoIncoming
    /\ UNCHANGED last

\* an incoming order leaves when it is filled; a market order also when
\* there is nothing left to trade with
Leave ==
    /\ incoming # NoIncoming
    /\ incoming.sz = 0 \/ incoming.price = AnyPrice
    /\ incoming.sz > 0 => \A o \in resting : ~ Crosses(o, incoming)
    /\ incoming' = NoIncoming
    /\ UNCHANGED <<resting, last>>

Cancel(o) ==
    /\ o \in resting
    /\ incoming = NoIncoming
    /\ resting' = resting \ {o}
    /\ UNCHANGED <<incoming, last>>

\* a cancel whose replacement arrives in the same step
Replace(o) ==
    /\ o \in resting
    /\ incoming = NoIncoming
    /\ resting' = resting \ {o}
    /\ incoming' \in Order(Prices \cup {AnyPrice})
    /\ incoming'.sz > 0
    /\ \A q \in resting : q.id < incoming'.id
    /\ UNCHANGED last

PTBNext ==
    \/ Arrive \/ Rest \/ Leave
    \/ \E o \in resting : Match(o) \/ Cancel(o) \/ Replace(o)

PTBSpec == PTBInit /\ [][PTBNext]_ptbVars
=============================================================================
