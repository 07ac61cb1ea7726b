# Formal models of SimpleOrderbook

TLA+ models of SimpleOrderbook: the matching engine with basic, all-or-none
and advanced orders, its dispatcher and callbacks, queries, prices, the
factories and the Python extension's use of threads. TLC checks them on small
instances, TLAPS proves the most important properties for every instance.
`PROJECT.json` maps every definition to the lines it translates.

## The system and its parts

A `SimpleOrderbookImpl<TickRatio>` is a vector of price levels, one per tick.
Orders enter through a queue, a dispatcher thread executes them one at a time
under `_master_mtx` (an *execution window*), and what happened goes back to
clients as answers and callbacks.

| part | state | operations | hard behaviour | modules |
|---|---|---|---|---|
| Matching engine, basic orders (`core.cpp`, `specials.tpp`, `impl.tpp`) | chains of limit and stop orders per level, `_id_cache`, 8 cached pointers that bound where orders are, `_last`, `_last_id`, volume, internal queue | insert limit / market / stop / stop-limit, pull, replace, grow | cascades of stops, pointers that must stay exact, exceptions half way | `Orderbook`, `PriceTimeBook`, `OrderbookProofs`, `MatchingProofs` |
| All-or-none orders (`core.cpp`, `advanced.cpp`, `specials.tpp`) | AON chains of both sides per level and their 4 pointers | two passes over old AON orders around each insert, `_limit_is_fillable`, fill-or-kill | look-ahead over overlapping orders, an order that moves between two chains | `AonBook` |
| Advanced orders (`advanced.cpp`, `objects.cpp`) | linked orders, bracket and trailing parameters in the order bundles, sets of trailing stops | OCO, OTO, bracket, trailing stop, trailing bracket | orders that cancel, create and resize each other inside a window | `AdvancedBook`, `AdvancedProofs` |
| Order parameters and tickets (`order_paramaters.hpp`, `advanced_order.cpp`, `objects.cpp`) | values | checks before a call is queued | - | in `AdvancedBook` |
| Dispatcher and callbacks (`core.cpp`, `orders.cpp`) | `_external_order_queue`, promises, `_callbacks_sync`, `_callbacks_async`, `_async_callbacks_done`, run flag | synchronous and asynchronous calls, `wait_for_async_callbacks`, destructor | four kinds of threads, lost wake-ups, shutdown | `Dispatcher`, `OrderService`, `DispatcherInvariant`, `DispatcherProofs` |
| Queries (`query.cpp`, `exec::range`, `exec::depth`) | none | best prices and sizes, market depth, totals, order info | ranges with one side empty, AON orders on the wrong side of the market | `BookQueries` |
| Tick prices (`tick_price.hpp`) | none | arithmetic, comparison, conversion from and to doubles | rounding, signs, normal forms | `TickPrice`, `FactoryProofs` |
| Factory and resource manager (`simpleorderbook.hpp`, `resource_manager.hpp`, `impl.tpp`) | registries of live books with one owner, the base and levels of a book | create, destroy, destroy all, price to level and back, grow | an entry in two registries with one owner, orders that move when the book grows | `Factory`, `FactoryProofs` |
| Python extension (`src/python`) | references to callbacks, the interpreter lock | every method of `SimpleOrderbook` | two locks taken by two kinds of threads, references dropped by other threads | `PythonBook`, `PythonProofs` |
| Tests, samples, build files | - | - | - | not modelled |

How they interact: a client's call builds an element of the external queue
with a promise in it; the dispatcher pops it, runs the engine under
`_master_mtx` and answers the promise. Trades, triggers and cancels append
callbacks, each by the way *its order* was inserted: synchronous ones are
handed over with the answer of a synchronous call and run by the caller,
asynchronous ones go to the callback thread. Queries and growing take
`_master_mtx` from the caller's thread, so they happen between windows.
Triggered stops, and what the conditions of advanced orders create, become
orders in the internal queue, which the same window executes to the end. The
Python extension calls all this from Python threads, and the engine's threads
call back into it.

What makes the parts correct: of the engine, that the cached pointers bound
all orders and `_bid`/`_ask` are exact, since the side of a resting order and
the loops over the book are computed from them; that matching is by price, then
time, trades everything that crosses, and triggers every stop it reaches; that
a window ends and leaves nothing behind. Of all-or-none orders, that one fills
whole or not at all and does not rest while it could fill. Of advanced orders,
that links, sizes of exits and trailing stops agree whatever happens to the
orders. Of the dispatcher, that each call gets one answer, each callback is run
once, in order, by the caller where it gets a value, that waiting ends and means what it
says, and that shutdown ends. Of prices, that they come back.

## The modules

    BookQueries -> AonBook -> Orderbook (refines PriceTimeBook)
    MCAdvancedBook -> AdvancedBook -> Orderbook
    MatchingProofs -> OrderbookProofs -> Orderbook
    AdvancedProofs -> OrderbookProofs, AdvancedBook

    DispatcherProofs -> DispatcherInvariant -> Dispatcher (refines OrderService)
    FactoryProofs -> Factory -> TickPrice
    PythonProofs -> PythonBook
    MatchingProofs, DispatcherProofs -> Induction

(An arrow points to what is extended.)

### `Orderbook`: the engine, one action per step that changes the book

A level is a price in ticks; the book is `beg .. end-1`, and `beg-1` and `end`
are the null pointers (`_beg - 1` and `_end`). The code keeps each pointer
twice, in mirrored template specialisations; here a pointer is a function of the side:

| model | buy | sell |
|---|---|---|
| `best` | `_bid` | `_ask` |
| `worst` | `_low_buy_limit` | `_high_sell_limit` |
| `near` (first to trigger) | `_low_buy_stop` | `_high_sell_stop` |
| `far` | `_high_buy_stop` | `_low_sell_stop` |

`pc` says where the dispatcher is in the execution of the order `cur`:

    idle -> route -> trade -> scan_buy -> scan_sell -> settle -> drain -> idle
                                                          ^        |
    the loop over the internal queue: route <-------------|--------+

* `InsertOrder`, `PullOrder`, `ReplaceOrder`: the three branches of
  `_execute_external_order`. A pull is one step (`_pull_order`, with
  `adjust_state_after_pull`); a replace pulls and starts the new order.
  Prices and ids are checked before anything changes, so a refused call is no
  step.
* `RouteLimit`, `RouteMarket`, `InsertStop`: `_route_basic_order` and the
  beginnings of the three inserts.
* `FillFront`, `FillPartOfFront`, `EndTrade`: one turn of the loops of
  `_trade` and `_hit_chain`, with `_trade_has_occured` and, when the chain is
  empty, `find_new_best_inside`.
* `ScanBuyStops`, `EndBuyScan`, `ScanSellStops`, `EndSellScan`:
  `_look_for_triggered_stops`; one step of the scan is
  `_handle_triggered_stop_chain` for a level, the whole chain with both sides.
* `Filled`, `RestLimit`, `ThrowLiquidity`: how `_insert_limit_order` and
  `_insert_market_order` end, with the handler in `_dispatch_external_order`.
* `NextInternal`, `CloseWindow`: the loop over `_internal_order_queue`.
* `GrowBookAbove`, `GrowBookBelow`: reallocation keeps the levels and only the
  null pointers follow the ends (`_reset_internal_pointers`).

`find_new_best_inside` is stated by what its loop finds (the first non-empty
chain away from the market) and not as a loop, which also spares the module a
RECURSIVE operator. The field `side` of a resting limit order is a history
variable: the code does not have it and no action reads it.

`PriceTimeBook` is the abstract book: a set of resting orders, one incoming
order, matching by price then id. `Orderbook!ImplementsPriceTimeBook` is the
refinement; its mapping is `RestingOrders` (an order of the abstract book for
each place of a limit chain, `AtLevel`) and `IncomingOrder` (`cur`, from the
step that gives it an id until it rests or is gone). `MatchesByPriceThenTime`
proves it.

### `AonBook`: all-or-none and fill-or-kill orders

Extends `Orderbook` with the two AON chains of a level (`aons`) and their
windows (`aon_win`). An insert is now three calls of `_trade`: for old AON
orders that the new one lets fill (`_match_aon_orders_PRE_trade`), for the new
order, and again for old ones (`_match_aon_orders_POST_trade`). `phase` says
which, `taker` is the order `_trade` runs for, `overlaps` what the loop of a
pass has still to visit. `SkipOldAon` and `TradeOldAon` are the two outcomes of
a turn of that loop, `HitLevel` is one turn of the loop of `_trade` (AON chain
first, then limit chain), `RestAndBeginPass`, `KillFok` and `Fail` how an order
ends. `Fillable` is `_limit_is_fillable`, a fold over the levels it would
meet. `copy_bndl_to_aon_chain` moves an AON order that cannot be filled from
the limit chain to an AON chain, always to that of the buys, as in the code.

### `BookQueries`: what the queries tell

Extends `AonBook` with the queries as operators, made of the code's ranges
(`exec::range`, `exec::depth`), and compares them with the orders that rest.

### `AdvancedBook`: orders with conditions

Extends `Orderbook`. The code keeps the condition of an order in a union in its
bundle; here `adv` maps ids to it. Conditions run in the middle of other
steps: while `_hit_chain` looks at an order it has just traded (`pc` =
"matched": `CancelOther`, `TriggerOther`, `GrowExits`, `IssueExits`,
`AdjustOtherExit`, `Reduce`), while a triggered chain is handled ("chain_buy",
"chain_sell": `CancelForStop`, `TriggerHead`), when `_trade` ends ("adjust":
`LiftTrailingStop`, `PlaceTrailingStop`, two steps since the code may throw
between them; `adjusting` holds the stops left to move and `NextMove` the order
of the code, sells first and each set by id), and when the order a ticket came with has traded ("condition":
the `Conclude...` actions). `Accepted` is what the constructor of a queue
element and the ticket builders let through. A pull takes the linked order with
it (`PullLinkedOrder`), a replace inserts after both are out. `MCAdvancedBook` names the orders
of each run.

`AdjustOtherExit` looks the other exit of a bracket up, as `_handle_active_bracket`
does, and is `ShrinkOtherExit` when it is there. When it is a trailing stop that
an earlier exception took (`Lost`), the look-up throws in the middle of
`_hit_chain`, and `TearTrade` ends the window with filled orders still on the
chain: `pc` = "torn". That is where the model ends: it does not follow a book
whose chains hold orders that the cache has not. `ExitsAreFound` says that it
does not happen, the run `exit_lost` that it does.

### `Dispatcher`: the threads

Clients, the dispatcher, the callback thread and the destructor. An action is
what a thread does under one lock. The single waiters of the two queues wait
with a predicate, and there a guard says the same as the condition variable;
the waiters of `wait_for_async_callbacks` can be several and are modelled with
their wake-ups, spurious ones included. What a window does to the book is
reduced to what the threads see of it: it produces callbacks, for orders whose
calls were synchronous or asynchronous, and ends with a value or an exception
(`Fire`, `CloseWindow`, `ThrowInWindow`). `log` is a history of callbacks and
of the threads that ran them; `wait_from` of what there was when a wait began.

`OrderService` is the abstract service: calls answered once each in the order
they were made, asynchronous callbacks delivered once each in the order they
were produced, with the liveness of both. `ImplementsOrderService` is the
refinement.

### `TickPrice` and `Factory`

A `TickPrice` is a record of whole units and ticks, exact. A double is an
integer on the grid of `RoundPrecision` decimals (`Radj` = 100000), since
`operator double` rounds to that grid and the constructor reads from it;
truncation and rounding are the code's, for negative values too.

`Factory` has the registries (`resources`, one map for each ratio's manager
and one for the master's) and of each book what its price side needs: the
base, the number of levels, the orders with the prices they were given.
Registries are not locked in the code: calls of factories come one at a time.

### `PythonBook`

Python threads, the interpreter lock, `_master_mtx` and the dispatcher. A
method gives the interpreter lock up around its native call; the callback
object takes it for each copy and each destruction, in whatever thread. A book
is reduced to the callbacks of the orders that rest in it.

`Trade`, `PullOrder` and `ReplaceOrder` put an element in the queue (`Send`) and
wait for its window. There `PopOrder` copies the callback of the order that goes
for the cancel, `DropPopped` destroys the order's bundle, and `Rest` or `Fill`
inserts, if there is something to insert; `NothingToPull` is a pull that finds
nothing. The caller then runs the callbacks of the window, the cancel among them
(`StartCallback`, `EndCallback`). `Query` reads the book under `_master_mtx` in
the caller's thread, and callbacks may do so too.

### Mutants

An operator that a comment calls a mutant is a definition next to it with one
plausible mistake in it. No specification uses it. Put in place of the
definition, it has to make the property named with it in `PROJECT.json` fail.

## What the runs check

| run | what it asks | bounds |
|---|---|---|
| `matching` | limit, market and stop-limit orders with pulls, replaces and growing at both ends: pointers exact, what `_assert_internal_pointers` asserts, sides recovered, all that crosses traded, sizes conserved, price-time priority; the inductive invariant of the proofs | 3 levels growing to 5, sizes 1 and 2, 3 orders |
| `stops` | stops of both sides on shared chains, in cascades that may run out of liquidity: windows, cache, ids, nothing reached is missed, every window closes and leaves nothing behind | 3 levels, limit and stop orders of size 1, 5 ids |
| `aon` | AON orders fill whole or not at all, an AON order that could fill does, windows of AON chains, a fill-or-kill order that is not killed trades (and fills whole when it has to, if no old AON order has traded with it first), queries agree with the book | 3 levels, sizes 1 and 2, 4 orders: limit orders of both sides, AON buys, market and FOK sells, pulls |
| `advanced` | links, sizes of exits and trailing stops stay right through fills, triggers, pulls and replaces; windows close | 4 levels, sizes 1 and 2, 6 ids, ten kinds of orders |
| `callbacks` | callbacks run once, those of a synchronous call that gets a value by its own thread before it returns; calls return, also those that callbacks make; calls and callbacks in order | 2 clients, 3 calls, 1 callback a window |
| `shutdown` | a single thread in `wait_for_async_callbacks` comes back, and finds all run if it had to wait; a book destroyed with calls in its queue | 1 client, 3 calls, 1 callback a window |
| `factory` | registries agree, orders stay at their prices, prices come back | 2 addresses, ratios of 3 and 4 ticks, 7 prices, 7 levels |
| `python` | references count their holders, every method returns | 2 threads, 3 callbacks, 4 calls: inserts, pulls, replaces, reads |
| `aon_lost`, `exit_lost`, `callbacks_late`, `python_gil` | four statements that the code does not keep | see the `.cfg` files |

Three levels are the least that `create` accepts, and enough for a bid, an
ask and a gap, for both ends of the book, and for chains on either side of a
level; two more let it grow at one end or both, by one level or two, with orders
in it. Two orders on a chain and a third that trades with the first and a part
of the second need three ids and the sizes 1 and 2. A cascade needs a resting order, a trade and two stops,
five ids with the ids given at the trigger; `MaxId` bounds what *clients* send,
and triggered orders go on counting. A stop that has become a market order
runs out of liquidity in `stops`, which is how the handler is reached.
`StopLimits` bounds the limit prices that clients give stop-limit orders: with
the middle of three levels, the order made by the trigger may rest or trade on
either side. In `aon`, four orders are two that rest, one between them and one
that trades: an AON order behind a limit order, moved to the AON chain and
filled by a later one. In `advanced`, an entry, two that trade with it, its two
exits and one that trades with an exit are six ids; the fourth level leaves
room for an exit on either side of the entry. With three calls a failed window,
a window that takes over its callback and a window after that are all there.
In `factory` the prices lie between ticks, below one tick and out of order,
and thirds of a unit are not exact as doubles. The runs set CHECK_DEADLOCK
FALSE since a program may stop making calls (and the bounds make it).

The bounds of `aon` and `advanced` also keep out what the code is known to do
wrong, so that the properties say something of the rest; see below.

### What the runs found

* `aon_lost`: an order of exactly the size of the AON order it meets makes
  `_hit_chain` run on the limit chain of that level with nothing left to
  trade. Its last lines step back from the first element and may erase an order
  that has not traded. One AON buy and one limit buy at a price and a sell are
  enough; the build of the library does the same.
* `exit_lost`: a trailing stop whose new price is less than one tick, or
  outside the book, is off its chain when the derivation throws
  (`LiftTrailingStop`, then the exception in `PlaceTrailingStop`). It is lost
  and its id stays among the trailing stops. A target that was linked with it
  rests on, and when an order takes a part of it `_handle_active_bracket` looks
  the stop up, "SHOULDN'T THROW", and throws after `_hit_chain` has traded and
  before it has taken anything off the chain.
* `callbacks_late`: `_callbacks_sync` is taken by synchronous windows that end
  with a value, and by no others. The comments of
  `_push_external_order_sync` and `_push_external_order_async` (core.cpp:972 and
  1012) and the repository's README (lines 60 and 71) say of every window where
  its callbacks are run. The run checks both halves,
  `FailedCallsRunCallbacksToo` and `AsyncWindowLeavesNoCallbacks`.
* `python_gil`: `is_valid_price` and `ticks_in_range` keep the interpreter
  lock while they wait for `_master_mtx`; the dispatcher waits for the
  interpreter lock inside its window to copy a callback. Both wait for ever.

### What else the code is known to do

Found on the way with the same modules, or on the built library, and without a
run of their own:

* `StopsTriggerOnlyWhenReached` (`Orderbook`): stop orders of both sides rest
  on one chain and a trigger takes the whole chain, so a buy stop that is
  reached triggers sell stops at its price that no trade has reached.
* `ContingentOrdersAreProcessed` (`Orderbook`): an exception in a window drops
  the triggered orders that wait in the internal queue.
* Two clients in `wait_for_async_callbacks` (`shutdown.cfg` with a second
  client): `notify_one` wakes one of them only, so that `WaitersReturn` is a
  statement about a single waiter. A wait that finds nothing to wait for returns
  at once, from what it saw when it looked; `WaitMeansDone` is about waits that
  block.
* A callback in a synchronous call while the book is destroyed
  (`shutdown.cfg` with `CallbackCalls = TRUE`): it and the destructor wait for
  each other.
* AON sells that rest (`aon.cfg` with both sides in `AonSides`):
  `copy_bndl_to_aon_chain` puts them among the buys and `_limit_is_fillable`
  does not look there; `AonWindows` and `NoFillableAon` fail, and the assertion
  that an AON order fills whole or not at all (`filled == e.sz || filled == 0`,
  advanced.cpp:731) can fire.
* A fill-or-kill order with the trigger of a full fill can fill in part and rest.
  A sell of 1 rests at 3, then an AON buy of 2 at 3 on its AON chain; a
  fill-or-kill sell of 2 at 3 is counted fillable against the buy, but the pass
  before the trade lets the buy take 1 from the resting sell and 1 from the new
  order, and the last unit rests. The code asserts only `filled > 0`
  (advanced.cpp:715). `FokFills` makes the exception in its words: an order that no
  old AON order has traded with first fills whole.
* Advanced orders: an OCO that starts with a stop and has a marketable second
  order executes both, or throws at `_id_cache.at`; a bracket that asks for a
  full fill and is filled in two trades gets exits for the last one only; one
  with a stop entry gets its exits at the trigger, before the entry trades;
  a trailing stop of three ticks or more that last has come nearer to moves
  away again when last goes back by less than it came, since it is set from the
  extreme of the trade whatever it was before. It is still within its ticks,
  which is what `TrailingStopsFollow` says.
* Tick ratios between 1/100000 and 1/316227 pass the static assertion of
  `TickPrice`, which compares rounded logarithms, and lose ticks on the way
  through a double. `OrdersAtTheirPrices` and `SeenPricesComeBack` are about the
  other books (`FineBooks`); the registries and types are for every ratio.

### Fairness

`Orderbook`, `AonBook`, `AdvancedBook`: weak fairness of a step inside a
window. The dispatcher thread holds the only lock it needs and waits for
nothing until the window closes. Clients owe nothing. `WindowCloses` and
`AdvWindowCloses` are then about the engine itself, that trades, triggers and
conditions run out.

`Dispatcher`: weak fairness of the dispatcher and callback threads, of a
client that is *inside* a call, and of a destructor that has begun. It assumes
that callbacks and windows end, not that anyone makes a call, that a spurious
wake-up happens, or which of several waiters `notify_one` picks.

`PythonBook`: weak fairness of the dispatcher and of each thread that is inside
a method; making a call is nobody's duty. Locks need no strong fairness because
the number of calls is bounded: a thread that waits for a lock finds it free at
last and for good.

## What is proved

Each theorem is about a specification as TLC runs it, `Spec`, and holds for
every value of the constants that the named assumptions admit. The modules
about state machines have an inductive invariant each: `IInv` for the engine,
the dispatcher and the factories, `AdvIInv` for the book with conditions, `PInv`
for the Python extension; `MatchingProofs` adds `IdInv` and `ArrivalInv` to that
of the engine. TLC
checks each property on small instances as well.

### The engine: `OrderbookProofs`, `MatchingProofs`

For every `MaxLevel`, every book of at least three levels, every set of
positive sizes and any number of orders, from the assumptions of `Orderbook`
(`BookAssumption`, `SizesAssumption`, `CallsAssumption`):

| theorem | property |
|---|---|
| `InductiveInvariant` | `IInv` |
| `TypeCorrect` | `TypeOK` |
| `NeverCrossed` | `Uncrossed` |
| `SideIsKnown` | `SideFromLevel` |
| `LimitWindowsHold` | `LimitWindows` |
| `StopWindowsHold` | `StopWindows` |
| `TradesAll` | `NothingLeftToTrade` |
| `ReachedStopsTrigger` | `AllReachedStopsTrigger` (an action property) |
| `WindowsAreClean` | `WindowIsClean` |
| `PointersAssert` | `AssertInternalPointers`, what a debug build asserts |
| `CacheAlwaysAgrees` | `CacheAgrees` (in `MatchingProofs`) |
| `OlderOrdersFirst` | `TimePriority` (in `MatchingProofs`) |
| `MatchesByPriceThenTime` | `ImplementsPriceTimeBook`, the refinement (in `MatchingProofs`) |
| `SizeIsConserved` | `WindowConservesSize`, an action property (in `MatchingProofs`) |
| `CascadesEnd` | every step of a window makes a well-founded measure smaller (in `MatchingProofs`) |

None of these is inductive alone. `IInv` is the conjunction of eight parts,
and why each is needed says how the engine works:

* `TypeOK`;
* `PricesInBook`: the prices of orders that wait, also in the internal queue
  and on the stop chains, are in the book, so that what a trigger makes can be
  inserted without a check;
* `ControlState`: what `cur`, the internal queue and the flag are at each `pc`;
* `LimitWindows`, `Uncrossed`: each needs the other. A rest keeps the book
  uncrossed because best is exact; a pull keeps best exact because the level
  tells the side;
* `StopWindows`: a trigger empties a chain for both sides and moves the window
  of one, which is sound because a window need not be exact;
* `BestIsNotTradable`: after `_trade` the best of the other side is beyond the
  order's price, which carries `NothingLeftToTrade` over the scan of stops;
* `ScanPosition`: the loop variable against the window that the loop itself
  moves.

The cache and the age of orders need a second invariant, `IdInv`, on top of it.
`CacheAgrees` alone is not inductive: a pull or a fill erases an id, and would
leave another order with the same id on a chain uncached, had one. So ids must
be unique, and they are because they ascend: along each chain (`ChainsAscend`),
along the internal queue, all of which is younger than what rests
(`QueueIsYounger`), with the order that is executed in between (`InHand`) and
`last_id` above all (`IdsAreOld`). What a step removes is told by one operator,
`Without`, and one lemma, `TakingOut`, for pulls, fills and triggers alike.

The refinement says that the engine with its cached pointers does what the
abstract book, a set with no pointers at all, does. Each step is an abstract
step or a stutter, and the invariants say why. Starting an order is an arrival;
its id is new because ids are old (`IdsAreOld`). A fill takes the abstract
book's best order because `best` is exact (`LimitWindows`, `Uncrossed`) and the
front of a chain is its oldest (`ChainsAscend`). A rest is allowed because
nothing that crosses is left (`BestIsNotTradable`). A pull removes one order,
because ids are unique. Scans of stops, the internal queue and growing are
stutters. `ArrivalInv` (ids begin at 1 and market orders have no limit) tells an
order in hand from none.

What a window conserves is a sum over the orders of every level: `ChainSize`,
`LevelSize`, `BookSize`, all by `SumTo`, a recursive function. Facts about such
a function for every argument need induction, and the library's theorem of
natural induction takes an operator, which no installed prover can instantiate.
The module `Induction` gets it from well-foundedness, whose facts are
first-order: `LeastNumber` (a set of numbers that is not empty has a least one)
gives `SetInduction` (a set with 0 that is closed under successor is `Nat`) and
`SequenceInduction` (the same of sequences and `Append`), and each
induction is about the set of what its claim holds for. So `SumExists`
(the recursive definition defines a function) and `SumIs`, `SumAppend` and
`SumChange` (what one more order and one changed order do to a sum), on which
the proof that each action keeps the total rests, case by case.

`CascadesEnd` is about the loop over the internal queue, which has no bound in
the code: a triggered stop order trades, its trade triggers others, and these
join the queue. Its measure has four numbers in lexicographic order: the stop
orders left (`StopsLeft`, again a sum; one that is being inserted counts), the
orders in the queue, the place of the execution, and what the loop at that place
has left (unfilled size or levels to scan). A trigger makes the queue longer and
the first number smaller; nothing in a window makes that one larger, because no
order in the queue is a stop order (`PricesInBook`). That the order is
well-founded comes from the library.

`OrderbookProofs` goes action by action: types, limit windows, stop windows, prices,
and the rest, each `...Step` lemma having one case per action; `Inductive` puts
them together. `LevelTellsSide` and `OrderInBook` are the lemmas the others
lean on.

### Orders with conditions: `AdvancedProofs`

For every size of the book, every set of orders that clients send and any
number of them, from the assumptions of `Orderbook` and `AdvOrdersAssumption`
(an order has the type its prices say and begins unfilled):

| theorem | property |
|---|---|
| `AdvInductiveInvariant` | `AdvIInv`, as long as `ExitsAreFound` |
| `AdvTypeCorrect` | `AdvTypes`, as long as `ExitsAreFound` |
| `AdvWindowsHold` | `Uncrossed`, `LimitWindows`, `StopWindows`, as long as `ExitsAreFound` |
| `AdvTradesAll` | `NothingLeftToTrade` |
| `AdvCacheAgrees` | `CacheAgrees`, between two orders |
| `AdvLinksAgree` | `LinksAgree` |
| `AdvExitsHaveOneSize` | `ExitsHaveOneSize` |
| `AdvReachedStopsTrigger` | `AllReachedStopsTrigger` (an action property) |
| `AdvTrailingStopsFollow` | `TrailingStopsFollow` |

The first three are stated for states before a torn trade, because the code does
not keep them: what `TearTrade` leaves is cached and on a chain no more alike,
with sizes that have traded. `WholeNext` is the next-state relation without that
step; `AdvIInv` is inductive for it (`StepIsWhole`), a torn trade is for good
(`TornStutter`), and `InvariantOrTorn` joins the two. The others hold in every
reachable state, torn ones included: `LinksAgree` also says that only an order
whose linked stop was lost can tear a trade (`TearsForLost`).

The invariant of the engine does not carry over: a condition takes orders out,
puts them in and changes their sizes in the middle of a trade and of a chain
that triggers. `AdvIInv` has fourteen parts:

* `AdvTypes`, with `BookInv`, the windows of the engine. `AdvControl` says which
  of the variables mean something at each `pc`.
* `OrdersFit`, `CondsFit`: the prices of orders that wait, and those that their
  conditions will issue, are in the book wherever the code inserts without
  looking (`TargetFits`); where it looks, the exception is a step of the model.
* `FrontMatches`, `SwingFits`, `CurNotTradable`, `StopScans`: the order in front
  while its condition is handled, the extremes of a trade, and what the loops
  have behind them. No condition puts a limit order before `cur` or a stop behind
  a scan: what it issues goes through the internal queue, stops are moved before
  the scan begins, and while it goes on a condition only takes stops away.
* `Placed`: a cached id is on the chain the cache says, once, and an order on a
  chain is cached. The chain that a trigger took (`cchain`) and the stop that is
  being moved (`held`) are on the way from one place to another.
* `Fresh`, `CurStands`: ids are never used twice, `cur` and what waits are in
  nobody's link, and `cur` rests where its condition looks for it.
* `Links`: linked orders are linked with each other (`Mutual`), except that the
  other may be a trailing stop that an exception took (`Gone`), or be on its way
  out (`PullLinkedOrder`); the exits that an entry remembers belong together.
* `OneSize`: the two exits have one size but for what the order in front has
  traded and the code takes off it last (`Owed`).

An action is told by what it does to the book: it takes orders out (`Leaves`,
`Takes`), resizes some (`Changes`) or puts one in (`JoinsLimit`, `JoinsStop`).
What holds of the standing orders after a step follows from what stood before,
what was resized and the one that joined (`StandingClasses`); what holds of the
conditions, from those that stay (`Keeps`) and those that are new (`Entries`).
`BuyStopsDone` (no buy stop is reached while sell stops are scanned) is the one
more fact that `AdvReachedStopsTrigger` needs.

`TrailingStopsFollow` relates each trailing stop to the last price over whole
windows, and needs an invariant of its own, `FollowInv`. While a trade goes on,
the stops follow the price from before it (`Anchor`), and `NoneIsFar` bounds
their distance from that; then those of the side that the trade has gone to wait
in `adjusting` to be moved to its extreme, which is not short of last
(`MovesFit`). That last has not reached them (`NoneIsReached`) is known only
when the check for stops is done. A trade that moves a stop always asks for the
check, and a stop that is put in afterwards starts at least a tick away
(`NewTrails`). An exception in the middle leaves stops behind that were not
moved, and has lost one (`AbortLoses`): hence the condition on `Lost`.

### The threads: `DispatcherInvariant`, `DispatcherProofs`

For any number of clients, calls and callbacks of a window, with or without
callbacks that call the book, from `OpsAssumption` and `ThreadsAssumption` (the
callback thread is not a client, and "nobody" is no thread):

| theorem | property |
|---|---|
| `DispatcherTypeCorrect` | `TypeOK` |
| `EachCallbackRunsOnce` | `CallbacksRunOnce` |
| `CallsReturnAfterCallbacks` | `ReturnsAfterCallbacks` |
| `NoCallbackOutstanding` | `NothingOutstanding` |
| `WaitEndsWhenDone` | `WaitMeansDone` (an action property) |
| `CallersRunCallbacks` | `CallersRunTheirCallbacks` (an action property) |
| `ThreadsImplementService` | `Service!ServiceSafety`, `ImplementsOrderService` without its fairness |

`DispatcherInvariant` has the invariant and its parts about threads and calls:
`DispatcherState` (a popped call has no answer yet), `BatchState` (Null is the
last that the callback thread is ever sent), `Callers` (no two threads wait for
one call), `QueueState`, `AnswerState` (who waits for an answer). It also names
the *places* where a callback can wait (two queues, the copies of the dispatcher, the batch, the callbacks of each answer, those of
each thread) and the *line* at each. A step either leaves the lines alone
(`Stay`), moves one to an empty place (`Move`), or takes the first of one
(`Leave`): `InOnePlace`, that a callback waits in one place exactly until it is
run, is preserved by each of the three, and so is `Windows`, where the callbacks
of a window can wait while its call goes on. That the places are empty when a
line moves to them is what the other parts are for. `Windows` is what
`CallersRunCallbacks` follows from: while a synchronous call with a value has not
returned, its callbacks wait with its own thread. Of the callbacks that a failed
or an asynchronous window leaves behind, `QueueOrder` and `LateWindows` say the
most that holds: calls are popped in order, so that who runs them is a caller of
a later window that ends with a value. No theorem is about these; `callbacks_late`
shows that the documents promise more.

`ThreadsImplementService` is the refinement of `OrderService` but for its
liveness. Pushing a call submits it; the three ways a popped call ends
(`SetValue`, `SetException`, `LeaveLoop`) answer the oldest; an asynchronous
`Fire` produces and `EndCallback` delivers the oldest; `EndDestroy` abandons
what is left; all else is a stutter. Popping moves a call from the queue to the
hand of the dispatcher and taking a batch moves callbacks, and neither shows in
the service, since the mapping joins both places and drops Null
(`WithoutNull`, a recursive function: `ProperStep`, `ProperConcat` and the
other lemmas about it are by induction). That Null, behind which the callback
thread drops everything, has nothing behind it is in `BatchState`. One more
invariant is needed, `PendingWaits`: a call without an answer is popped or in
the queue, so that the end of a book forgets none.

### Prices and factories: `FactoryProofs`

The first part proves for every tick ratio, from the assumptions of
`TickPrice`, that the constructor and the reading of doubles normalise, that
comparison is the comparison of values, and `PricesRoundTrip`: with
`FineEnough`, that the grid of doubles is no coarser than the ticks, a price
survives the way to a double and back. Rounding moves a price by at most half a
grid step, which is less than half a tick, so that the tick next to it is the
same one. `FineEnough` is a hypothesis of the lemma and not an assumption on the
ratios: the static assertion of the code (tick_price.hpp:92) admits more.

`FactoryProofs` proves, for any addresses, ratios, prices and number of
levels, `FactoryTypeCorrect` and `EachBookHasOneOwner` (`RegistriesAgree`) and,
of the books in `FineBooks`, `GrowingMovesOrders` (`OrdersAtTheirPrices`) and
`SeenPricesRoundTrip` (`SeenPricesComeBack`). `IInv` is `HeapInv` (the base of
each book is a normal price of at least one tick and, if its ticks are coarse
enough for the grid, the level of each of its orders is a level it has, and base
plus level - 1 ticks is the price of the order: levels are then prices
one tick apart, and `TicksAreUnique` gives back the level), `ResourcesOK` (the
types of the managers' maps) and `RegistriesAgree`.

### The Python extension: `PythonProofs`

For any threads, callbacks and number of calls, from `PythonBook`'s assumptions:

| theorem | property |
|---|---|
| `CallbacksCounted` | `RefsCountHolders` |
| `CallbacksCountedWithBothLocks` | `RefsCountHolders`, with the interpreter's lock kept while waiting (`KeepingSpec`) |
| `CallbacksAlive` | `CalledIsAlive`: a callback that runs is still held |

The reference count of a callback is the number of its holders: frames, orders
in the book, the queue of the book, the element in hand, callbacks to run, callbacks of
the open window. A step
moves a callback from one holder to another, adds one or drops one, so the
first part of the module says what `Append`, `Tail` and `EXCEPT` do to those
numbers. `RefsCountHolders` is not inductive, for what a step does depends on
where callbacks cannot be. `PInv` adds that a callback that is being wrapped is
its caller's alone (`ArgsInv`); where a thread has callbacks to run and where it
has none (`ToRunInv`); that the dispatcher has an element whenever it is not
idle (`CurInv`), and defers callbacks from the fill to the answer only
(`DeferredInv`); that each queued order has its own caller, who waits
(`WaitInv`); and that the callbacks of queued orders differ and are not in the
book (`NewInv`).

### Only model-checked

* Liveness, which is out of this prover's reach: `WindowCloses`,
  `AdvWindowCloses`, `CallsReturn`, `WaitersReturn`, `DestructorReturns`. Of
  `WindowCloses`, `CascadesEnd` proves that an open window cannot go on for
  ever; that an open window can always go on is left to TLC.
* The fairness in `ImplementsOrderService`: that calls are answered and
  callbacks delivered in the end. Its safety part is proved.
* The properties of `AonBook` and `BookQueries`: `AllOrNone`, `AonFillsWhole`,
  `AonWindows`, `NoFillableAon`, `FokFills`, `DepthAgrees`, `TotalsAgree`. The
  first five are true of the kinds of orders that `aon` sends and not of all
  that the code accepts, since an AON sell moves to the chain of the buys. What
  an AON order would meet, and depth and totals, are sums that the models make
  with the folds of the community modules, of which the provers know nothing.

## What is left out

* `Orderbook` has no AON or advanced orders: their windows are empty and the
  branches that read them inert there. `AonBook` and `AdvancedBook` extend it
  and are not combined with each other (an order has one condition, but a book
  may hold both kinds), nor `AonBook` with stop orders, which rest apart from AON chains.
* The book after an exception in the middle of a trade (`TearTrade`).
* `_last_size`, `_timesales`, dumps and `time_and_sales`: written and never
  read by the engine, or formatting.
* Allocation failure, and a callback object that throws.
* Overflow of ids and volume: 64 bits. Doubles outside the grid, infinities.
* Clients that call a book while they destroy it, and factories used by two
  threads at once: the registries have no lock.
* Of the Python extension: argument parsing, conversion of results, type
  objects, which have no state; inserts, pulls and replaces made by a callback
  (`Dispatcher` has calls made by callbacks), windows that throw, linked orders;
  the extra copies of a callback that one step of a window makes and drops.
  Interpreter shutdown (`callback_py.cpp:57`).
