# TradeCore: a TLA+ verification development

TradeCore is a header-only C++ library (`include/tradecore/`): a limit order book
on fixed-size pools, a matching engine on top of it, a replay engine that feeds
both from market-data messages, lock-free queues, and support code.  This
directory holds TLA+ modules translated from its source, configurations that
model-check them, and proofs of the properties that matter most.

## 1. Inventory

| Component | State | Operations | Correct when |
|---|---|---|---|
| `orderbook/OrderBook` | order pool, level pool, id map, two sides, statistics | `dispatch` to `add_order`, `cancel_order`, `execute_order`, `delete_order`, `replace_order`, `modify_order` | the redundant records of an order (slot, map entry, place in a list, level totals) agree after every request; other orders keep place, price, quantity |
| `orderbook/BookSide` | tree root, cached best level, dense array, level count | create, insert, remove, destroy a level; `find_by_price` | cached best level is the best; dense array and tree agree; a level's slot is recycled exactly once |
| `orderbook/FlatPriceArray` | level index per tick | `find`, `insert`, `remove` | an entry never outlives its level |
| `orderbook/avl_tree` | links, parent, height in each `PriceLevel` | `insert`, `remove`, `find`, `find_min`, `find_max` | search order, balance, exact heights, parents |
| `orderbook/FlatHashMap` | keys, values, size | `insert`, `find`, `erase`, `clear` | no key lost or doubled by collisions and erasures; probes end |
| `memory/ObjectPool`, `OrderPool`, `PriceLevelPool` | slots, intrusive free list | `allocate`, `deallocate`, `at`, `raw_data` | no slot leaked or handed out twice |
| `orderbook/OrderBookVerifier` | none | `verify` (Debug) | accepts exactly the consistent books |
| `matching/MatchingEngine` | its book, next trade id; during a call the remaining action, the sweep's iterator, the result | `match` | price-time priority; nothing but a Limit residual rests; the iterator survives its own executions; the call returns |
| `matching/LiquidityAnalyzer`, `RiskPipeline` | none | `has_liquidity`; rules in sequence | FOK is decided rightly; a rejected action changes nothing |
| `replay/ReplayEngine`, `ReplayClock` | source, matcher, clock, counters | `run`, `step`; `wait_until` | additions are matched, other updates go to the same book directly, and the book stays uncrossed |
| `lockfree/SPSCQueue` | two atomic counters, a cached copy of each, ring buffer | `push`, `pop`, `size` | FIFO; a slot is never written while it is read; nobody is refused for ever |
| `lockfree/MPSCQueue` | one SPSC queue per producer, next queue to poll | `push(id)`, `pop` | no producer starves; `false` only if nothing was there |
| `parser/ITCHParser`, `BookUpdateValidator` | statistics | `parse` | a delivered update meets the book's preconditions |
| `network/MoldUDP64Decoder` | expected sequence number | `decode`, `set_expected_sequence` | every message comes under its own number; a caller can see what is missing |
| `orderbook/BookDigest` | none | `compute` | equal books have equal digests |
| `telemetry/Histogram`, `MetricsRegistry`, `LatencyTracker` | buckets, extremes, counters | `record`, `percentile`, `reset` | percentiles are those of the recorded latencies |
| `orderbook/BookSnapshot`, `network/transport_concept` | none | | declared and not used |
| `memory/ArenaAllocator`, `memory/HugePage`, `common/*` | bump pointer | `allocate`, `reset` | |

**How they interact.**  Everything from parser to book is called synchronously
by one thread: the replay engine parses a payload, gives an addition to
`MatchingEngine::match`, and sends any other update straight to the matcher's
book, which it reaches through a `const_cast`.  The matcher reads the book's
pools by index and mutates the book (`execute_order`, `add_order`) in the middle
of its own sweep.  The book hands pool indices to its sides, whose trees and
lists live inside the pool slots.  Only the two queues are shared by threads.

**Hard behaviours.**  Records of one order in four structures that must change
together; pool indices held across a mutation that may recycle them; cached
values (best level, dense array, the queues' copies of each other's counters);
fixed capacities that run out at different times; a composite request
(`replace_order`) that fails in its second half; packets lost, repeated,
reordered or cut off; fields read at wrong byte offsets; stale loads and counter
wrap-around in the ring buffer; a scan over queues that fill meanwhile.
`PROJECT.json` lists each hazard with its line and the properties aimed at it.

**Which build is modelled.**  A failed `TRADECORE_ASSERT` ends a Debug process;
the models stop there too (`fault` in `OrderBook`), and up to that point Debug
and Release builds take the same steps.  What a Release build does *after* a
failed precondition is not modelled.  At this commit some headers do not compile
together: `order_book.hpp` names `UpdateType::ReplaceOrder`, which
`parser/book_update.hpp` does not declare; `book_side.hpp` counts
`stats.levels_destroyed`, which `AVLStatistics` lacks; `ReplayEngine` calls
`ITCHParser::parse` with one argument and compares with `UpdateType::Unknown`.
`order_book_verifier.hpp` calls an undeclared `walk`.  The accessors of
`order_book.hpp:232-235` (`bids`, `asks`, `level_pool`, `order_pool`) and `verify` stand
below the `private:` of line 175, although the matcher, the digest and the tests call
them.
The models take `replace_order` as the function it is, leave out the missing
counter, read the parser's `std::nullopt` for `UpdateType::Unknown`, take the
replay engine's dispatch by update type as written and the accessors for public, and
leave out the verifier.

## 2. Modules

| Module | Models | Specification |
|---|---|---|
| `LimitOrderBook` | what a book promises: a FIFO queue per side and price | abstract |
| `OrderBook` | `OrderBook`, `BookSide`, the dense array, pools, lists | implements `LimitOrderBook` |
| `MatchingEngine` | `match`, risk rules, FOK pre-scan, the replay engine's dispatch; extends `OrderBook` | state machine |
| `FlatPriceArray` | `flat_price_array.hpp` | operators on a record |
| `AVLTree` | `avl_tree.hpp` with `FlatPriceArray` beside it, the scans of the liquidity analyzer and the digest | state machine; `OrderBook` uses its meaning |
| `FlatHashMap` | `flat_hash_map.hpp` | state machine with the ideal map as history; `OrderBook` uses its meaning |
| `BoundedQueue` | what a queue promises: FIFO of bounded length | abstract |
| `SPSCQueue` | `spsc_queue.hpp`, one shared access per step | implements `BoundedQueue` |
| `MPSCQueue` | `mpsc_queue.hpp` over queues at `BoundedQueue`'s promise | state machine |
| `Histogram` | `histogram.hpp` | operators on a record |
| `Replay` | `run`, `step`, the source, `wait_until`, what the parser and its validation deliver, the end-to-end histogram (instantiates `Histogram`) | state machine |
| `ITCHParser` | `itch_parser.hpp` byte by byte | state machine with the exchange as environment |
| `MoldUDP64` | `moldudp64.hpp` behind an unreliable network | state machine |
| `OrderBookProofs`, `OrderBookListProofs` | theorems about `OrderBook`: slots, levels and best prices; lists, totals and the refinement | the second extends the first |
| `MatchingEngineProofs` | theorems about `MatchingEngine` | extends those |
| `SPSCQueueProofs`, `MPSCQueueProofs`, `FlatHashMapProofs`, `ReplayProofs`, `MoldUDP64Proofs` | theorems about the module of that name | |
| `MC*` | instances for TLC | |

**OrderBook.**  The book is one record; each C++ method is an operator from book
to book with the same name, and a composite method calls the operators of the
methods it calls, so `ModifyOrder` really is a deletion and an addition and the
engine's `Fill` really runs `ExecuteOrder`.  `Add` ... `Modify` are the six
entries of the dispatch table.  `fault` tells an illegal request (`"Request"`)
from a full structure (`"LevelPool"`, `"TickRange"`, `"OrderPool"`, `"MapFull"`,
`"TradeBuffer"`) and from broken bookkeeping (`"Internal"`).  The order of the
checks is the code's: `add_order` creates the level before it finds the order
pool empty.  What such a call has taken from a pool before it stops (a level slot before
the price is found out of range, an order slot before the map refuses) is left out: the
process is gone with it.  Abstracted: a tree is the set of its levels (`AVLTree` justifies
it), the map is a function (`FlatHashMap` justifies it), a free list is the
sequence of its slots, a freed slot holds a null record, and timestamps,
symbols and flags are gone.  Prices from `MaxTicks` up are in the model: the
dense array asserts on them when a level is inserted, so that the AVL lookup that
`book_side.hpp:134` keeps as a "Fallback" for them never has a level to find;
`LimitOrderBook` calls this stop `"NoPrice"`.

The refinement says what a request does to the queues, and of a stop only that it has a
reason; it cannot see which request was made.  `ServesIn` does: for every request there
is, `LimitOrderBook` names the condition on the queues (`CanEnter`, `CanReduce`,
`CanReplace`, `CanModify`), and the operators of `OrderBook` go through exactly when it
holds.  A slot lost, a map entry left behind, room looked for before the old order is
out, or a duplicate let through would each break it.  `destroy_level`'s two assertions about tree links
are checked in `AVLTree` (`LinksExact`).

**MatchingEngine.**  `pc` follows `match`: `Submit` (risk check, FOK pre-scan),
`BestLevel` (outer loop), `Fill` and `LevelSwept` (inner loop), `Finish`
(residual, status, `TRADECORE_VERIFY_EXECUTION`), `HandBack`.  `incoming`,
`curr_idx`, `trades` and `status` are the call's locals.  An action is any combination
of id, side, type, quantity and price, 0 included, whatever its type.  `before` is history:
the queues at the call.  `Dispatched` is the replay engine's direct update
between matches.  `ServesExactly` is `ServesIn` of the engine's book between matches,
after whatever sweeps and updates.  `PriceTimePriority` compares the result with a reference that knows
only `before`: it names by its number (`Turn`) the trade that must be with an order in
reach, and what the trades then leave of each queue (`QueuesAfter`).  `trades` leaves
out ids and times; `has_liquidity` is its
result, the total of the side, which `ScanExact` of `AVLTree` justifies.

**SPSCQueue.**  Each access to a shared counter or slot is a step.  A load of the
other thread's counter returns any value since the one last seen, which is what
C++ coherence allows an acquire load; a release store makes the slot's contents
visible with the counter.  The two `push` overloads differ in copying or moving.
`size` is called by either endpoint.

**MPSCQueue.**  An inner `push` or `pop` is atomic, justified by
`SPSCQueue`'s refinement of `BoundedQueue`; the consumer's scan is one step per
inner queue.  What remains out of it is an inner `pop` that misses a push which
is not yet visible; such a push has not happened yet as far as the scan is
concerned.  In exchange `NothingMissed` speaks of pushes visible when the scan
began.

**AVLTree.**  A node is named by its price, since a side has at most one level
per price (proved: `DenseExact`).  Left and right are directions, so that mirror
images are one operator.  The recursion of `insert` and `remove` is a RECURSIVE
operator that threads the pool.  The statistics are left out (reading them: their
`insertions` and `deletions` grow by one per recursion step, not per level as
their comments say).

The two recursive readers of a side are here as well: `ScanTree` is the FOK
pre-scan with its reference parameter and its two early stops, `Traverse` the walk
on which the digest rests.  `BookSide` keeps its dense array in step with the tree;
`DenseBestExact` compares the two, the array's own best tick included, which the
book never reads and which would be the worst price of an ask side.

**Replay.**  `Run` and `Step` are the two calls; inside `run`, `Loop` is the loop's
condition with the parsing of the payload, and `wait_until` either returns
(`GoAhead`) or spins (`StartSpinning`, `EndSpinning`) while `Tick` lets time pass.
The submission of the order and the recording of its latency are part of the step
in which the wait ends.  A payload is the fields the parser reads; its timestamp is
whatever `read_timestamp` delivers (`ITCHParser` says what that is).  `fetched`,
`submitted` and `recorded` are histories.  `ResetMetrics` is the registry's
`reset` between two calls.  Of the registry only the end-to-end histogram is
modelled, the one histogram `run` writes that depends on more than a single call.
`std::size_t` counters are unbounded integers; the clock's arithmetic is modulo
`U64`.  `double` division is integer division.

**Histogram.**  `Ranks` is the set of ranks that the product of doubles in
`percentile` can be cut off to: where the exact product is a whole number the
double may lie just below it.

**ITCHParser.**  The exchange encodes a message in the layout that
`tests/unit/replay/test_replay_engine.cpp:23` describes; the parser's operators
read it at the offsets of `itch_parser.hpp`.  A byte is a digit to the base
`ByteBase`.  `Receive` also cuts messages off at every length.

**MoldUDP64.**  The decoder has one field; its environment is a publisher that
numbers its messages and a network on which every packet sent may arrive at any
later time, any number of times, whole or without its last blocks.  `delivered`
(the calls of `on_message`), `base`, `in_order` and `cut` are histories, restarted
by `SetExpected`.  The library holds no caller; the properties say what a caller
that compares packet numbers with `expected_sequence()` can rely on.

**FlatHashMap.**  `Init` chooses the home slot of every key, so all
collision patterns are covered; `content` is the ideal map.

## 3. Runs

| Run | Bounds | What it shows |
|---|---|---|
| `core` | 3 ids, 3 prices, 2 sides, quantities 0..2, 5 order slots, 3 levels, 4 ticks, totals modulo 3 | all redundant structures agree after any sequence of requests, and the book implements `LimitOrderBook` |
| `engine_safety` | 3 ids, 3 prices (one fails risk and is outside the tick array), 2 levels, all order types, 2 trades | price-time priority against a declarative reference; iterator, crossing, internal assertions; the book serves exactly the requests its queues allow, with a full level pool and prices outside the tick array among them |
| `engine_returns` | 3 ids, 2 prices (one outside the tick array), 1 level, 4 order slots of which the map fills two, trade buffer of 1 | `match` returns or stops in an assertion; the book serves exactly the requests its queues allow, up to the map's limit |
| `avl_shapes` | 12 prices, totals of 1 and 2 | every AVL tree of up to 12 nodes, every removal; the dense array beside it; the pre-scan and the digest's walk over each |
| `spsc_ring` | 2 slots, 2 items, counters modulo 8 | FIFO, no overlap, liveness, across wrap-around |
| `mpsc_poll` | 3 producers, 2 slots each, 2 items | fairness and completeness of a scan |
| `hash_clusters` | 8 slots, 6 keys (one above the limit of 5) over homes 0, 6, 7 | find and size exact with merging, wrapping clusters; probes end |
| `replay_pacing` | 3 payloads of 9 kinds, timestamps 0..3, every mode, factor 2, time up to 4, a histogram of 2 buckets, five percentages | deterministic replay, pacing, every wait ends, percentiles exact |
| `mold_network` | 3 messages, packets of up to 2 and heartbeats, 5 deliveries | numbers exact and gaps visible under loss, repetition, reordering, truncation |
| `engine_fok`, `book_map_load`, `itch_timestamp` | small | the findings of section 6 |

Why the bounds are enough: three orders make a list with head, middle and tail, so
every branch of the unlink code runs, and three levels give a best level with two
successors. Totals wrap in `core` because two orders of 2 exceed the modulus 3. In
`engine_safety` three orders can ask for a third level of two, and a direct update for
a price that the tick array does not hold; six orders for five slots were
more than the run's time allows, and the full order pool is left to the theorems (a
pool is full before its map only from five slots on). In `engine_returns` the map
refuses the third order, so that a replacement needs the room its first half gives, and
a residual can pass the risk check at a price outside the tick array.
The refinement is checked in `core` and proved, of the engine's book too.
Twelve nodes give single and double rotations on both sides and successors two
levels below the removed node. Two slots and a modulus of eight let the counters
lap the ring four times. Three payloads let timestamps rise, repeat and fall after
the anchor, and split a replay into up to three calls; time stops at 1 while
nobody waits and at 4 while somebody does, which is the latest time a wait can be
for (1 plus the longest distance). Its latencies fall into both buckets and beyond
them, and three of them give every percentage a rank of 1, 2 or 3. Five deliveries
let a stream of three come a second time almost whole, or a cut packet come again.
Bytes of one bit keep `itch_timestamp` exact: the offsets are the code's. Order
ids, keys and items are only compared, hence the symmetry sets (none in runs with
liveness). `CHECK_DEADLOCK FALSE` stands where a failed assertion ends the
process.

**Fairness.**  `MatchSpec`: weak fairness of the call's own steps (one thread,
nothing else uses it); new calls need not come.  `SPSCQueue`: both threads keep
running and calling (callers spin on `false`), and a store becomes visible
eventually, which is strong fairness of the reload that returns the current
value; the C++ standard asks implementations for it.  `MPSCQueue`: the consumer
keeps polling; producers may stop at any time.  `Replay`: the thread inside `run`
goes on and the steady clock advances; the caller need not call.  `MoldUDP64`
promises nothing about time: a network that may lose everything justifies none.

## 4. Proofs

All theorems hold for every value of the constants that satisfies the modules' named
assumptions: positive capacities, ids other than the invalid mark, prices in `Nat`,
totals wider than a single quantity, non-negative risk bounds and trade buffer, at
least one slot and a wide enough counter in the ring buffer, times that fit in 64 bits,
and so on.

| Module | Theorems |
|---|---|
| `OrderBookProofs` | `TypeCorrect`, `OrdersAlwaysAccounted`, `LevelsAlwaysAccounted`, `DenseAlwaysExact`, `BboAlwaysExact` |
| `OrderBookListProofs` | `LevelsAlwaysExact`, `NeverInternal`, `RefinesLimitOrderBook`: `Spec => ImplementsLimitOrderBook`, `ServesWhatItMay` |
| `MatchingEngineProofs` | `EngineTypeCorrect`, `NeverCrossed`, `IteratorHolds`, `EngineNeverInternal`, `TradesByPriority`, `FokServed`, `FokServedWithRoom`, `EngineKeepsBook`, `EngineServesExactly`, `EngineRefines`, `BufferNeverOverruns`, `EngineRefinesWithRoom` |
| `SPSCQueueProofs` | `RefinesBoundedQueue`, `RaceFree`, `CopiesConservative`, `SizeStaysInRange`, `TypeCorrect` |
| `MPSCQueueProofs` | `FalseMeansEmpty`, `PollingFair`, `TypeCorrect` |
| `FlatHashMapProofs` | `FindAlwaysExact`, `SizeAlwaysExact`, `MapTypeCorrect` |
| `ReplayProofs` | `DeterministicReplay`, `PacedNeverEarly`, `LatencyReportExact`, `ReplayTypeCorrect` |
| `MoldUDP64Proofs` | `NumbersAlwaysExact`, `GapsAlwaysShow`, `TypeCorrect` |

**The book.**  The argument follows the code: one lemma per operator (creating a
level, appending, unlinking, freeing, ...) states what it preserves; `AddOrder` and
`CancelOrder` combine them; `ReplaceOrder` and `ModifyOrder` use those lemmas twice;
each step theorem has one case per action.  The inductive invariants build on one
another:

* `TypeOK` is inductive.  `OrdersAccounted` needs it, and because `add_order`
  asserts that the id is new before it registers the slot, the entry it adds cannot
  shadow another.
* `LevelsAccounted` and `DenseExact` are not inductive alone: a level could be
  destroyed by way of the wrong side or twice if `find_by_price` returned one that
  is not in the side's tree, which only `DenseExact` excludes; and the dense array
  could hold a recycled slot if `level_free` and the trees overlapped, which only
  `LevelsAccounted` excludes.  `LevelsSound` joins them.
* `BboExact` says what the cached best level is without saying why `remove_level`
  is called exactly when it must be.  `Settled` adds it: a level's `order_count` is
  the number of live orders of its side and price, no level of a tree is empty (but
  the one `create_level` has just opened), every live order has its level, and the
  cached level is the best of the tree.
* `LevelsExact` follows the list by recursion.  `Held` says it without: for every
  level there is one enumeration of the live orders of its side and price, from
  `head_order_idx` to `tail_order_idx` along `next_in_level`, the total is their sum
  modulo the width, and quantities are positive (but for the order that
  `cancel_order` is about to free).  `Fifo` then is that enumeration (`Chain`).  When an
  order leaves from the middle, the predecessor the code's walk finds is the one before
  it (`UnlinkQueue`).
* `NeverInternal`: since `Housed` and `CountsIn` hold, no assertion about the book's
  own bookkeeping (a level not found, a level destroyed with orders in it) fails.

`RefinesLimitOrderBook` shows that the initial book stands for empty queues and that
every request is a step of `LimitOrderBook` or none.  `Row` reads the abstract queue
off a list; arriving, leaving and losing quantity on the lists are `Append`, removal at
a place and a smaller entry on the queues, and the other queues stay as they are.  A
refusal for capacity is one the abstract book allows: the order pool and the map's
load limit together are `OrderLimit` (`RefusesAtLimit`), and a level is missing
exactly if as many queues are non-empty as there are levels (`RoomIs`).  A replacement
whose second half fails has the room of the book *after* the deletion, which is why
`RoomAfterLeaving` is needed.  `Asked` (live orders have prices that were asked for)
is the one invariant this adds.

`ServesWhatItMay` needs no invariant beyond those.  An order of the map has its place in
a queue and the other way round (`MappedEntry`, `EntryMapped`), so a cancellation goes
through exactly when the queues show the quantity (`CancelServes`).  `AddServes` follows
`add_order`: a level that exists shows a queue that is not empty and a price below the
tick limit; one that does not is missing for want of a level slot or for its price; the
rest is the order pool and the map (`EnterOpens`).  A composite request is served when
the deletion is and the addition then is, in the queues the deletion leaves
(`ThenAddServes`, `ModifyServes`).  `EngineServesExactly` is the same of the engine's
book, since `EngineInv` has it `Whole` whenever no call is under way.

**The engine.**  `EngineInv` is inductive:

* `EngineTypeOK`, and every invariant of the book above (`Good`);
* `Locals`: what has been traded and what is left make up the order, which is
  `TRADECORE_VERIFY_EXECUTION` before the fact;
* while nothing has failed: the book is uncrossed, also in the middle of a sweep;
  `IteratorAtBestHead`; and when the loop is left with quantity to fill, no level of
  the other side is in reach (`Exhausted`).

`NotCrossed` is not inductive because it speaks only of the time between matches: a
residual that rests keeps the book uncrossed only because the sweep was exhausted
before, and a direct update only because it moves no order to a new price (`Within`).
`IteratorAtBestHead` survives an execution since the order executed in full is the
head of the best level, so that either the level stays and its next order is its head
(`HeadExecuted`), or the iterator becomes invalid.  Each engine step is one request
to the book or leaves it alone (`BookStep`), so that the book's theorems and its
refinement carry over.  The exception is a failed `push_back` on `result.trades`:
`LimitOrderBook` has no such way to stop, so `EngineRefines` supposes that no match
overruns the buffer.  `BufferNeverOverruns` says when this is so: if the buffer is as
large as the order pool, since a call that goes on trading has freed a slot with each
trade (`TradesFreed`).  The code has 1000 for the one and a template parameter for the
other and relates them nowhere.

`PriceTimePriority` speaks of the result only, so `PriorityInv` adds what holds in the
middle of a sweep (`InCourse`): the trades made so far are with the first orders in reach
(`InFull`), and the queues are those at the call with exactly these orders gone from
their fronts, `c` of them per queue, no level served before a better one is empty (`Clean`);
once nothing is left to fill, the last order may have lost a part only (`FilledBy`).
The step is then that the head of the best level is the order whose turn it is
(`HeadInFront`, `NextInLine`): the level is the best one with an order left, and its list
starts with its oldest.  An execution in full takes that order off the front of its
queue and one in part lowers it (`ExecutedPopped`, `ExecutedLowered`), which gives the
same statement for one trade more (`PoppedLeft`, `PoppedInFull`, `PartFilled`).  The sweep
stays in reach (`WithinReach`), and it ends with quantity left only when no order in
reach is left (`Exhausted`), so that the trades are all the turns there are (`AllGone`).
`EndsInTurn` reads the reference off this, and a residual that rests is appended to the
order's own queue.

`FokNotStarved` relates two sums: the pre-scan's, over the totals of a side's levels,
and that of the quantities waiting in reach (`WaitingQty`).  Both folds are sums over a
set of orders (`ScanTotals`, `WaitingTotals`): the total of a level is the sum over its
orders, the levels of a side share no order and leave none out (`TotalGrouped`,
`SideTotal`), and the waiting orders are some of the side's, each named once by its
place (`TotalRenamed`, `WaitingWithin`).  So a pre-scan that says no has counted at least what
waits (`ScanRefuses`); and a FOK order that passes it and returns without a trade has met
nobody (`NobodyTraded`).  This supposes that no total wraps around (`NoTotalWraps`), as a
wrapped one would let the scan starve an order; `RoomForTotals` gives a bound,
`MaxOrders * MaxQty < QtyMod`, under which none does.  `engine_safety` is an instance of it.
The code relates the pool, the quantities and the 32 bits of a total nowhere.

**The queues.**  `RingInv` of the SPSC queue joins `TypeOK`, `CachesConservative`
(each copy lies between the two counters, in distances modulo their width),
`SizeInRange`, and what each thread knows between its test and its release store:
the producer that its slot is free and holds the item (`Pushing`), the consumer that
there is an item and which (`Popping`); and that all slots from `head` up to `tail`
hold items (`WaitingItems`).  So a slot is written only while it is not among the
waiting ones.  The refinement maps a release store to the abstract push or pop and
every other access to a stutter.  `PollInv` of the MPSC queue adds to `NothingMissed`
that the producers which had items when the scan began still have them and are still
ahead of it (`ScanPassedEmpty`), and to `BypassBounded` that every time a producer is
passed over the poll index has come nearer to it (`Nearer`).

**The map.**  `FindExact` is not inductive: it says where a probe ends, not why.
`MapInv` adds that no slot is empty on the way from a key's home to its place
(`Reached`), that a key has one place (`Tidy`), that the occupied slots are as many as
`size` and the load limit leaves at least one empty, so that every probe ends, and that
the slots hold exactly the ideal map (`Holds`).  An insertion or a lookup follows from
these directly.  An erase opens a hole that later keys of the cluster may have been
reached across; the code takes out and re-inserts the rest of the cluster one entry at
a time.  `Progress` is what holds in between: the keys that are in the table again are
reached, the hidden ones are those beyond the slot the loop has come to, and a
re-insertion lands in a hole or in a slot left behind.  When the loop meets an empty
slot nothing is hidden any more.

**Replay.**  `Invariant` adds that the update `run` waits with has passed validation,
since the submission happens steps after the parsing, that messages counted, plus one
while waiting, do not exceed the payloads taken, and that a payload's arrival is not
later than the present, so that latencies are not negative.

`EveryOrderOnce` is inductive beside it.  It says that one strictly increasing map
leads from the orders given to the matcher (the one waiting included) onto the
payloads that are additions (`InOrder`).  A payload that is none leaves the map as it
is (`InOrderSame`), an addition extends it by one place (`InOrderMore`), and submitting
the order that waits changes what it is called but not the map.

`NeverEarly` speaks of the orders submitted only.  `PaceInvariant` adds why it holds:
the clock is anchored at the first paced order that has a timestamp, at the time it
was submitted (`Anchored`); a spin is for the time its order is due by that anchor
(`SpinsUntilDue`); and `step` resets the clock only while nothing is submitted, since
`messages_processed` is at least the number of submissions.  The theorem supposes that
no timestamp added to a time exceeds 64 bits (`NoWrap`): the parser delivers 48-bit
timestamps, and the system clock in nanoseconds is far from that limit.  Without it
`target_system_time` wraps and the spin ends at once.

`PercentileExact` rests on three facts about the histogram since the last reset: a
bucket holds as many counts as latencies were recorded with its value (`Bucketed`),
the extremes are among the latencies and bound them (`Extremes`), and the total is
their number (`Counted`).  The sum the code's loop runs up to a bucket is then the number of
latencies not above its value (`CumulativeCounts`), and the first bucket at which the
sum reaches the rank is the answer.

**MoldUDP64.**  `TypeOK` holds the fact all of it rests on: a packet on the network is
a run of the published stream, so that what arrives of it is a prefix of that run
(`ArrivedBlocks`, `CallsExact`).  `GapsShow` is not inductive, since it says nothing of
what cut packets delivered beyond `expected_seq_`; `InStep` speaks of the set of
numbers delivered and of the uncut case apart, and `Joined` puts the runs of two packets
together.

Where an argument needs induction over numbers (sums, tallies, positions in a list), it
is made with a least counterexample (`LeastNatural`) or a smallest set, since the
library's induction theorems take an operator as a parameter.

**Only model-checked.**

* Liveness (`MatchReturns`, the queues' and the replay engine's progress): the prover
  does not treat fairness.
* `AVLTree`: RECURSIVE operators are outside the prover's reach.

## 5. Not modelled

* `OrderBookVerifier`: it does not compile (`check_order_uniqueness` calls an
  undeclared `walk` and names an undeclared set), and `OrderBook::verify` hands it
  the raw level pool, free slots included, both as the descending bids and as the
  ascending asks, which no book with two levels can be.  What its checks say of a
  book is stated as invariants of `OrderBook` (`BboExact`, `LevelsExact`,
  `OrdersAccounted`) and `AVLTree` (`LinksExact`, `BalancedExact`), and of a book
  between matches as `NotCrossed` of `MatchingEngine`.
* `BookSnapshot` and the transport concept: declarations that nothing fills in or
  implements.  The digest's hash function: arithmetic without a state; the order in
  which it meets the levels is `WalksExact`.
* The arena and huge pages: the library never allocates from the one, and the other
  is system calls with a fallback.  Endian, fixed-point and timestamp helpers: pure
  conversions of a line each.
* Telemetry but for the end-to-end histogram: counters that are only incremented.
* `FlatPriceArray::set_anchor`, which nothing calls.
* Parser symbols and statistics, risk reasons, AVL statistics: no decision reads
  them.

## 6. Findings

* `engine_fok`: the FOK pre-scan ignores the order's price, so a FOK order can be
  filled in part.
* `book_map_load`: the id map is sized to `MaxOrders` and refuses at 75 % load.
  A book whose `MaxOrders` is a power of two stops with a quarter of its pool
  unused.
* `itch_timestamp`: the parser reads the timestamp two bytes too late, so that its
  two low bytes are the top of the order reference.  A message of 7 ns is replayed
  as one of 458752 ns.
* Prices from 10000 on (`engine_safety`): `book_side.hpp:134` speaks of a "Fallback to
  O(log N) AVL traversal if outside tick array bounds", and
  `tests/unit/orderbook/test_phase3b.cpp:281` and `:365` insert levels at prices up to
  100000, but the dense array's `insert` asserts on them and ends the process.
  `ServesExactly` holds because `CanEnter` states that limit.
* Full structures (`book_map_load`): `implementation_plan.md:2360` has the book reject an
  addition when a pool is exhausted; a full level pool, order pool or map ends the
  process (`order_book.hpp:51`, `:60`, `:72`).
* Feeds (`engine_safety`): `implementation_plan.md:2350` says "Never crash on market
  data", and `:2359` has duplicate order ids skipped; the validator looks at price,
  quantity, side and type only, and a duplicate id, reference 0 or a price from 10000 on
  ends the process in the book.  `ServesExactly` says exactly which requests do, but for
  reference 0, which no id of the model stands for.
* MoldUDP64 (`mold_network`): `implementation_plan.md:174-175` has gaps buffered and
  duplicates dropped.  The decoder does neither and lets an older packet take the
  expected number back; `GapsShow` is what a caller that compares numbers can rely on.

The last four disagree with the documents quoted, not with a property of their own:
`engine_safety` and `mold_network` pass, with the code's behaviour in the property, and
`book_map_load` is the run of the second finding.

## 7. Plan

Done: the book with its abstract specification, the engine, the queues, the map,
the tree and its readers, the replay engine with its histogram, the parser, the
decoder, and the theorems of section 4.  Next, in this order:

1. `ObjectPool`: the intrusive free list inside the union slots, implementing the
   stack `OrderBook` uses; `reset`.
2. The verifier, once it compiles.
