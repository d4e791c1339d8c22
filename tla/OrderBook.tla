------------------------------ MODULE OrderBook -----------------------------
(***************************************************************************)
(* The order book of include/tradecore/orderbook: two object pools (orders *)
(* and price levels), the id -> slot map, and one BookSide per side with   *)
(* its tree of levels, its cached best level and its dense price array.    *)
(* Orders of one level form an intrusive singly linked FIFO list.          *)
(*                                                                         *)
(* The whole book is one record, and each method of the C++ class is an    *)
(* operator from book to book, so that composite methods (replace, modify) *)
(* and the matching engine call the methods the code calls.                *)
(*                                                                         *)
(* A failed TRADECORE_ASSERT ends the process: `fault' names which kind of *)
(* assertion failed and the book takes no further step.  Up to the first   *)
(* failed assertion Debug and Release builds take the same steps.  What a  *)
(* method took from a pool before its assertion failed goes with the       *)
(* process and is left out.                                                *)
(*                                                                         *)
(* Abstractions: an AVL tree is the set of its nodes (find_min, find_max   *)
(* and find by their meaning); a pool's free list is the stack of its free *)
(* slots; a freed slot holds NoOrder / NoLevel; timestamps are left out.   *)
(***************************************************************************)
EXTENDS Integers, Sequences, FiniteSets

CONSTANTS
    OrderIds,   \* order ids requests carry (never the map's kEmptyKey)
    Prices,     \* prices requests carry
    MaxQty,     \* largest quantity a request carries
    MaxOrders,  \* capacity of the order pool
    MaxLevels,  \* capacity of the level pool, shared by both sides
    MaxTicks,   \* size of each side's dense price array
    QtyMod      \* 2^32 in the code: total_qty wraps around at it

ASSUME CapacityAssumption ==
    /\ MaxOrders \in Nat \ {0}
    /\ MaxLevels \in Nat \ {0}
    /\ MaxTicks \in Nat \ {0}
ASSUME RequestAssumption ==
    /\ -1 \notin OrderIds
    /\ Prices \subseteq Nat
    /\ MaxQty \in Nat
    /\ QtyMod \in Nat /\ QtyMod > MaxQty

VARIABLE book

Sides == {0, 1}           \* 0 = bids, 1 = asks
kInvalid == -1            \* kInvalidPoolIndex
OrderSlots == 0..(MaxOrders - 1)
LevelSlots == 0..(MaxLevels - 1)
Qtys == 0..MaxQty

OrderIdx == OrderSlots \cup {kInvalid}
LevelIdx == LevelSlots \cup {kInvalid}

Order == [order_id : OrderIds \cup {kInvalid}, price : Nat, remaining_qty : Qtys,
          next_in_level : OrderIdx, side : Sides]
Level == [price : Nat, total_qty : 0..(QtyMod - 1), order_count : Int,
          head_order_idx : OrderIdx, tail_order_idx : OrderIdx, side : Sides]
Side == [tree : SUBSET LevelSlots, bbo : LevelIdx,
         dense : [0..(MaxTicks - 1) -> LevelIdx]]

\* What a slot holds while it is free.
NoOrder == [order_id |-> kInvalid, price |-> 0, remaining_qty |-> 0,
            next_in_level |-> kInvalid, side |-> 0]
NoLevel == [price |-> 0, total_qty |-> 0, order_count |-> 0,
            head_order_idx |-> kInvalid, tail_order_idx |-> kInvalid, side |-> 0]

\* The kinds of assertion that can fail: the caller's request is illegal, its
\* price is outside the dense array ("Fallback to O(log N) AVL traversal if
\* outside tick array bounds" notwithstanding), a fixed-size structure is full
\* ("TradeBuffer" is the matching engine's), or the code's own bookkeeping is
\* broken.
CapacityFaults == {"LevelPool", "OrderPool", "MapFull"}
Faults == {"None", "Request", "TickRange", "Internal", "TradeBuffer"} \cup CapacityFaults

Book == [orders : [OrderSlots -> Order], order_free : Seq(OrderSlots),
         order_map : UNION {[ids -> OrderSlots] : ids \in SUBSET OrderIds},
         levels : [LevelSlots -> Level], level_free : Seq(LevelSlots),
         sides : [Sides -> Side], fault : Faults]

Fail(b, why) == [b EXCEPT !.fault = why]

\* The map is sized to the power of two at or above MaxOrders and refuses the
\* insertion that would bring its load factor to 0.75.
NextPowerOfTwo(n) ==
    LET power[k \in 0..n] == IF k = 0 THEN 1 ELSE 2 * power[k - 1]
        enough == {k \in 0..n : power[k] >= n}
    IN  power[CHOOSE k \in enough : \A j \in enough : k <= j]
MapCapacity == NextPowerOfTwo(MaxOrders)
\* The load is looked at before the new key counts.
MapRefusesLate(b) == 4 * Cardinality(DOMAIN b.order_map) >= 3 * MapCapacity
MapRefuses(b) == 4 * (Cardinality(DOMAIN b.order_map) + 1) >= 3 * MapCapacity

InitialBook ==
    [orders     |-> [i \in OrderSlots |-> NoOrder],
     order_free |-> [i \in 1..MaxOrders |-> i - 1],
     order_map  |-> [id \in {} |-> kInvalid],
     levels     |-> [l \in LevelSlots |-> NoLevel],
     level_free |-> [l \in 1..MaxLevels |-> l - 1],
     sides      |-> [s \in Sides |->
                        [tree |-> {}, bbo |-> kInvalid,
                         dense |-> [t \in 0..(MaxTicks - 1) |-> kInvalid]]],
     fault      |-> "None"]
-----------------------------------------------------------------------------
(* BookSide: the levels of one side.                                       *)

Better(s, p, q) == IF s = 0 THEN p > q ELSE p < q

\* avl::find_max for bids, avl::find_min for asks.
BestOf(b, s, tree) ==
    LET best == {l \in tree : \A m \in tree :
                    ~Better(s, b.levels[m].price, b.levels[l].price)}
    IN  IF best = {} THEN kInvalid ELSE CHOOSE l \in best : TRUE

AvlFind(b, s, p) ==
    LET found == {l \in b.sides[s].tree : b.levels[l].price = p}
    IN  IF found = {} THEN kInvalid ELSE CHOOSE l \in found : TRUE

DenseFind(b, s, p) == IF p < MaxTicks THEN b.sides[s].dense[p] ELSE kInvalid

FindByPrice(b, s, p) ==
    IF DenseFind(b, s, p) # kInvalid THEN DenseFind(b, s, p) ELSE AvlFind(b, s, p)

CreateLevel(b, s, p) ==
    LET l == Head(b.level_free)
    IN  [b EXCEPT !.level_free = Tail(@),
                  !.levels[l] = [price |-> p, total_qty |-> 0, order_count |-> 0,
                                 head_order_idx |-> kInvalid,
                                 tail_order_idx |-> kInvalid, side |-> s]]

BboOnInsert(b, s, l) ==
    LET bbo == b.sides[s].bbo
    IN  IF bbo = kInvalid \/ Better(s, b.levels[l].price, b.levels[bbo].price)
        THEN l ELSE bbo

InsertLevel(b, s, l) ==
    [b EXCEPT !.sides[s] =
        [tree  |-> @.tree \cup {l},
         bbo   |-> BboOnInsert(b, s, l),
         dense |-> [@.dense EXCEPT ![b.levels[l].price] = l]]]

\* The dense array keeps its entry for the removed level.
RemoveLevelKeepsDense(b, s, l) ==
    LET rest == b.sides[s].tree \ {l}
    IN  [b EXCEPT !.sides[s] =
            [tree  |-> rest,
             bbo   |-> IF @.bbo = l THEN BestOf(b, s, rest) ELSE @.bbo,
             dense |-> @.dense]]

\* The cached best level is not looked at when its level goes.
RemoveLevelKeepsBbo(b, s, l) ==
    [b EXCEPT !.sides[s] =
        [tree  |-> @.tree \ {l},
         bbo   |-> IF @.tree = {l} THEN kInvalid ELSE @.bbo,
         dense |-> [@.dense EXCEPT ![b.levels[l].price] = kInvalid]]]

RemoveLevel(b, s, l) ==
    LET rest == b.sides[s].tree \ {l}
    IN  [b EXCEPT !.sides[s] =
            [tree  |-> rest,
             bbo   |-> IF @.bbo = l THEN BestOf(b, s, rest) ELSE @.bbo,
             dense |-> [@.dense EXCEPT ![b.levels[l].price] = kInvalid]]]

\* destroy_level's recycling checks, and remove_level's count check.
DestroyChecks(b, s, l) ==
    LET lvl == b.levels[l]
    IN  /\ b.sides[s].tree # {}
        /\ lvl.order_count = 0 /\ lvl.total_qty = 0
        /\ lvl.head_order_idx = kInvalid /\ lvl.tail_order_idx = kInvalid

\* The level's slot is not given back to the pool.
RemoveAndDestroyLevelLeaks(b, s, l) ==
    IF ~DestroyChecks(b, s, l) THEN Fail(b, "Internal")
    ELSE [RemoveLevel(b, s, l) EXCEPT !.levels[l] = NoLevel]

RemoveAndDestroyLevel(b, s, l) ==
    IF ~DestroyChecks(b, s, l) THEN Fail(b, "Internal")
    ELSE [RemoveLevel(b, s, l) EXCEPT !.level_free = <<l>> \o @,
                                      !.levels[l] = NoLevel]
-----------------------------------------------------------------------------
(* The FIFO list of a level: the slots reached from its head, in order (cut  *)
(* off at the pool's size, should the list be a cycle).                    *)
Slots(seq) == {seq[n] : n \in DOMAIN seq}

Fifo(b, l) ==
    LET from[n \in 0..MaxOrders] ==
            [i \in OrderIdx |->
                IF i = kInvalid \/ n = 0 THEN << >>
                ELSE <<i>> \o from[n - 1][b.orders[i].next_in_level]]
    IN  from[MaxOrders][b.levels[l].head_order_idx]

\* Slot i follows the tail of its list, if the list has one.
LinkedFrom(orders, tail, i) ==
    IF tail = kInvalid THEN orders ELSE [orders EXCEPT ![tail].next_in_level = i]

\* The tail is only set by the first order of a level.
WithOrderStaleTail(lvl, i, q) ==
    [lvl EXCEPT !.head_order_idx = IF lvl.tail_order_idx = kInvalid THEN i ELSE @,
                !.tail_order_idx = IF lvl.tail_order_idx = kInvalid THEN i ELSE @,
                !.total_qty = (@ + q) % QtyMod,
                !.order_count = @ + 1]

WithOrder(lvl, i, q) ==
    [lvl EXCEPT !.head_order_idx = IF lvl.tail_order_idx = kInvalid THEN i ELSE @,
                !.tail_order_idx = i,
                !.total_qty = (@ + q) % QtyMod,
                !.order_count = @ + 1]

AppendToLevel(b, l, i, q) ==
    [b EXCEPT !.orders = LinkedFrom(@, b.levels[l].tail_order_idx, i),
              !.levels[l] = WithOrder(@, i, q)]

\* Takes slot i out of the list of level l; the tail follows when i was last.
Unlink(b, l, i) ==
    LET next == b.orders[i].next_in_level
        preds == {j \in OrderSlots : /\ j \in Slots(Fifo(b, l))
                                     /\ b.orders[j].next_in_level = i}
        pred == CHOOSE j \in preds : TRUE
    IN  CASE b.levels[l].head_order_idx = i ->
                [b EXCEPT !.levels[l].head_order_idx = next,
                          !.levels[l].tail_order_idx =
                                IF next = kInvalid THEN kInvalid ELSE @]
          [] b.levels[l].head_order_idx # i /\ preds # {} ->
                [b EXCEPT !.orders[pred].next_in_level = next,
                          !.levels[l].tail_order_idx =
                                IF next = kInvalid THEN pred ELSE @]
          [] OTHER -> b

\* The slot is not given back to the pool.
FreeOrderLeaks(b, l, i) ==
    [b EXCEPT !.order_map = [id \in DOMAIN @ \ {b.orders[i].order_id} |-> @[id]],
              !.levels[l].order_count = @ - 1,
              !.orders[i] = NoOrder]

\* The id leaves the map, the count drops and the slot returns to the pool.
FreeOrder(b, l, i) ==
    [b EXCEPT !.order_map = [id \in DOMAIN @ \ {b.orders[i].order_id} |-> @[id]],
              !.levels[l].order_count = @ - 1,
              !.orders[i] = NoOrder,
              !.order_free = <<i>> \o @]

DeleteOrderInternal(b, i, s, l) ==
    LET f == FreeOrder(Unlink(b, l, i), l, i)
    IN  IF f.levels[l].order_count = 0 THEN RemoveAndDestroyLevel(f, s, l) ELSE f
-----------------------------------------------------------------------------
(* OrderBook's mutations.                                                  *)

\* A slot is taken from the pool, filled in and registered under its id.
PlaceOrder(b, id, s, p, q) ==
    LET i == Head(b.order_free)
    IN  [b EXCEPT
            !.order_free = Tail(@),
            !.orders[i] = [order_id |-> id, price |-> p, remaining_qty |-> q,
                           next_in_level |-> kInvalid, side |-> s],
            !.order_map = [k \in DOMAIN @ \cup {id} |-> IF k = id THEN i ELSE @[k]]]

\* Steps 2-4 of add_order, once level l stands for the order's price.
EnterOrder(b, l, id, s, p, q) ==
    IF b.order_free = << >> THEN Fail(b, "OrderPool")
    ELSE IF MapRefuses(b) THEN Fail(b, "MapFull")
    ELSE AppendToLevel(PlaceOrder(b, id, s, p, q), l, Head(b.order_free), q)

AddOrder(b, id, s, p, q) ==
    LET l == FindByPrice(b, s, p)
        new == Head(b.level_free)
    IN  IF q = 0 \/ p = 0 \/ id \in DOMAIN b.order_map THEN Fail(b, "Request")
        ELSE IF l # kInvalid THEN EnterOrder(b, l, id, s, p, q)
        ELSE IF b.level_free = << >> THEN Fail(b, "LevelPool")
        ELSE IF p >= MaxTicks THEN Fail(b, "TickRange")
        ELSE EnterOrder(InsertLevel(CreateLevel(b, s, p), s, new), new, id, s, p, q)

\* Quantity q leaves the total of level l.
DropQty(b, l, q) == [b EXCEPT !.levels[l].total_qty = (@ - q) % QtyMod]

\* More may be cancelled than is left.
CancelOrderUnchecked(b, id, q) ==
    LET i == b.order_map[id]
        o == b.orders[i]
        l == FindByPrice(b, o.side, o.price)
        r == DropQty([b EXCEPT !.orders[i].remaining_qty = @ - q], l, q)
    IN  IF id \notin DOMAIN b.order_map THEN Fail(b, "Request")
        ELSE IF l = kInvalid THEN Fail(b, "Internal")
        ELSE IF q = o.remaining_qty THEN DeleteOrderInternal(r, i, o.side, l)
        ELSE r

CancelOrder(b, id, q) ==
    LET i == b.order_map[id]
        o == b.orders[i]
        l == FindByPrice(b, o.side, o.price)
        r == DropQty([b EXCEPT !.orders[i].remaining_qty = @ - q], l, q)
    IN  IF id \notin DOMAIN b.order_map THEN Fail(b, "Request")
        ELSE IF q > o.remaining_qty THEN Fail(b, "Request")
        ELSE IF l = kInvalid THEN Fail(b, "Internal")
        ELSE IF q = o.remaining_qty THEN DeleteOrderInternal(r, i, o.side, l)
        ELSE r

ExecuteOrder(b, id, q) == CancelOrder(b, id, q)

DeleteOrder(b, id) ==
    LET i == b.order_map[id]
        o == b.orders[i]
        l == FindByPrice(b, o.side, o.price)
    IN  IF id \notin DOMAIN b.order_map THEN Fail(b, "Request")
        ELSE IF l = kInvalid THEN Fail(b, "Internal")
        ELSE DeleteOrderInternal(DropQty(b, l, o.remaining_qty), i, o.side, l)

\* A request that failed in its first half never starts its second.
Then(b, c) == IF b.fault # "None" THEN b ELSE c

\* The new order is added while the old one still rests.
ReplaceOrderAddsFirst(b, id, new, s, p, q) ==
    LET a == AddOrder(b, new, s, p, q)
    IN  IF id \notin DOMAIN b.order_map THEN Fail(b, "Request")
        ELSE Then(a, DeleteOrder(a, id))

ReplaceOrder(b, id, new, s, p, q) ==
    LET d == DeleteOrder(b, id) IN Then(d, AddOrder(d, new, s, p, q))

\* More quantity keeps the place in the queue.
ModifyOrderInPlace(b, id, q) ==
    LET i == b.order_map[id]
        o == b.orders[i]
        l == FindByPrice(b, o.side, o.price)
    IN  IF id \notin DOMAIN b.order_map THEN Fail(b, "Request")
        ELSE IF q < o.remaining_qty THEN CancelOrder(b, id, o.remaining_qty - q)
        ELSE [b EXCEPT !.orders[i].remaining_qty = q,
                       !.levels[l].total_qty = (@ + (q - o.remaining_qty)) % QtyMod]

ModifyOrder(b, id, q) ==
    LET o == b.orders[b.order_map[id]]
        d == DeleteOrder(b, id)
    IN  IF id \notin DOMAIN b.order_map THEN Fail(b, "Request")
        ELSE IF q < o.remaining_qty THEN CancelOrder(b, id, o.remaining_qty - q)
        ELSE IF q > o.remaining_qty THEN Then(d, AddOrder(d, id, o.side, o.price, q))
        ELSE b
-----------------------------------------------------------------------------
Running == book.fault = "None"

Add == Running /\ \E id \in OrderIds, s \in Sides, p \in Prices, q \in Qtys :
                    book' = AddOrder(book, id, s, p, q)
Cancel == Running /\ \E id \in OrderIds, q \in Qtys : book' = CancelOrder(book, id, q)
Execute == Running /\ \E id \in OrderIds, q \in Qtys : book' = ExecuteOrder(book, id, q)
Delete == Running /\ \E id \in OrderIds : book' = DeleteOrder(book, id)
Replace == Running /\ \E id, new \in OrderIds, s \in Sides, p \in Prices, q \in Qtys :
                        book' = ReplaceOrder(book, id, new, s, p, q)
Modify == Running /\ \E id \in OrderIds, q \in Qtys : book' = ModifyOrder(book, id, q)

Init == book = InitialBook
Next == Add \/ Cancel \/ Execute \/ Delete \/ Replace \/ Modify
Spec == Init /\ [][Next]_book
-----------------------------------------------------------------------------
(* Correctness.                                                            *)

NoDuplicates(seq) == \A m, n \in DOMAIN seq : seq[m] = seq[n] => m = n
Live(b) == {i \in OrderSlots : b.orders[i].order_id # kInvalid}
LiveOrders == Live(book)
OpenLevels == book.sides[0].tree \cup book.sides[1].tree

\* Every field holds a value of its type; no quantity is negative or above the
\* largest ever requested, no index points outside its pool.
TypeOK == book \in Book

\* The cached best level of a side (bbo_idx_) is the level of the best price
\* among all the live orders of that side, and is invalid exactly when the
\* side has none: the incremental update on insert and the recomputation on
\* removal never leave it stale.
BboExact ==
    Running => \A s \in Sides :
        LET prices == {book.orders[i].price : i \in
                            {j \in LiveOrders : book.orders[j].side = s}}
            bbo == book.sides[s].bbo
        IN  IF prices = {} THEN bbo = kInvalid
            ELSE /\ bbo \in book.sides[s].tree
                 /\ book.levels[bbo].price \in prices
                 /\ \A p \in prices : ~Better(s, p, book.levels[bbo].price)

\* The dense price array and the tree of a side agree on every price, so the
\* O(1) path of find_by_price can never return a recycled level; and a level
\* is in the tree of its own side only, one per price.
DenseExactIn(b) ==
    \A s \in Sides :
        /\ \A t \in 0..(MaxTicks - 1), l \in LevelSlots :
                b.sides[s].dense[t] = l <=>
                    l \in b.sides[s].tree /\ b.levels[l].price = t
        /\ \A l \in b.sides[s].tree :
                b.levels[l].side = s /\ b.levels[l].price < MaxTicks
DenseExact == DenseExactIn(book)

\* Sum of the quantities left in the orders of slots, wrapped like a uint32_t.
SumQty(slots) ==
    LET sum[S \in SUBSET slots] ==
            IF S = {} THEN 0
            ELSE LET i == CHOOSE i \in S : TRUE
                 IN  book.orders[i].remaining_qty + sum[S \ {i}]
    IN  sum[slots] % QtyMod

\* What OrderBookVerifier checks of a level: its list holds exactly the live
\* orders of its side and price, each once and none with quantity zero, ends
\* at tail_order_idx, and order_count and total_qty agree with it.
LevelsExact ==
    Running => \A l \in OpenLevels :
        LET lvl == book.levels[l]
            fifo == Fifo(book, l)
        IN  /\ fifo # << >> /\ NoDuplicates(fifo)
            /\ Slots(fifo) = {i \in LiveOrders : /\ book.orders[i].side = lvl.side
                                                /\ book.orders[i].price = lvl.price}
            /\ \A i \in Slots(fifo) : book.orders[i].remaining_qty > 0
            /\ lvl.tail_order_idx = fifo[Len(fifo)]
            /\ book.orders[lvl.tail_order_idx].next_in_level = kInvalid
            /\ lvl.order_count = Len(fifo)
            /\ lvl.total_qty = SumQty(Slots(fifo))

\* No order slot leaks and none is handed out twice: a slot is either free,
\* once, or live; the map holds exactly the live orders (no ghost, no orphan)
\* and resolves an id to the slot that carries it.
OrdersAccountedIn(b) ==
    /\ NoDuplicates(b.order_free)
    /\ Slots(b.order_free) = OrderSlots \ Live(b)
    /\ \A id \in DOMAIN b.order_map : b.orders[b.order_map[id]].order_id = id
    /\ \A i \in Live(b) : /\ b.orders[i].order_id \in DOMAIN b.order_map
                          /\ b.order_map[b.orders[i].order_id] = i
OrdersAccounted == OrdersAccountedIn(book)

\* No level slot leaks and none is handed out twice: a slot is either free,
\* once, or in exactly one tree.
LevelsAccountedIn(b) ==
    /\ NoDuplicates(b.level_free)
    /\ Slots(b.level_free) = LevelSlots \ (b.sides[0].tree \cup b.sides[1].tree)
    /\ b.sides[0].tree \cap b.sides[1].tree = {}
LevelsAccounted == LevelsAccountedIn(book)

\* The queues book b stands for: what find_by_price and a walk of the level's
\* list deliver for every side and price.
RestingIn(b) ==
    [k \in Sides \X Prices |->
        LET l == FindByPrice(b, k[1], k[2])
            fifo == Fifo(b, l)
        IN  IF b.fault # "None" \/ l = kInvalid THEN << >>
            ELSE [n \in DOMAIN fifo |-> [id  |-> b.orders[fifo[n]].order_id,
                                        qty |-> b.orders[fifo[n]].remaining_qty]]]
RestingQueues == RestingIn(book)

StatusOf(fault) ==
    CASE fault = "None" -> "Open"
      [] fault = "Request" -> "BadRequest"
      [] fault = "TickRange" -> "NoPrice"
      [] fault \in CapacityFaults -> "NoCapacity"
      [] OTHER -> "Broken"

MapLimit == (3 * MapCapacity - 1) \div 4
OrderLimit == IF MapLimit < MaxOrders THEN MapLimit ELSE MaxOrders

Promise == INSTANCE LimitOrderBook WITH
    resting <- RestingQueues, status <- StatusOf(book.fault),
    OrderLimit <- OrderLimit, LevelLimit <- MaxLevels,
    PriceLimit <- MaxTicks

\* Pools, map, trees and lists together implement per-price FIFO queues: no
\* request changes the place, price or quantity of another order, only more
\* quantity costs an order its place, no internal assertion ever fails, and
\* the book reports a full structure only at its stated limits.
ImplementsLimitOrderBook == Promise!Spec

\* Book b serves exactly the requests that the queues it stands for allow: an
\* order enters with a new id, a quantity, a price between 0 and MaxTicks and room
\* in both pools, the map included; a replacement needs that room only once the
\* old order is out.  No legal request is refused for what earlier ones left
\* behind, and no other is let through.
ServesIn(b) ==
    LET r == RestingIn(b)
        Open(c) == c.fault = "None"
    IN  \A id \in OrderIds :
            /\ Open(DeleteOrder(b, id)) <=> Promise!Rests(r, id)
            /\ \A q \in Qtys :
                /\ Open(CancelOrder(b, id, q)) <=> Promise!CanReduce(r, id, q)
                /\ Open(ModifyOrder(b, id, q)) <=> Promise!CanModify(r, id, q)
                /\ \A s \in Sides, p \in Prices :
                    /\ Open(AddOrder(b, id, s, p, q))
                            <=> Promise!CanEnter(r, id, <<s, p>>, q)
                    /\ \A new \in OrderIds :
                            Open(ReplaceOrder(b, id, new, s, p, q))
                                <=> Promise!CanReplace(r, id, new, <<s, p>>, q)
-----------------------------------------------------------------------------
(* What comments and assertions of the code say and the code does not do.  *)

\* TRADECORE_ASSERT(inserted): a map constructed with order_map_(MaxOrders)
\* accepts every order the pool has a slot for.
MapSizedForPool == book.fault # "MapFull"
=============================================================================
