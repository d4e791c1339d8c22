--------------------------- MODULE OrderBookProofs --------------------------
(***************************************************************************)
(* Theorems about the pools, the id map and the price levels of OrderBook, *)
(* for every pool size, tick range, request set and integer width.         *)
(***************************************************************************)
EXTENDS OrderBook, TLAPS, SequenceTheorems, FiniteSetTheorems, WellFoundedInduction

\* A failed assertion leaves the rest of the book as it was.
LEMMA FailType ==
    ASSUME NEW b \in Book, NEW why \in Faults
    PROVE  Fail(b, why) \in Book
BY DEF Book, Fail

\* find_by_price answers with a level slot or kInvalidPoolIndex.
LEMMA FindType ==
    ASSUME NEW b \in Book, NEW s \in Sides, NEW p \in Nat
    PROVE  FindByPrice(b, s, p) \in LevelIdx
<1>1. DenseFind(b, s, p) \in LevelIdx
  BY CapacityAssumption DEF DenseFind, Book, Side, LevelIdx
<1>2. AvlFind(b, s, p) \in LevelIdx
  BY DEF AvlFind, Book, Side, LevelIdx
<1> QED
  BY <1>1, <1>2 DEF FindByPrice

\* The constructor builds a well-typed book.
LEMMA InitType == InitialBook \in Book
<1>1. NoOrder \in Order /\ NoLevel \in Level
  BY RequestAssumption DEF NoOrder, NoLevel, Order, Level, OrderIdx, Qtys, Sides
<1>2. [i \in 1..MaxOrders |-> i - 1] \in Seq(OrderSlots)
  BY CapacityAssumption DEF OrderSlots
<1>3. [l \in 1..MaxLevels |-> l - 1] \in Seq(LevelSlots)
  BY CapacityAssumption DEF LevelSlots
<1>4. [id \in {} |-> kInvalid] \in UNION {[ids -> OrderSlots] : ids \in SUBSET OrderIds}
  OBVIOUS
<1>5. [tree |-> {}, bbo |-> kInvalid, dense |-> [t \in 0..(MaxTicks - 1) |-> kInvalid]]
        \in Side
  BY DEF Side, LevelIdx
<1> QED
  BY <1>1, <1>2, <1>3, <1>4, <1>5 DEF InitialBook, Book, Faults, Sides

\* create_level fills in the slot it takes, with the requested price.
LEMMA CreateType ==
    ASSUME NEW b \in Book, NEW s \in Sides, NEW p \in Nat, b.level_free # << >>
    PROVE  /\ CreateLevel(b, s, p) \in Book
           /\ Head(b.level_free) \in LevelSlots
           /\ CreateLevel(b, s, p).levels[Head(b.level_free)].price = p
<1> DEFINE l == Head(b.level_free)
           lvl == [price |-> p, total_qty |-> 0, order_count |-> 0,
                   head_order_idx |-> kInvalid, tail_order_idx |-> kInvalid, side |-> s]
<1>1. l \in LevelSlots /\ Tail(b.level_free) \in Seq(LevelSlots)
  BY DEF Book
<1>2. lvl \in Level
  BY RequestAssumption DEF Level, OrderIdx
<1> QED
  BY <1>1, <1>2 DEF Book, CreateLevel

\* insert_level stays inside the dense array for a price below its size.
LEMMA InsertType ==
    ASSUME NEW b \in Book, NEW s \in Sides, NEW l \in LevelSlots,
           b.levels[l].price < MaxTicks
    PROVE  InsertLevel(b, s, l) \in Book
<1>1. BboOnInsert(b, s, l) \in LevelIdx
  BY DEF BboOnInsert, Book, Side, LevelIdx
<1>2. b.levels[l].price \in 0..(MaxTicks - 1)
  BY CapacityAssumption DEF Book, Level
<1>3. b.sides[s] \in Side
  BY DEF Book
<1>4. [tree  |-> b.sides[s].tree \cup {l}, bbo |-> BboOnInsert(b, s, l),
       dense |-> [b.sides[s].dense EXCEPT ![b.levels[l].price] = l]] \in Side
  BY <1>1, <1>2, <1>3 DEF Side, LevelIdx
<1> QED
  BY <1>3, <1>4 DEF Book, InsertLevel

\* remove_level recomputes the cached best level from the remaining tree.
LEMMA RemoveType ==
    ASSUME NEW b \in Book, NEW s \in Sides, NEW l \in LevelSlots
    PROVE  RemoveLevel(b, s, l) \in Book
<1> DEFINE rest == b.sides[s].tree \ {l}
<1>1. b.sides[s] \in Side
  BY DEF Book
<1>2. rest \in SUBSET LevelSlots
  BY <1>1 DEF Side
<1>3. BestOf(b, s, rest) \in LevelIdx
  BY <1>2 DEF BestOf, LevelIdx
<1>4. [tree  |-> rest,
       bbo   |-> IF b.sides[s].bbo = l THEN BestOf(b, s, rest) ELSE b.sides[s].bbo,
       dense |-> [b.sides[s].dense EXCEPT ![b.levels[l].price] = kInvalid]] \in Side
  BY <1>1, <1>2, <1>3 DEF Side, LevelIdx
<1> QED
  BY <1>4 DEF Book, RemoveLevel

\* remove_and_destroy_level gives a level slot back, or stops.
LEMMA DestroyType ==
    ASSUME NEW b \in Book, NEW s \in Sides, NEW l \in LevelSlots
    PROVE  RemoveAndDestroyLevel(b, s, l) \in Book
<1>1. Fail(b, "Internal") \in Book
  BY FailType DEF Faults
<1>2. RemoveLevel(b, s, l) \in Book
  BY RemoveType
<1>3. NoLevel \in Level
  BY RequestAssumption DEF NoLevel, Level, OrderIdx, Sides
<1>4. <<l>> \o RemoveLevel(b, s, l).level_free \in Seq(LevelSlots)
  <2>1. <<l>> \in Seq(LevelSlots) /\ RemoveLevel(b, s, l).level_free \in Seq(LevelSlots)
    BY <1>2 DEF Book
  <2> QED
    BY <2>1, ConcatProperties
<1> QED
  BY <1>1, <1>2, <1>3, <1>4 DEF RemoveAndDestroyLevel, Book

\* uint32_t arithmetic stays below the modulus, for negative differences too.
LEMMA WrapType ==
    ASSUME NEW n \in Int
    PROVE  n % QtyMod \in 0..(QtyMod - 1)
<1>1. QtyMod \in Nat /\ QtyMod > 0
  BY RequestAssumption
<1>2. \A m, d \in Int : d > 0 => m % d \in 0..(d - 1)
  OBVIOUS
<1> QED
  BY <1>1, <1>2

\* A level that takes one more order stays a level.
LEMMA WithOrderType ==
    ASSUME NEW lvl \in Level, NEW i \in OrderSlots, NEW q \in Qtys
    PROVE  WithOrder(lvl, i, q) \in Level
<1>1. lvl.total_qty + q \in Int
  BY DEF Level, Qtys
<1>2. (lvl.total_qty + q) % QtyMod \in 0..(QtyMod - 1)
  BY <1>1, WrapType
<1>3. (IF lvl.tail_order_idx = kInvalid THEN i ELSE lvl.head_order_idx) \in OrderIdx
  BY DEF Level, OrderIdx
<1>4. i \in OrderIdx /\ lvl.order_count + 1 \in Int
  BY DEF Level, OrderIdx
<1>5. \A h, t \in OrderIdx, n \in 0..(QtyMod - 1), c \in Int :
        [lvl EXCEPT !.head_order_idx = h, !.tail_order_idx = t,
                    !.total_qty = n, !.order_count = c] \in Level
  BY DEF Level
<1> QED
  BY <1>2, <1>3, <1>4, <1>5 DEF WithOrder

\* Linking the old tail to a slot keeps every order an order.
LEMMA LinkedFromType ==
    ASSUME NEW orders \in [OrderSlots -> Order], NEW tail \in OrderIdx,
           NEW i \in OrderSlots
    PROVE  LinkedFrom(orders, tail, i) \in [OrderSlots -> Order]
BY DEF LinkedFrom, Order, OrderIdx

\* The FIFO insertion of add_order keeps the book well-typed.
LEMMA AppendType ==
    ASSUME NEW b \in Book, NEW l \in LevelSlots, NEW i \in OrderSlots, NEW q \in Qtys
    PROVE  AppendToLevel(b, l, i, q) \in Book
<1>1. b.levels[l] \in Level /\ b.levels[l].tail_order_idx \in OrderIdx
      /\ b.orders \in [OrderSlots -> Order]
  BY DEF Book, Level
<1>2. WithOrder(b.levels[l], i, q) \in Level
  BY <1>1, WithOrderType
<1>3. LinkedFrom(b.orders, b.levels[l].tail_order_idx, i) \in [OrderSlots -> Order]
  BY <1>1, LinkedFromType
<1> QED
  BY <1>2, <1>3 DEF Book, AppendToLevel

\* Unlinking a slot leaves links inside the order pool.
LEMMA UnlinkType ==
    ASSUME NEW b \in Book, NEW l \in LevelSlots, NEW i \in OrderSlots
    PROVE  Unlink(b, l, i) \in Book
<1> DEFINE next == b.orders[i].next_in_level
           preds == {j \in OrderSlots : /\ j \in Slots(Fifo(b, l))
                                        /\ b.orders[j].next_in_level = i}
           pred == CHOOSE j \in preds : TRUE
<1>1. next \in OrderIdx /\ b.levels[l] \in Level /\ b.orders \in [OrderSlots -> Order]
  BY DEF Book, Order
<1>2. CASE b.levels[l].head_order_idx = i
  <2>1. [b.levels[l] EXCEPT
            !.head_order_idx = next,
            !.tail_order_idx = IF next = kInvalid THEN kInvalid ELSE @] \in Level
    BY <1>1 DEF Level, OrderIdx
  <2> QED
    BY <1>2, <2>1 DEF Book, Unlink
<1>3. CASE b.levels[l].head_order_idx # i /\ preds # {}
  <2>1. pred \in OrderSlots
    BY <1>3
  <2>2. [b.levels[l] EXCEPT
            !.tail_order_idx = IF next = kInvalid THEN pred ELSE @] \in Level
    BY <1>1, <2>1 DEF Level, OrderIdx
  <2>3. [b.orders EXCEPT ![pred].next_in_level = next] \in [OrderSlots -> Order]
    BY <1>1, <2>1 DEF Order
  <2> QED
    BY <1>3, <2>2, <2>3 DEF Book, Unlink
<1>4. CASE b.levels[l].head_order_idx # i /\ preds = {}
  BY <1>4 DEF Unlink
<1> QED
  BY <1>2, <1>3, <1>4

\* Giving an order slot back keeps free list, map and levels well-typed.
LEMMA FreeType ==
    ASSUME NEW b \in Book, NEW l \in LevelSlots, NEW i \in OrderSlots
    PROVE  FreeOrder(b, l, i) \in Book
<1> DEFINE map == [id \in DOMAIN b.order_map \ {b.orders[i].order_id} |-> b.order_map[id]]
<1>1. map \in UNION {[ids -> OrderSlots] : ids \in SUBSET OrderIds}
  <2>1. PICK ids \in SUBSET OrderIds : b.order_map \in [ids -> OrderSlots]
    BY DEF Book
  <2>2. map \in [ids \ {b.orders[i].order_id} -> OrderSlots]
    BY <2>1
  <2> QED
    BY <2>2
<1>2. <<i>> \o b.order_free \in Seq(OrderSlots)
  <2>1. <<i>> \in Seq(OrderSlots) /\ b.order_free \in Seq(OrderSlots)
    BY DEF Book
  <2> QED
    BY <2>1, ConcatProperties
<1>3. [b.levels EXCEPT ![l].order_count = @ - 1] \in [LevelSlots -> Level]
  <2>1. \A lvl \in Level : [lvl EXCEPT !.order_count = @ - 1] \in Level
    BY DEF Level
  <2>2. b.levels \in [LevelSlots -> Level]
    BY DEF Book
  <2> QED
    BY <2>1, <2>2
<1>4. [b.orders EXCEPT ![i] = NoOrder] \in [OrderSlots -> Order]
  BY RequestAssumption DEF Book, NoOrder, Order, OrderIdx, Qtys, Sides
<1> HIDE DEF map
<1> QED
  BY <1>1, <1>2, <1>3, <1>4 DEF Book, FreeOrder, map

\* delete_order_internal: unlink, free, and close an empty level.
LEMMA DeleteInternalType ==
    ASSUME NEW b \in Book, NEW i \in OrderSlots, NEW s \in Sides, NEW l \in LevelSlots
    PROVE  DeleteOrderInternal(b, i, s, l) \in Book
<1>1. Unlink(b, l, i) \in Book
  BY UnlinkType
<1>2. FreeOrder(Unlink(b, l, i), l, i) \in Book
  BY <1>1, FreeType
<1>3. RemoveAndDestroyLevel(FreeOrder(Unlink(b, l, i), l, i), s, l) \in Book
  BY <1>2, DestroyType
<1> QED
  BY <1>2, <1>3 DEF DeleteOrderInternal

\* Taking an order slot and registering it keeps the book well-typed.
LEMMA PlaceType ==
    ASSUME NEW b \in Book, b.order_free # << >>, NEW id \in OrderIds,
           NEW s \in Sides, NEW p \in Nat, NEW q \in Qtys
    PROVE  PlaceOrder(b, id, s, p, q) \in Book /\ Head(b.order_free) \in OrderSlots
<1> DEFINE i == Head(b.order_free)
           o == [order_id |-> id, price |-> p, remaining_qty |-> q,
                 next_in_level |-> kInvalid, side |-> s]
           map == [k \in DOMAIN b.order_map \cup {id} |->
                        IF k = id THEN i ELSE b.order_map[k]]
<1>1. i \in OrderSlots /\ Tail(b.order_free) \in Seq(OrderSlots)
  BY DEF Book
<1>2. o \in Order
  BY DEF Order, OrderIdx
<1>3. map \in UNION {[ids -> OrderSlots] : ids \in SUBSET OrderIds}
  <2>1. PICK ids \in SUBSET OrderIds : b.order_map \in [ids -> OrderSlots]
    BY DEF Book
  <2>2. map \in [ids \cup {id} -> OrderSlots]
    BY <1>1, <2>1
  <2> QED
    BY <2>2
<1> QED
  BY <1>1, <1>2, <1>3 DEF Book, PlaceOrder

\* Steps 2-4 of add_order keep the book well-typed.
LEMMA EnterType ==
    ASSUME NEW b \in Book, NEW l \in LevelSlots, NEW id \in OrderIds,
           NEW s \in Sides, NEW p \in Nat, NEW q \in Qtys
    PROVE  EnterOrder(b, l, id, s, p, q) \in Book
<1>1. Fail(b, "OrderPool") \in Book /\ Fail(b, "MapFull") \in Book
  BY FailType DEF Faults, CapacityFaults
<1>2. CASE b.order_free # << >>
  <2>1. AppendToLevel(PlaceOrder(b, id, s, p, q), l, Head(b.order_free), q) \in Book
    BY <1>2, PlaceType, AppendType
  <2> QED
    BY <1>1, <1>2, <2>1 DEF EnterOrder
<1> QED
  BY <1>1, <1>2 DEF EnterOrder

\* add_order keeps the book well-typed, whatever it is asked.
LEMMA AddType ==
    ASSUME NEW b \in Book, NEW id \in OrderIds, NEW s \in Sides, NEW p \in Nat,
           NEW q \in Qtys
    PROVE  AddOrder(b, id, s, p, q) \in Book
<1> DEFINE l == FindByPrice(b, s, p)
           new == Head(b.level_free)
           c == CreateLevel(b, s, p)
<1>1. \A why \in {"Request", "LevelPool", "TickRange"} : Fail(b, why) \in Book
  BY FailType DEF Faults, CapacityFaults
<1>2. CASE l # kInvalid
  <2>1. l \in LevelSlots
    BY <1>2, FindType DEF LevelIdx
  <2>2. EnterOrder(b, l, id, s, p, q) \in Book
    BY <2>1, EnterType
  <2> QED
    BY <1>1, <1>2, <2>2 DEF AddOrder
<1>3. CASE l = kInvalid /\ b.level_free # << >> /\ p < MaxTicks
  <2>1. c \in Book /\ new \in LevelSlots /\ c.levels[new].price = p
    BY <1>3, CreateType
  <2>2. InsertLevel(c, s, new) \in Book
    BY <1>3, <2>1, InsertType
  <2>3. EnterOrder(InsertLevel(c, s, new), new, id, s, p, q) \in Book
    BY <2>1, <2>2, EnterType
  <2> QED
    BY <1>1, <1>3, <2>3 DEF AddOrder
<1>4. CASE l = kInvalid /\ (b.level_free = << >> \/ ~(p < MaxTicks))
  BY <1>1, <1>4, CapacityAssumption DEF AddOrder
<1> QED
  BY <1>2, <1>3, <1>4

\* Taking quantity off a level wraps rather than goes below zero.
LEMMA DropType ==
    ASSUME NEW b \in Book, NEW l \in LevelSlots, NEW q \in Qtys
    PROVE  DropQty(b, l, q) \in Book
<1>1. b.levels \in [LevelSlots -> Level]
  BY DEF Book
<1>2. b.levels[l].total_qty - q \in Int
  BY <1>1 DEF Level, Qtys
<1>3. (b.levels[l].total_qty - q) % QtyMod \in 0..(QtyMod - 1)
  BY <1>2, WrapType
<1>4. \A n \in 0..(QtyMod - 1) : [b.levels[l] EXCEPT !.total_qty = n] \in Level
  BY <1>1 DEF Level
<1>5. [b.levels[l] EXCEPT !.total_qty = (@ - q) % QtyMod] \in Level
  BY <1>3, <1>4
<1>6. [b.levels EXCEPT ![l].total_qty = (@ - q) % QtyMod] \in [LevelSlots -> Level]
  BY <1>1, <1>5
<1> QED
  BY <1>6 DEF Book, DropQty

\* What the map yields for an id it knows.
LEMMA LookupType ==
    ASSUME NEW b \in Book, NEW id \in DOMAIN b.order_map
    PROVE  b.order_map[id] \in OrderSlots /\ b.orders[b.order_map[id]] \in Order
<1>1. PICK ids \in SUBSET OrderIds : b.order_map \in [ids -> OrderSlots]
  BY DEF Book
<1>2. b.order_map[id] \in OrderSlots
  BY <1>1
<1> QED
  BY <1>2 DEF Book

\* cancel_order and execute_order never take more than an order has left.
LEMMA CancelType ==
    ASSUME NEW b \in Book, NEW id \in OrderIds, NEW q \in Qtys
    PROVE  CancelOrder(b, id, q) \in Book
<1> DEFINE i == b.order_map[id]
           o == b.orders[i]
           l == FindByPrice(b, o.side, o.price)
           less == [b EXCEPT !.orders[i].remaining_qty = @ - q]
<1>1. \A why \in {"Request", "Internal"} : Fail(b, why) \in Book
  BY FailType DEF Faults
<1>2. CASE id \in DOMAIN b.order_map /\ q <= o.remaining_qty /\ l # kInvalid
  <2>1. i \in OrderSlots /\ o \in Order
    BY <1>2, LookupType
  <2>2. l \in LevelSlots /\ o.side \in Sides
    BY <1>2, <2>1, FindType DEF Order, LevelIdx
  <2>3. [o EXCEPT !.remaining_qty = @ - q] \in Order
    BY <1>2, <2>1, RequestAssumption DEF Order, Qtys
  <2>4. less \in Book
    BY <2>1, <2>3 DEF Book
  <2>5. DropQty(less, l, q) \in Book
    BY <2>2, <2>4, DropType
  <2>6. DeleteOrderInternal(DropQty(less, l, q), i, o.side, l) \in Book
    BY <2>1, <2>2, <2>5, DeleteInternalType
  <2> QED
    BY <1>1, <2>5, <2>6 DEF CancelOrder
<1>3. CASE id \in DOMAIN b.order_map /\ q <= o.remaining_qty /\ l = kInvalid
  BY <1>1, <1>3 DEF CancelOrder
<1>4. CASE id \in DOMAIN b.order_map /\ q > o.remaining_qty
  BY <1>1, <1>4 DEF CancelOrder
<1>5. CASE id \notin DOMAIN b.order_map
  BY <1>1, <1>5 DEF CancelOrder
<1>6. id \in DOMAIN b.order_map => q <= o.remaining_qty \/ q > o.remaining_qty
  BY LookupType DEF Order, Qtys
<1> QED
  BY <1>2, <1>3, <1>4, <1>5, <1>6

\* delete_order keeps the book well-typed.
LEMMA DeleteType ==
    ASSUME NEW b \in Book, NEW id \in OrderIds
    PROVE  DeleteOrder(b, id) \in Book
<1> DEFINE i == b.order_map[id]
           o == b.orders[i]
           l == FindByPrice(b, o.side, o.price)
<1>1. \A why \in {"Request", "Internal"} : Fail(b, why) \in Book
  BY FailType DEF Faults
<1>2. CASE id \in DOMAIN b.order_map /\ l # kInvalid
  <2>1. i \in OrderSlots /\ o \in Order
    BY <1>2, LookupType
  <2>2. l \in LevelSlots /\ o.side \in Sides /\ o.remaining_qty \in Qtys
    BY <1>2, <2>1, FindType DEF Order, LevelIdx
  <2>3. DropQty(b, l, o.remaining_qty) \in Book
    BY <2>2, DropType
  <2>4. DeleteOrderInternal(DropQty(b, l, o.remaining_qty), i, o.side, l) \in Book
    BY <2>1, <2>2, <2>3, DeleteInternalType
  <2> QED
    BY <1>2, <2>4 DEF DeleteOrder
<1> QED
  BY <1>1, <1>2 DEF DeleteOrder

\* replace_order: delete, then add unless the deletion stopped.
LEMMA ReplaceType ==
    ASSUME NEW b \in Book, NEW id \in OrderIds, NEW new \in OrderIds, NEW s \in Sides,
           NEW p \in Nat, NEW q \in Qtys
    PROVE  ReplaceOrder(b, id, new, s, p, q) \in Book
BY DeleteType, AddType DEF ReplaceOrder, Then

\* modify_order: reduce in place, or delete and add again.
LEMMA ModifyType ==
    ASSUME NEW b \in Book, NEW id \in OrderIds, NEW q \in Qtys
    PROVE  ModifyOrder(b, id, q) \in Book
<1> DEFINE o == b.orders[b.order_map[id]]
           d == DeleteOrder(b, id)
<1>1. Fail(b, "Request") \in Book
  BY FailType DEF Faults
<1>2. CASE id \in DOMAIN b.order_map
  <2>1. o \in Order /\ o.side \in Sides /\ o.price \in Nat /\ o.remaining_qty \in Qtys
    BY <1>2, LookupType DEF Order
  <2>2. q < o.remaining_qty => o.remaining_qty - q \in Qtys
    BY <2>1, RequestAssumption DEF Qtys
  <2>3. q < o.remaining_qty => CancelOrder(b, id, o.remaining_qty - q) \in Book
    BY <2>2, CancelType
  <2>4. Then(d, AddOrder(d, id, o.side, o.price, q)) \in Book
    BY <2>1, DeleteType, AddType DEF Then
  <2> QED
    BY <1>2, <2>3, <2>4 DEF ModifyOrder
<1> QED
  BY <1>1, <1>2 DEF ModifyOrder

\* Every field of the book keeps its type under every request, legal or not:
\* quantities never go below zero or above the largest request, and no index
\* ever points outside its pool.
THEOREM TypeCorrect == Spec => []TypeOK
<1>1. Init => TypeOK
  BY InitType DEF Init, TypeOK
<1>2. TypeOK /\ [Next]_book => TypeOK'
  <2> SUFFICES ASSUME TypeOK, [Next]_book PROVE TypeOK'
    OBVIOUS
  <2>1. CASE Add
    BY <2>1, AddType, RequestAssumption DEF Add, TypeOK
  <2>2. CASE Cancel
    BY <2>2, CancelType DEF Cancel, TypeOK
  <2>3. CASE Execute
    BY <2>3, CancelType DEF Execute, ExecuteOrder, TypeOK
  <2>4. CASE Delete
    BY <2>4, DeleteType DEF Delete, TypeOK
  <2>5. CASE Replace
    BY <2>5, ReplaceType, RequestAssumption DEF Replace, TypeOK
  <2>6. CASE Modify
    BY <2>6, ModifyType DEF Modify, TypeOK
  <2>7. CASE UNCHANGED book
    BY <2>7 DEF TypeOK
  <2> QED
    BY <2>1, <2>2, <2>3, <2>4, <2>5, <2>6, <2>7 DEF Next
<1> QED
  BY <1>1, <1>2, PTL DEF Spec
-----------------------------------------------------------------------------
(* Accounting of the order pool and the map.  Most steps of an operation   *)
(* leave the free list, the map and the ids in the slots alone; only       *)
(* PlaceOrder and FreeOrder move a slot between the free and the live.     *)

SameOrders(b, c) ==
    /\ c.order_free = b.order_free
    /\ c.order_map = b.order_map
    /\ \A i \in OrderSlots : c.orders[i].order_id = b.orders[i].order_id

\* The accounting of a book is that of any book with the same free list, map
\* and ids.
LEMMA SameOrdersAccounted ==
    ASSUME NEW b \in Book, NEW c \in Book, SameOrders(b, c), OrdersAccountedIn(b)
    PROVE  OrdersAccountedIn(c)
<1>1. Live(c) = Live(b)
  BY DEF SameOrders, Live
<1>2. \A id \in DOMAIN b.order_map : b.order_map[id] \in OrderSlots
  BY LookupType
<1> QED
  BY <1>1, <1>2 DEF SameOrders, OrdersAccountedIn, Live

\* Taking the head off a stack without duplicates takes exactly its slot away.
LEMMA TailSlots ==
    ASSUME NEW S, NEW q \in Seq(S), q # << >>, NoDuplicates(q)
    PROVE  /\ NoDuplicates(Tail(q))
           /\ Slots(Tail(q)) = Slots(q) \ {Head(q)}
           /\ Head(q) \in Slots(q)
<1>1. /\ Len(q) \in Nat /\ Len(q) >= 1 /\ Head(q) = q[1]
      /\ DOMAIN q = 1..Len(q) /\ DOMAIN Tail(q) = 1..(Len(q) - 1)
      /\ \A n \in 1..(Len(q) - 1) : Tail(q)[n] = q[n + 1]
  BY HeadTailProperties
<1>2. NoDuplicates(Tail(q))
  BY <1>1 DEF NoDuplicates
<1>3. Head(q) \in Slots(q)
  BY <1>1 DEF Slots
<1>4. ASSUME NEW x \in Slots(Tail(q)) PROVE x \in Slots(q) \ {Head(q)}
  BY <1>1 DEF Slots, NoDuplicates
<1>5. ASSUME NEW x \in Slots(q) \ {Head(q)} PROVE x \in Slots(Tail(q))
  <2>1. PICK n \in 1..Len(q) : x = q[n]
    BY <1>1 DEF Slots
  <2>2. n # 1
    BY <1>1, <2>1
  <2>3. n - 1 \in 1..(Len(q) - 1) /\ Tail(q)[n - 1] = x
    BY <1>1, <2>1, <2>2
  <2> QED
    BY <1>1, <2>3 DEF Slots
<1> QED
  BY <1>2, <1>3, <1>4, <1>5

\* Pushing a slot that is not on the stack adds exactly that slot.
LEMMA PushSlots ==
    ASSUME NEW S, NEW q \in Seq(S), NEW x \in S, NoDuplicates(q), x \notin Slots(q)
    PROVE  /\ NoDuplicates(<<x>> \o q)
           /\ Slots(<<x>> \o q) = Slots(q) \cup {x}
<1> DEFINE p == <<x>> \o q
<1>1. <<x>> \in Seq(S) /\ Len(<<x>>) = 1 /\ <<x>>[1] = x
  OBVIOUS
<1>2. /\ Len(q) \in Nat /\ DOMAIN q = 1..Len(q)
      /\ p \in Seq(S) /\ DOMAIN p = 1..(Len(q) + 1)
      /\ \A n \in 1..(Len(q) + 1) : p[n] = IF n = 1 THEN x ELSE q[n - 1]
  BY <1>1, ConcatProperties
<1> HIDE DEF p
<1>3. \A n \in 1..Len(q) : q[n] # x /\ q[n] \in Slots(q)
  BY <1>2 DEF Slots
<1>4. NoDuplicates(p)
  <2> SUFFICES ASSUME NEW m \in 1..(Len(q) + 1), NEW n \in 1..(Len(q) + 1), p[m] = p[n]
               PROVE  m = n
    BY <1>2 DEF NoDuplicates
  <2>1. CASE m = 1 \/ n = 1
    BY <1>2, <1>3, <2>1
  <2>2. CASE m # 1 /\ n # 1
    <3>1. m - 1 \in 1..Len(q) /\ n - 1 \in 1..Len(q) /\ q[m - 1] = q[n - 1]
      BY <1>2, <2>2
    <3>2. m - 1 = n - 1
      BY <1>2, <3>1 DEF NoDuplicates
    <3> QED
      BY <3>2
  <2> QED
    BY <2>1, <2>2
<1>5. ASSUME NEW y \in Slots(p) PROVE y \in Slots(q) \cup {x}
  BY <1>2, <1>3 DEF Slots
<1>6. ASSUME NEW y \in Slots(q) \cup {x} PROVE y \in Slots(p)
  <2>1. CASE y = x
    BY <1>2, <2>1 DEF Slots
  <2>2. CASE y \in Slots(q)
    <3>1. PICK n \in 1..Len(q) : y = q[n]
      BY <1>2, <2>2 DEF Slots
    <3>2. n + 1 \in 1..(Len(q) + 1) /\ p[n + 1] = y
      BY <1>2, <3>1
    <3> QED
      BY <1>2, <3>2 DEF Slots
  <2> QED
    BY <2>1, <2>2
<1> QED
  BY <1>4, <1>5, <1>6 DEF p

\* A slot taken from the pool and registered moves from the free to the live.
LEMMA PlaceAccounted ==
    ASSUME NEW b \in Book, b.order_free # << >>, NEW id \in OrderIds,
           id \notin DOMAIN b.order_map, NEW s \in Sides, NEW p \in Nat, NEW q \in Qtys,
           OrdersAccountedIn(b)
    PROVE  OrdersAccountedIn(PlaceOrder(b, id, s, p, q))
<1> DEFINE i == Head(b.order_free)
           c == PlaceOrder(b, id, s, p, q)
<1>1. b.order_free \in Seq(OrderSlots) /\ i \in OrderSlots /\ c \in Book
  BY PlaceType DEF Book
<1>2. /\ NoDuplicates(Tail(b.order_free)) /\ i \in Slots(b.order_free)
      /\ Slots(Tail(b.order_free)) = Slots(b.order_free) \ {i}
  BY <1>1, TailSlots DEF OrdersAccountedIn
<1>3. /\ c.order_free = Tail(b.order_free)
      /\ c.orders[i].order_id = id
      /\ \A j \in OrderSlots \ {i} : c.orders[j] = b.orders[j]
      /\ DOMAIN c.order_map = DOMAIN b.order_map \cup {id}
      /\ c.order_map[id] = i
      /\ \A k \in DOMAIN b.order_map : c.order_map[k] = b.order_map[k]
  BY <1>1 DEF PlaceOrder, Book
<1>4. id # kInvalid /\ i \notin Live(b)
  BY <1>2, RequestAssumption DEF OrdersAccountedIn, kInvalid
<1>5. Live(c) = Live(b) \cup {i}
  BY <1>1, <1>3, <1>4 DEF Live
<1>6. \A k \in DOMAIN b.order_map : b.order_map[k] \in OrderSlots /\ b.order_map[k] # i
  <2> TAKE k \in DOMAIN b.order_map
  <2>1. b.order_map[k] \in OrderSlots /\ b.orders[b.order_map[k]].order_id = k
    BY LookupType DEF OrdersAccountedIn
  <2>2. k \in OrderIds
    BY DEF Book
  <2>3. b.order_map[k] \in Live(b)
    BY <2>1, <2>2, RequestAssumption DEF Live, kInvalid
  <2> QED
    BY <1>4, <2>1, <2>3
<1> HIDE DEF c
<1>7. \A k \in DOMAIN c.order_map : c.orders[c.order_map[k]].order_id = k
  BY <1>3, <1>6 DEF OrdersAccountedIn
<1>8. \A j \in Live(c) : /\ c.orders[j].order_id \in DOMAIN c.order_map
                        /\ c.order_map[c.orders[j].order_id] = j
  BY <1>3, <1>5, <1>4 DEF OrdersAccountedIn, Live
<1>9. Slots(c.order_free) = OrderSlots \ Live(c)
  BY <1>2, <1>3, <1>5 DEF OrdersAccountedIn
<1> QED
  BY <1>2, <1>3, <1>7, <1>8, <1>9 DEF OrdersAccountedIn, c

\* A live slot given back moves from the live to the free, and leaves the map.
LEMMA FreeAccounted ==
    ASSUME NEW b \in Book, NEW l \in LevelSlots, NEW i \in Live(b), OrdersAccountedIn(b)
    PROVE  OrdersAccountedIn(FreeOrder(b, l, i))
<1> DEFINE c == FreeOrder(b, l, i)
           id == b.orders[i].order_id
<1>1. b.order_free \in Seq(OrderSlots) /\ i \in OrderSlots /\ c \in Book
  BY FreeType DEF Book, Live
<1>2. i \notin Slots(b.order_free) /\ id \in DOMAIN b.order_map /\ b.order_map[id] = i
  BY DEF OrdersAccountedIn
<1>3. /\ NoDuplicates(<<i>> \o b.order_free)
      /\ Slots(<<i>> \o b.order_free) = Slots(b.order_free) \cup {i}
  BY <1>1, <1>2, PushSlots DEF OrdersAccountedIn
<1>4. /\ c.order_free = <<i>> \o b.order_free
      /\ c.orders[i] = NoOrder
      /\ \A j \in OrderSlots \ {i} : c.orders[j] = b.orders[j]
      /\ DOMAIN c.order_map = DOMAIN b.order_map \ {id}
      /\ \A k \in DOMAIN c.order_map : c.order_map[k] = b.order_map[k]
  BY <1>1 DEF FreeOrder, Book
<1>5. Live(c) = Live(b) \ {i}
  BY <1>1, <1>4 DEF Live, NoOrder
<1>6. \A k \in DOMAIN b.order_map : b.order_map[k] \in OrderSlots
  BY LookupType
<1> HIDE DEF c
<1>7. \A k \in DOMAIN c.order_map : c.orders[c.order_map[k]].order_id = k
  BY <1>2, <1>4, <1>6 DEF OrdersAccountedIn
<1>8. \A j \in Live(c) : /\ c.orders[j].order_id \in DOMAIN c.order_map
                        /\ c.order_map[c.orders[j].order_id] = j
  BY <1>2, <1>4, <1>5 DEF OrdersAccountedIn, Live
<1>9. Slots(c.order_free) = OrderSlots \ Live(c)
  BY <1>1, <1>3, <1>4, <1>5 DEF OrdersAccountedIn, Live
<1> QED
  BY <1>3, <1>4, <1>7, <1>8, <1>9 DEF OrdersAccountedIn, c

\* The steps that touch levels, links and quantities leave the accounting alone.
LEMMA FailSame ==
    ASSUME NEW b \in Book, NEW why \in Faults
    PROVE  SameOrders(b, Fail(b, why))
BY DEF Book, Fail, SameOrders

\* create_level.
LEMMA CreateSame ==
    ASSUME NEW b \in Book, NEW s \in Sides, NEW p \in Nat
    PROVE  SameOrders(b, CreateLevel(b, s, p))
BY DEF Book, CreateLevel, SameOrders

\* insert_level.
LEMMA InsertSame ==
    ASSUME NEW b \in Book, NEW s \in Sides, NEW l \in LevelSlots
    PROVE  SameOrders(b, InsertLevel(b, s, l))
BY DEF Book, InsertLevel, SameOrders

\* remove_and_destroy_level.
LEMMA DestroySame ==
    ASSUME NEW b \in Book, NEW s \in Sides, NEW l \in LevelSlots
    PROVE  SameOrders(b, RemoveAndDestroyLevel(b, s, l))
<1>1. SameOrders(b, Fail(b, "Internal"))
  BY FailSame DEF Faults
<1>2. SameOrders(b, RemoveLevel(b, s, l)) /\ RemoveLevel(b, s, l) \in Book
  BY RemoveType DEF Book, RemoveLevel, SameOrders
<1>3. SameOrders(b, [RemoveLevel(b, s, l) EXCEPT !.level_free = <<l>> \o @,
                                                 !.levels[l] = NoLevel])
  BY <1>2 DEF Book, SameOrders
<1> QED
  BY <1>1, <1>3 DEF RemoveAndDestroyLevel

\* The FIFO insertion.
LEMMA AppendSame ==
    ASSUME NEW b \in Book, NEW l \in LevelSlots, NEW i \in OrderSlots, NEW q \in Qtys
    PROVE  SameOrders(b, AppendToLevel(b, l, i, q))
<1> DEFINE c == AppendToLevel(b, l, i, q)
<1>1. /\ c.order_free = b.order_free /\ c.order_map = b.order_map
      /\ c.orders = LinkedFrom(b.orders, b.levels[l].tail_order_idx, i)
  BY DEF Book, AppendToLevel
<1>2. \A tail : \A j \in OrderSlots :
        LinkedFrom(b.orders, tail, i)[j].order_id = b.orders[j].order_id
  BY DEF Book, Order, LinkedFrom
<1> QED
  BY <1>1, <1>2 DEF SameOrders

\* Unlinking a slot.
LEMMA UnlinkSame ==
    ASSUME NEW b \in Book, NEW l \in LevelSlots, NEW i \in OrderSlots
    PROVE  SameOrders(b, Unlink(b, l, i))
<1> DEFINE next == b.orders[i].next_in_level
           preds == {j \in OrderSlots : /\ j \in Slots(Fifo(b, l))
                                        /\ b.orders[j].next_in_level = i}
           pred == CHOOSE j \in preds : TRUE
<1>1. CASE b.levels[l].head_order_idx = i
  BY <1>1 DEF Book, Unlink, SameOrders
<1>2. CASE b.levels[l].head_order_idx # i /\ preds # {}
  <2>1. \A k \in OrderSlots : \A j \in OrderSlots :
            [b.orders EXCEPT ![k].next_in_level = next][j].order_id = b.orders[j].order_id
    BY DEF Book, Order
  <2>2. pred \in OrderSlots
    BY <1>2
  <2>3. \A lvls : LET c == [b EXCEPT !.orders[pred].next_in_level = next, !.levels = lvls]
                  IN  SameOrders(b, c)
    BY <2>1, <2>2 DEF Book, SameOrders
  <2> QED
    BY <1>2, <2>3 DEF Unlink
<1>3. CASE b.levels[l].head_order_idx # i /\ preds = {}
  BY <1>3 DEF Unlink, SameOrders
<1> QED
  BY <1>1, <1>2, <1>3

\* Taking quantity off a level.
LEMMA DropSame ==
    ASSUME NEW b \in Book, NEW l \in LevelSlots, NEW q \in Qtys
    PROVE  SameOrders(b, DropQty(b, l, q))
BY DEF Book, DropQty, SameOrders
-----------------------------------------------------------------------------
(* The operations, from the steps they are made of.                        *)

\* delete_order_internal of a live slot.
LEMMA DeleteInternalAccounted ==
    ASSUME NEW b \in Book, NEW i \in Live(b), NEW s \in Sides, NEW l \in LevelSlots,
           OrdersAccountedIn(b)
    PROVE  OrdersAccountedIn(DeleteOrderInternal(b, i, s, l))
<1> DEFINE u == Unlink(b, l, i)
           f == FreeOrder(u, l, i)
<1>1. i \in OrderSlots /\ u \in Book /\ SameOrders(b, u)
  BY UnlinkType, UnlinkSame DEF Live
<1>2. OrdersAccountedIn(u) /\ i \in Live(u)
  BY <1>1, SameOrdersAccounted DEF SameOrders, Live
<1> HIDE DEF u
<1>3. f \in Book /\ OrdersAccountedIn(f)
  BY <1>1, <1>2, FreeType, FreeAccounted
<1> HIDE DEF f
<1>4. OrdersAccountedIn(RemoveAndDestroyLevel(f, s, l))
  BY <1>3, DestroyType, DestroySame, SameOrdersAccounted
<1> QED
  BY <1>3, <1>4 DEF DeleteOrderInternal, u, f

\* An operation that an assertion stops.
LEMMA FailAccounted ==
    ASSUME NEW b \in Book, NEW why \in Faults, OrdersAccountedIn(b)
    PROVE  OrdersAccountedIn(Fail(b, why))
BY FailType, FailSame, SameOrdersAccounted

\* Steps 2-4 of add_order, for an id the map does not know.
LEMMA EnterAccounted ==
    ASSUME NEW b \in Book, NEW l \in LevelSlots, NEW id \in OrderIds,
           id \notin DOMAIN b.order_map, NEW s \in Sides, NEW p \in Nat, NEW q \in Qtys,
           OrdersAccountedIn(b)
    PROVE  OrdersAccountedIn(EnterOrder(b, l, id, s, p, q))
<1>1. \A why \in {"OrderPool", "MapFull"} : OrdersAccountedIn(Fail(b, why))
  BY FailAccounted DEF Faults, CapacityFaults
<1>2. CASE b.order_free # << >>
  <2> DEFINE c == PlaceOrder(b, id, s, p, q)
  <2>1. c \in Book /\ Head(b.order_free) \in OrderSlots /\ OrdersAccountedIn(c)
    BY <1>2, PlaceType, PlaceAccounted
  <2> HIDE DEF c
  <2>2. OrdersAccountedIn(AppendToLevel(c, l, Head(b.order_free), q))
    BY <2>1, AppendType, AppendSame, SameOrdersAccounted
  <2> QED
    BY <1>1, <2>2 DEF EnterOrder, c
<1> QED
  BY <1>1, <1>2 DEF EnterOrder

\* add_order; the assertion on known ids protects the accounting.
LEMMA AddAccounted ==
    ASSUME NEW b \in Book, NEW id \in OrderIds, NEW s \in Sides, NEW p \in Nat,
           NEW q \in Qtys, OrdersAccountedIn(b)
    PROVE  OrdersAccountedIn(AddOrder(b, id, s, p, q))
<1> DEFINE l == FindByPrice(b, s, p)
           new == Head(b.level_free)
           c == CreateLevel(b, s, p)
           d == InsertLevel(c, s, new)
<1>1. \A why \in {"Request", "LevelPool", "TickRange"} : OrdersAccountedIn(Fail(b, why))
  BY FailAccounted DEF Faults, CapacityFaults
<1>2. CASE id \notin DOMAIN b.order_map /\ l # kInvalid
  <2>1. l \in LevelSlots
    BY <1>2, FindType DEF LevelIdx
  <2>2. OrdersAccountedIn(EnterOrder(b, l, id, s, p, q))
    BY <1>2, <2>1, EnterAccounted
  <2> QED
    BY <1>1, <1>2, <2>2 DEF AddOrder
<1>3. CASE /\ id \notin DOMAIN b.order_map /\ l = kInvalid
           /\ b.level_free # << >> /\ p < MaxTicks
  <2>1. c \in Book /\ new \in LevelSlots /\ c.levels[new].price = p /\ SameOrders(b, c)
    BY <1>3, CreateType, CreateSame
  <2> HIDE DEF c
  <2>2. d \in Book /\ SameOrders(c, d)
    BY <1>3, <2>1, InsertType, InsertSame
  <2> HIDE DEF d
  <2>3. OrdersAccountedIn(d) /\ id \notin DOMAIN d.order_map
    BY <1>3, <2>1, <2>2, SameOrdersAccounted DEF SameOrders
  <2>4. OrdersAccountedIn(EnterOrder(d, new, id, s, p, q))
    BY <2>1, <2>2, <2>3, EnterAccounted
  <2> QED
    BY <1>1, <1>3, <2>4 DEF AddOrder, c, d
<1>4. CASE l = kInvalid /\ (b.level_free = << >> \/ ~(p < MaxTicks))
  BY <1>1, <1>4, CapacityAssumption DEF AddOrder
<1>5. CASE id \in DOMAIN b.order_map
  BY <1>1, <1>5 DEF AddOrder
<1> QED
  BY <1>2, <1>3, <1>4, <1>5

\* An id the map knows belongs to a live order.
LEMMA LookupLive ==
    ASSUME NEW b \in Book, NEW id \in DOMAIN b.order_map, OrdersAccountedIn(b)
    PROVE  b.order_map[id] \in Live(b)
<1>1. b.order_map[id] \in OrderSlots /\ b.orders[b.order_map[id]].order_id = id
  BY LookupType DEF OrdersAccountedIn
<1>2. id \in OrderIds
  BY DEF Book
<1> QED
  BY <1>1, <1>2, RequestAssumption DEF Live, kInvalid

\* cancel_order and execute_order.
LEMMA CancelAccounted ==
    ASSUME NEW b \in Book, NEW id \in OrderIds, NEW q \in Qtys, OrdersAccountedIn(b)
    PROVE  OrdersAccountedIn(CancelOrder(b, id, q))
<1> DEFINE i == b.order_map[id]
           o == b.orders[i]
           l == FindByPrice(b, o.side, o.price)
           less == [b EXCEPT !.orders[i].remaining_qty = @ - q]
           r == DropQty(less, l, q)
<1>1. \A why \in {"Request", "Internal"} : OrdersAccountedIn(Fail(b, why))
  BY FailAccounted DEF Faults
<1>2. CASE id \in DOMAIN b.order_map /\ q <= o.remaining_qty /\ l # kInvalid
  <2>1. i \in OrderSlots /\ i \in Live(b) /\ o \in Order
    BY <1>2, LookupType, LookupLive
  <2>2. l \in LevelSlots /\ o.side \in Sides
    BY <1>2, <2>1, FindType DEF Order, LevelIdx
  <2>3. [o EXCEPT !.remaining_qty = @ - q] \in Order
    BY <1>2, <2>1, RequestAssumption DEF Order, Qtys
  <2>4. less \in Book /\ SameOrders(b, less)
    BY <2>1, <2>3 DEF Book, SameOrders, Order
  <2> HIDE DEF less
  <2>5. r \in Book /\ SameOrders(less, r)
    BY <2>2, <2>4, DropType, DropSame
  <2> HIDE DEF r
  <2>6. OrdersAccountedIn(r) /\ i \in Live(r)
    BY <2>1, <2>4, <2>5, SameOrdersAccounted DEF SameOrders, Live
  <2>7. OrdersAccountedIn(DeleteOrderInternal(r, i, o.side, l))
    BY <2>2, <2>5, <2>6, DeleteInternalAccounted
  <2> QED
    BY <1>1, <2>6, <2>7 DEF CancelOrder, less, r
<1>3. CASE id \in DOMAIN b.order_map /\ q <= o.remaining_qty /\ l = kInvalid
  BY <1>1, <1>3 DEF CancelOrder
<1>4. CASE id \in DOMAIN b.order_map /\ q > o.remaining_qty
  BY <1>1, <1>4 DEF CancelOrder
<1>5. CASE id \notin DOMAIN b.order_map
  BY <1>1, <1>5 DEF CancelOrder
<1>6. id \in DOMAIN b.order_map => q <= o.remaining_qty \/ q > o.remaining_qty
  BY LookupType DEF Order, Qtys
<1> QED
  BY <1>2, <1>3, <1>4, <1>5, <1>6

\* delete_order.
LEMMA DeleteAccounted ==
    ASSUME NEW b \in Book, NEW id \in OrderIds, OrdersAccountedIn(b)
    PROVE  OrdersAccountedIn(DeleteOrder(b, id))
<1> DEFINE i == b.order_map[id]
           o == b.orders[i]
           l == FindByPrice(b, o.side, o.price)
           r == DropQty(b, l, o.remaining_qty)
<1>1. \A why \in {"Request", "Internal"} : OrdersAccountedIn(Fail(b, why))
  BY FailAccounted DEF Faults
<1>2. CASE id \in DOMAIN b.order_map /\ l # kInvalid
  <2>1. i \in OrderSlots /\ i \in Live(b) /\ o \in Order
    BY <1>2, LookupType, LookupLive
  <2>2. l \in LevelSlots /\ o.side \in Sides /\ o.remaining_qty \in Qtys
    BY <1>2, <2>1, FindType DEF Order, LevelIdx
  <2>3. r \in Book /\ SameOrders(b, r)
    BY <2>2, DropType, DropSame
  <2> HIDE DEF r
  <2>4. OrdersAccountedIn(r) /\ i \in Live(r)
    BY <2>1, <2>3, SameOrdersAccounted DEF SameOrders, Live
  <2>5. OrdersAccountedIn(DeleteOrderInternal(r, i, o.side, l))
    BY <2>2, <2>3, <2>4, DeleteInternalAccounted
  <2> QED
    BY <1>2, <2>5 DEF DeleteOrder, r
<1> QED
  BY <1>1, <1>2 DEF DeleteOrder

\* replace_order, with the same id or another.
LEMMA ReplaceAccounted ==
    ASSUME NEW b \in Book, NEW id \in OrderIds, NEW new \in OrderIds, NEW s \in Sides,
           NEW p \in Nat, NEW q \in Qtys, OrdersAccountedIn(b)
    PROVE  OrdersAccountedIn(ReplaceOrder(b, id, new, s, p, q))
BY DeleteType, DeleteAccounted, AddAccounted DEF ReplaceOrder, Then

\* modify_order, which may delete the id and add it again.
LEMMA ModifyAccounted ==
    ASSUME NEW b \in Book, NEW id \in OrderIds, NEW q \in Qtys, OrdersAccountedIn(b)
    PROVE  OrdersAccountedIn(ModifyOrder(b, id, q))
<1> DEFINE o == b.orders[b.order_map[id]]
           d == DeleteOrder(b, id)
<1>1. OrdersAccountedIn(Fail(b, "Request"))
  BY FailAccounted DEF Faults
<1>2. CASE id \in DOMAIN b.order_map
  <2>1. o \in Order /\ o.side \in Sides /\ o.price \in Nat /\ o.remaining_qty \in Qtys
    BY <1>2, LookupType DEF Order
  <2>2. q < o.remaining_qty => o.remaining_qty - q \in Qtys
    BY <2>1, RequestAssumption DEF Qtys
  <2>3. q < o.remaining_qty => OrdersAccountedIn(CancelOrder(b, id, o.remaining_qty - q))
    BY <2>2, CancelAccounted
  <2>4. OrdersAccountedIn(Then(d, AddOrder(d, id, o.side, o.price, q)))
    BY <2>1, DeleteType, DeleteAccounted, AddAccounted DEF Then
  <2> QED
    BY <1>2, <2>3, <2>4 DEF ModifyOrder
<1> QED
  BY <1>1, <1>2 DEF ModifyOrder

\* In a new book every slot is free, once, and the map is empty.
LEMMA InitAccounted == OrdersAccountedIn(InitialBook)
<1> DEFINE free == [i \in 1..MaxOrders |-> i - 1]
<1>1. /\ InitialBook.order_free = free
      /\ DOMAIN InitialBook.order_map = {}
      /\ \A i \in OrderSlots : InitialBook.orders[i].order_id = kInvalid
  BY DEF InitialBook, NoOrder
<1>2. NoDuplicates(free)
  BY CapacityAssumption DEF NoDuplicates
<1>3. \A i \in OrderSlots : i + 1 \in DOMAIN free /\ free[i + 1] = i
  BY CapacityAssumption DEF OrderSlots
<1>4. \A n \in DOMAIN free : free[n] \in OrderSlots
  BY CapacityAssumption DEF OrderSlots
<1> HIDE DEF free
<1>5. Slots(free) = OrderSlots
  BY <1>3, <1>4 DEF Slots
<1>6. Live(InitialBook) = {}
  BY <1>1 DEF Live
<1> QED
  BY <1>1, <1>2, <1>5, <1>6 DEF OrdersAccountedIn

\* Under every sequence of requests, legal or not, up to and including the one
\* an assertion rejects, no order slot leaks, none is handed out twice, and the
\* map resolves exactly the live orders to the slots that carry them.
THEOREM OrdersAlwaysAccounted == Spec => []OrdersAccounted
<1>1. Init => OrdersAccounted
  BY InitAccounted DEF Init, OrdersAccounted
<1>2. TypeOK /\ OrdersAccounted /\ [Next]_book => OrdersAccounted'
  <2> SUFFICES ASSUME book \in Book, OrdersAccountedIn(book), [Next]_book
               PROVE  OrdersAccountedIn(book')
    BY DEF TypeOK, OrdersAccounted
  <2>1. CASE Add
    BY <2>1, AddAccounted, RequestAssumption DEF Add
  <2>2. CASE Cancel
    BY <2>2, CancelAccounted DEF Cancel
  <2>3. CASE Execute
    BY <2>3, CancelAccounted DEF Execute, ExecuteOrder
  <2>4. CASE Delete
    BY <2>4, DeleteAccounted DEF Delete
  <2>5. CASE Replace
    BY <2>5, ReplaceAccounted, RequestAssumption DEF Replace
  <2>6. CASE Modify
    BY <2>6, ModifyAccounted DEF Modify
  <2>7. CASE UNCHANGED book
    BY <2>7
  <2> QED
    BY <2>1, <2>2, <2>3, <2>4, <2>5, <2>6, <2>7 DEF Next
<1> QED
  BY <1>1, <1>2, TypeCorrect, PTL DEF Spec
-----------------------------------------------------------------------------
(* Accounting of the level pool and agreement of the dense array with the  *)
(* tree.  Neither is inductive alone: closing a level keeps the accounting *)
(* only if find_by_price never answers with a level outside the tree.      *)

LevelsSound(b) == LevelsAccountedIn(b) /\ DenseExactIn(b)

SameLevels(b, c) ==
    /\ c.level_free = b.level_free
    /\ c.sides = b.sides
    /\ \A l \in LevelSlots : /\ c.levels[l].price = b.levels[l].price
                             /\ c.levels[l].side = b.levels[l].side

\* Levels stay sound when trees, dense arrays, free list, prices and sides do.
LEMMA SameLevelsSound ==
    ASSUME NEW b \in Book, NEW c \in Book, SameLevels(b, c), LevelsSound(b)
    PROVE  LevelsSound(c)
<1>1. LevelsAccountedIn(c)
  BY DEF SameLevels, LevelsSound, LevelsAccountedIn
<1>2. \A s \in Sides : b.sides[s].tree \subseteq LevelSlots
  BY DEF Book, Side
<1>3. DenseExactIn(c)
  BY <1>2 DEF SameLevels, LevelsSound, DenseExactIn
<1> QED
  BY <1>1, <1>3 DEF LevelsSound

\* An operation that an assertion stops.
LEMMA FailSameLevels ==
    ASSUME NEW b \in Book, NEW why \in Faults
    PROVE  SameLevels(b, Fail(b, why))
BY DEF Book, Fail, SameLevels

\* Taking an order slot touches no level.
LEMMA PlaceSameLevels ==
    ASSUME NEW b \in Book, NEW id \in OrderIds, NEW s \in Sides, NEW p \in Nat, NEW q \in Qtys
    PROVE  SameLevels(b, PlaceOrder(b, id, s, p, q))
BY DEF Book, PlaceOrder, SameLevels

\* The FIFO insertion changes list, count and total of a level only.
LEMMA AppendSameLevels ==
    ASSUME NEW b \in Book, NEW l \in LevelSlots, NEW i \in OrderSlots, NEW q \in Qtys
    PROVE  SameLevels(b, AppendToLevel(b, l, i, q))
<1> DEFINE c == AppendToLevel(b, l, i, q)
<1>1. /\ c.level_free = b.level_free /\ c.sides = b.sides
      /\ c.levels = [b.levels EXCEPT ![l] = WithOrder(b.levels[l], i, q)]
  BY DEF Book, AppendToLevel
<1>2. \A lvl \in Level : /\ WithOrder(lvl, i, q).price = lvl.price
                        /\ WithOrder(lvl, i, q).side = lvl.side
  BY DEF Level, WithOrder
<1>3. b.levels \in [LevelSlots -> Level]
  BY DEF Book
<1> HIDE DEF c
<1> QED
  BY <1>1, <1>2, <1>3 DEF SameLevels, c

\* Unlinking changes head and tail of a level only.
LEMMA UnlinkSameLevels ==
    ASSUME NEW b \in Book, NEW l \in LevelSlots, NEW i \in OrderSlots
    PROVE  SameLevels(b, Unlink(b, l, i))
<1> DEFINE next == b.orders[i].next_in_level
           preds == {j \in OrderSlots : /\ j \in Slots(Fifo(b, l))
                                        /\ b.orders[j].next_in_level = i}
           pred == CHOOSE j \in preds : TRUE
<1>1. b.levels \in [LevelSlots -> Level]
  BY DEF Book
<1>2. CASE b.levels[l].head_order_idx = i
  <2> DEFINE lvl == [b.levels[l] EXCEPT
                        !.head_order_idx = next,
                        !.tail_order_idx = IF next = kInvalid THEN kInvalid ELSE @]
             c == Unlink(b, l, i)
  <2>1. /\ c.level_free = b.level_free /\ c.sides = b.sides
        /\ c.levels = [b.levels EXCEPT ![l] = lvl]
    BY <1>2 DEF Book, Unlink
  <2>2. lvl.price = b.levels[l].price /\ lvl.side = b.levels[l].side
    BY <1>1 DEF Level
  <2> HIDE DEF lvl, c
  <2> QED
    BY <1>1, <2>1, <2>2 DEF SameLevels, c
<1>3. CASE b.levels[l].head_order_idx # i /\ preds # {}
  <2> DEFINE tail == IF next = kInvalid THEN pred ELSE b.levels[l].tail_order_idx
             lvl == [b.levels[l] EXCEPT !.tail_order_idx = tail]
             c == Unlink(b, l, i)
  <2>1. /\ c.level_free = b.level_free /\ c.sides = b.sides
        /\ c.levels = [b.levels EXCEPT ![l] = lvl]
    BY <1>3 DEF Book, Unlink
  <2> HIDE DEF tail
  <2>2. lvl.price = b.levels[l].price /\ lvl.side = b.levels[l].side
    BY <1>1 DEF Level
  <2> HIDE DEF lvl, c
  <2> QED
    BY <1>1, <2>1, <2>2 DEF SameLevels, c
<1>4. CASE b.levels[l].head_order_idx # i /\ preds = {}
  BY <1>4 DEF Unlink, SameLevels
<1> QED
  BY <1>2, <1>3, <1>4

\* Giving an order slot back changes the count of a level only.
LEMMA FreeSameLevels ==
    ASSUME NEW b \in Book, NEW l \in LevelSlots, NEW i \in OrderSlots
    PROVE  SameLevels(b, FreeOrder(b, l, i))
BY DEF Book, Level, FreeOrder, SameLevels

\* Taking quantity off changes the total of a level only.
LEMMA DropSameLevels ==
    ASSUME NEW b \in Book, NEW l \in LevelSlots, NEW q \in Qtys
    PROVE  SameLevels(b, DropQty(b, l, q))
BY DEF Book, Level, DropQty, SameLevels

\* find_by_price answers with a level of the tree, and with none only if the
\* tree has no level of that price.
LEMMA FindSound ==
    ASSUME NEW b \in Book, NEW s \in Sides, NEW p \in Nat, LevelsSound(b)
    PROVE  LET l == FindByPrice(b, s, p)
           IN  /\ l # kInvalid => l \in b.sides[s].tree /\ b.levels[l].price = p
               /\ l = kInvalid => \A m \in b.sides[s].tree : b.levels[m].price # p
<1>1. CASE DenseFind(b, s, p) # kInvalid
  <2>1. p \in 0..(MaxTicks - 1) /\ DenseFind(b, s, p) = b.sides[s].dense[p]
    BY <1>1, CapacityAssumption DEF DenseFind
  <2>2. DenseFind(b, s, p) \in LevelSlots
    <3>1. b.sides[s].dense \in [0..(MaxTicks - 1) -> LevelIdx]
      BY DEF Book, Side
    <3>2. b.sides[s].dense[p] \in LevelIdx
      BY <2>1, <3>1
    <3> QED
      BY <1>1, <2>1, <3>2 DEF LevelIdx
  <2>3. DenseFind(b, s, p) \in b.sides[s].tree /\ b.levels[DenseFind(b, s, p)].price = p
    BY <2>1, <2>2 DEF LevelsSound, DenseExactIn
  <2> QED
    BY <1>1, <2>3 DEF FindByPrice
<1>2. CASE DenseFind(b, s, p) = kInvalid
  <2> DEFINE found == {l \in b.sides[s].tree : b.levels[l].price = p}
  <2>1. FindByPrice(b, s, p) = IF found = {} THEN kInvalid ELSE CHOOSE l \in found : TRUE
    BY <1>2 DEF FindByPrice, AvlFind
  <2>2. \A l \in found : l # kInvalid
    BY DEF Book, Side, LevelSlots, kInvalid
  <2> QED
    BY <2>1, <2>2
<1> QED
  BY <1>1, <1>2

\* create_level followed by insert_level, for a price the side does not have.
LEMMA OpenSound ==
    ASSUME NEW b \in Book, NEW s \in Sides, NEW p \in Nat, LevelsSound(b),
           b.level_free # << >>, p < MaxTicks,
           \A m \in b.sides[s].tree : b.levels[m].price # p
    PROVE  LevelsSound(InsertLevel(CreateLevel(b, s, p), s, Head(b.level_free)))
<1> DEFINE l == Head(b.level_free)
           c == CreateLevel(b, s, p)
           d == InsertLevel(c, s, l)
<1>1. /\ b.level_free \in Seq(LevelSlots) /\ l \in LevelSlots
      /\ c \in Book /\ c.levels[l].price = p
  BY CreateType DEF Book
<1>2. /\ NoDuplicates(Tail(b.level_free)) /\ l \in Slots(b.level_free)
      /\ Slots(Tail(b.level_free)) = Slots(b.level_free) \ {l}
  BY <1>1, TailSlots DEF LevelsSound, LevelsAccountedIn
<1>3. /\ c.level_free = Tail(b.level_free) /\ c.sides = b.sides
      /\ c.levels[l].side = s
      /\ \A m \in LevelSlots \ {l} : c.levels[m] = b.levels[m]
  BY <1>1 DEF Book, CreateLevel
<1> HIDE DEF c
<1>4. /\ d.level_free = c.level_free /\ d.levels = c.levels
      /\ d.sides[s].tree = c.sides[s].tree \cup {l}
      /\ d.sides[s].dense = [c.sides[s].dense EXCEPT ![p] = l]
      /\ \A r \in Sides \ {s} : d.sides[r] = c.sides[r]
  BY <1>1 DEF Book, InsertLevel
<1> HIDE DEF d, l
<1>5. \A r \in Sides : l \notin b.sides[r].tree /\ b.sides[r].tree \subseteq LevelSlots
                       /\ b.sides[r].dense \in [0..(MaxTicks - 1) -> LevelIdx]
  BY <1>2 DEF LevelsSound, LevelsAccountedIn, Sides, Book, Side
<1>6. LevelsAccountedIn(d)
  BY <1>1, <1>2, <1>3, <1>4, <1>5 DEF LevelsSound, LevelsAccountedIn, Sides
<1>7. p \in 0..(MaxTicks - 1)
  BY CapacityAssumption
<1>8. ASSUME NEW r \in Sides, NEW t \in 0..(MaxTicks - 1), NEW m \in LevelSlots
      PROVE  d.sides[r].dense[t] = m <=> m \in d.sides[r].tree /\ d.levels[m].price = t
  <2>1. b.sides[r].dense[t] = m <=> m \in b.sides[r].tree /\ b.levels[m].price = t
    BY DEF LevelsSound, DenseExactIn
  <2>2. CASE r # s
    BY <1>1, <1>3, <1>4, <1>5, <2>1, <2>2
  <2>3. CASE r = s
    <3>1. d.sides[s].dense[t] = IF t = p THEN l ELSE b.sides[s].dense[t]
      <4>1. d.sides[s].dense = [b.sides[s].dense EXCEPT ![p] = l]
        BY <1>3, <1>4
      <4>2. b.sides[s].dense \in [0..(MaxTicks - 1) -> LevelIdx]
        BY <1>5
      <4> QED
        BY <4>1, <4>2
    <3>2. m \in d.sides[s].tree <=> m \in b.sides[s].tree \/ m = l
      BY <1>3, <1>4
    <3>3. m # l => d.levels[m] = b.levels[m]
      BY <1>3, <1>4
    <3>4. d.levels[l].price = p /\ l \notin b.sides[s].tree
      BY <1>1, <1>4, <1>5
    <3> QED
      BY <2>1, <2>3, <3>1, <3>2, <3>3, <3>4
  <2> QED
    BY <2>2, <2>3
<1>9. ASSUME NEW r \in Sides, NEW m \in d.sides[r].tree
      PROVE  d.levels[m].side = r /\ d.levels[m].price < MaxTicks
  <2>1. CASE r = s /\ m = l
    BY <1>1, <1>3, <1>4, <2>1
  <2>2. CASE ~(r = s /\ m = l)
    <3>1. m \in b.sides[r].tree /\ m \in LevelSlots \ {l}
      BY <1>3, <1>4, <1>5, <2>2
    <3> QED
      BY <1>3, <1>4, <3>1 DEF LevelsSound, DenseExactIn
  <2> QED
    BY <2>1, <2>2
<1> QED
  BY <1>6, <1>8, <1>9 DEF LevelsSound, DenseExactIn, c, d, l

\* remove_and_destroy_level, for a level of the side's tree.
LEMMA CloseSound ==
    ASSUME NEW b \in Book, NEW s \in Sides, NEW l \in b.sides[s].tree, LevelsSound(b)
    PROVE  LevelsSound(RemoveAndDestroyLevel(b, s, l))
<1>1. l \in LevelSlots
  BY DEF Book, Side
<1>2. LevelsSound(Fail(b, "Internal"))
  BY FailType, FailSameLevels, SameLevelsSound DEF Faults
<1> DEFINE c == RemoveLevel(b, s, l)
           d == [c EXCEPT !.level_free = <<l>> \o @, !.levels[l] = NoLevel]
           p == b.levels[l].price
<1>3. /\ c \in Book /\ c.level_free = b.level_free /\ c.levels = b.levels
      /\ c.sides[s].tree = b.sides[s].tree \ {l}
      /\ c.sides[s].dense = [b.sides[s].dense EXCEPT ![p] = kInvalid]
      /\ \A r \in Sides \ {s} : c.sides[r] = b.sides[r]
  <2>1. c \in Book /\ b.sides[s] \in Side
    BY <1>1, RemoveType DEF Book
  <2>2. c.level_free = b.level_free /\ c.levels = b.levels
    BY DEF Book, RemoveLevel
  <2>3. c.sides[s].tree = b.sides[s].tree \ {l}
    BY DEF Book, RemoveLevel
  <2>4. c.sides[s].dense = [b.sides[s].dense EXCEPT ![b.levels[l].price] = kInvalid]
    BY DEF Book, RemoveLevel
  <2>5. \A r \in Sides \ {s} : c.sides[r] = b.sides[r]
    BY DEF Book, RemoveLevel
  <2> QED
    BY <2>1, <2>2, <2>3, <2>4, <2>5
<1> HIDE DEF c
<1>4. /\ d.level_free = <<l>> \o b.level_free /\ d.sides = c.sides
      /\ d.levels[l] = NoLevel
      /\ \A m \in LevelSlots \ {l} : d.levels[m] = b.levels[m]
  BY <1>1, <1>3 DEF Book
<1> HIDE DEF d
<1>5. /\ b.level_free \in Seq(LevelSlots) /\ l \notin Slots(b.level_free)
      /\ NoDuplicates(b.level_free)
      /\ \A r \in Sides \ {s} : l \notin b.sides[r].tree
      /\ \A r \in Sides : /\ b.sides[r].tree \subseteq LevelSlots
                          /\ b.sides[r].dense \in [0..(MaxTicks - 1) -> LevelIdx]
  BY DEF LevelsSound, LevelsAccountedIn, Sides, Book, Side
<1>6. /\ NoDuplicates(<<l>> \o b.level_free)
      /\ Slots(<<l>> \o b.level_free) = Slots(b.level_free) \cup {l}
  BY <1>1, <1>5, PushSlots
<1>7. LevelsAccountedIn(d)
  BY <1>1, <1>3, <1>4, <1>5, <1>6 DEF LevelsSound, LevelsAccountedIn, Sides
<1>8. p \in 0..(MaxTicks - 1)
  BY <1>1, CapacityAssumption DEF LevelsSound, DenseExactIn, Book, Level
<1>9. ASSUME NEW r \in Sides, NEW t \in 0..(MaxTicks - 1), NEW m \in LevelSlots
      PROVE  d.sides[r].dense[t] = m <=> m \in d.sides[r].tree /\ d.levels[m].price = t
  <2>1. /\ b.sides[r].dense[t] = m <=> m \in b.sides[r].tree /\ b.levels[m].price = t
        /\ b.sides[s].dense[p] = l /\ m # kInvalid
    BY <1>1, <1>8 DEF LevelsSound, DenseExactIn, LevelSlots, kInvalid
  <2>2. CASE r # s
    BY <1>1, <1>3, <1>4, <1>5, <2>1, <2>2
  <2>3. CASE r = s
    <3>1. d.sides[s].dense[t] = IF t = p THEN kInvalid ELSE b.sides[s].dense[t]
      <4>1. d.sides[s].dense = [b.sides[s].dense EXCEPT ![p] = kInvalid]
        BY <1>3, <1>4
      <4>2. b.sides[s].dense \in [0..(MaxTicks - 1) -> LevelIdx]
        BY <1>5
      <4> QED
        BY <4>1, <4>2
    <3>2. m \in d.sides[s].tree <=> m \in b.sides[s].tree /\ m # l
      BY <1>3, <1>4
    <3>3. m # l => d.levels[m] = b.levels[m]
      BY <1>4
    <3> QED
      BY <2>1, <2>3, <3>1, <3>2, <3>3
  <2> QED
    BY <2>2, <2>3
<1>10. ASSUME NEW r \in Sides, NEW m \in d.sides[r].tree
       PROVE  d.levels[m].side = r /\ d.levels[m].price < MaxTicks
  <2>1. m \in b.sides[r].tree /\ m \in LevelSlots \ {l}
    BY <1>3, <1>4, <1>5
  <2> QED
    BY <1>4, <2>1 DEF LevelsSound, DenseExactIn
<1>11. LevelsSound(d)
  BY <1>7, <1>9, <1>10 DEF LevelsSound, DenseExactIn
<1> QED
  BY <1>2, <1>11 DEF RemoveAndDestroyLevel, c, d
-----------------------------------------------------------------------------
(* The operations.                                                         *)

\* An operation that an assertion stops.
LEMMA FailSound ==
    ASSUME NEW b \in Book, NEW why \in Faults, LevelsSound(b)
    PROVE  LevelsSound(Fail(b, why))
BY FailType, FailSameLevels, SameLevelsSound

\* Steps 2-4 of add_order.
LEMMA EnterSound ==
    ASSUME NEW b \in Book, NEW l \in LevelSlots, NEW id \in OrderIds,
           NEW s \in Sides, NEW p \in Nat, NEW q \in Qtys, LevelsSound(b)
    PROVE  LevelsSound(EnterOrder(b, l, id, s, p, q))
<1>1. \A why \in {"OrderPool", "MapFull"} : LevelsSound(Fail(b, why))
  BY FailSound DEF Faults, CapacityFaults
<1>2. CASE b.order_free # << >>
  <2> DEFINE c == PlaceOrder(b, id, s, p, q)
  <2>1. c \in Book /\ Head(b.order_free) \in OrderSlots /\ LevelsSound(c)
    BY <1>2, PlaceType, PlaceSameLevels, SameLevelsSound
  <2> HIDE DEF c
  <2>2. LevelsSound(AppendToLevel(c, l, Head(b.order_free), q))
    BY <2>1, AppendType, AppendSameLevels, SameLevelsSound
  <2> QED
    BY <1>1, <2>2 DEF EnterOrder, c
<1> QED
  BY <1>1, <1>2 DEF EnterOrder

\* add_order: a level is opened only for a price find_by_price did not find.
LEMMA AddSound ==
    ASSUME NEW b \in Book, NEW id \in OrderIds, NEW s \in Sides, NEW p \in Nat,
           NEW q \in Qtys, LevelsSound(b)
    PROVE  LevelsSound(AddOrder(b, id, s, p, q))
<1> DEFINE l == FindByPrice(b, s, p)
           new == Head(b.level_free)
           c == CreateLevel(b, s, p)
           d == InsertLevel(c, s, new)
<1>1. \A why \in {"Request", "LevelPool", "TickRange"} : LevelsSound(Fail(b, why))
  BY FailSound DEF Faults, CapacityFaults
<1>2. CASE l # kInvalid
  <2>1. l \in LevelSlots
    BY <1>2, FindType DEF LevelIdx
  <2>2. LevelsSound(EnterOrder(b, l, id, s, p, q))
    BY <2>1, EnterSound
  <2> QED
    BY <1>1, <1>2, <2>2 DEF AddOrder
<1>3. CASE l = kInvalid /\ b.level_free # << >> /\ p < MaxTicks
  <2>1. c \in Book /\ new \in LevelSlots /\ c.levels[new].price = p
    BY <1>3, CreateType
  <2>2. d \in Book
    BY <1>3, <2>1, InsertType
  <2>3. LevelsSound(d)
    BY <1>3, FindSound, OpenSound
  <2> HIDE DEF d
  <2>4. LevelsSound(EnterOrder(d, new, id, s, p, q))
    BY <2>1, <2>2, <2>3, EnterSound
  <2> QED
    BY <1>1, <1>3, <2>4 DEF AddOrder, d
<1>4. CASE l = kInvalid /\ (b.level_free = << >> \/ ~(p < MaxTicks))
  BY <1>1, <1>4, CapacityAssumption DEF AddOrder
<1> QED
  BY <1>2, <1>3, <1>4

\* delete_order_internal closes a level of the tree it was found in.
LEMMA DeleteInternalSound ==
    ASSUME NEW b \in Book, NEW i \in OrderSlots, NEW s \in Sides,
           NEW l \in b.sides[s].tree, LevelsSound(b)
    PROVE  LevelsSound(DeleteOrderInternal(b, i, s, l))
<1> DEFINE u == Unlink(b, l, i)
           f == FreeOrder(u, l, i)
<1>1. l \in LevelSlots
  BY DEF Book, Side
<1>2. u \in Book /\ SameLevels(b, u)
  BY <1>1, UnlinkType, UnlinkSameLevels
<1> HIDE DEF u
<1>3. f \in Book /\ SameLevels(u, f)
  BY <1>1, <1>2, FreeType, FreeSameLevels
<1> HIDE DEF f
<1>4. LevelsSound(f) /\ l \in f.sides[s].tree
  BY <1>2, <1>3, SameLevelsSound DEF SameLevels
<1>5. LevelsSound(RemoveAndDestroyLevel(f, s, l))
  BY <1>3, <1>4, CloseSound
<1> QED
  BY <1>4, <1>5 DEF DeleteOrderInternal, u, f

\* cancel_order and execute_order.
LEMMA CancelSound ==
    ASSUME NEW b \in Book, NEW id \in OrderIds, NEW q \in Qtys, LevelsSound(b)
    PROVE  LevelsSound(CancelOrder(b, id, q))
<1> DEFINE i == b.order_map[id]
           o == b.orders[i]
           l == FindByPrice(b, o.side, o.price)
           less == [b EXCEPT !.orders[i].remaining_qty = @ - q]
           r == DropQty(less, l, q)
<1>1. \A why \in {"Request", "Internal"} : LevelsSound(Fail(b, why))
  BY FailSound DEF Faults
<1>2. CASE id \in DOMAIN b.order_map /\ q <= o.remaining_qty /\ l # kInvalid
  <2>1. i \in OrderSlots /\ o \in Order
    BY <1>2, LookupType
  <2>2. l \in LevelSlots /\ o.side \in Sides /\ l \in b.sides[o.side].tree
    BY <1>2, <2>1, FindType, FindSound DEF Order, LevelIdx
  <2>3. [o EXCEPT !.remaining_qty = @ - q] \in Order
    BY <1>2, <2>1, RequestAssumption DEF Order, Qtys
  <2>4. less \in Book /\ SameLevels(b, less)
    BY <2>1, <2>3 DEF Book, SameLevels
  <2> HIDE DEF less
  <2>5. r \in Book /\ SameLevels(less, r)
    BY <2>2, <2>4, DropType, DropSameLevels
  <2> HIDE DEF r
  <2>6. LevelsSound(r) /\ l \in r.sides[o.side].tree
    BY <2>2, <2>4, <2>5, SameLevelsSound DEF SameLevels
  <2>7. LevelsSound(DeleteOrderInternal(r, i, o.side, l))
    BY <2>1, <2>2, <2>5, <2>6, DeleteInternalSound
  <2> QED
    BY <1>1, <2>6, <2>7 DEF CancelOrder, less, r
<1>3. CASE id \in DOMAIN b.order_map /\ q <= o.remaining_qty /\ l = kInvalid
  BY <1>1, <1>3 DEF CancelOrder
<1>4. CASE id \in DOMAIN b.order_map /\ q > o.remaining_qty
  BY <1>1, <1>4 DEF CancelOrder
<1>5. CASE id \notin DOMAIN b.order_map
  BY <1>1, <1>5 DEF CancelOrder
<1>6. id \in DOMAIN b.order_map => q <= o.remaining_qty \/ q > o.remaining_qty
  BY LookupType DEF Order, Qtys
<1> QED
  BY <1>2, <1>3, <1>4, <1>5, <1>6

\* delete_order.
LEMMA DeleteSound ==
    ASSUME NEW b \in Book, NEW id \in OrderIds, LevelsSound(b)
    PROVE  LevelsSound(DeleteOrder(b, id))
<1> DEFINE i == b.order_map[id]
           o == b.orders[i]
           l == FindByPrice(b, o.side, o.price)
           r == DropQty(b, l, o.remaining_qty)
<1>1. \A why \in {"Request", "Internal"} : LevelsSound(Fail(b, why))
  BY FailSound DEF Faults
<1>2. CASE id \in DOMAIN b.order_map /\ l # kInvalid
  <2>1. i \in OrderSlots /\ o \in Order
    BY <1>2, LookupType
  <2>2. /\ l \in LevelSlots /\ o.side \in Sides /\ o.remaining_qty \in Qtys
        /\ l \in b.sides[o.side].tree
    BY <1>2, <2>1, FindType, FindSound DEF Order, LevelIdx
  <2>3. r \in Book /\ SameLevels(b, r)
    BY <2>2, DropType, DropSameLevels
  <2> HIDE DEF r
  <2>4. LevelsSound(r) /\ l \in r.sides[o.side].tree
    BY <2>2, <2>3, SameLevelsSound DEF SameLevels
  <2>5. LevelsSound(DeleteOrderInternal(r, i, o.side, l))
    BY <2>1, <2>2, <2>3, <2>4, DeleteInternalSound
  <2> QED
    BY <1>2, <2>5 DEF DeleteOrder, r
<1> QED
  BY <1>1, <1>2 DEF DeleteOrder

\* replace_order.
LEMMA ReplaceSound ==
    ASSUME NEW b \in Book, NEW id \in OrderIds, NEW new \in OrderIds, NEW s \in Sides,
           NEW p \in Nat, NEW q \in Qtys, LevelsSound(b)
    PROVE  LevelsSound(ReplaceOrder(b, id, new, s, p, q))
BY DeleteType, DeleteSound, AddSound DEF ReplaceOrder, Then

\* modify_order.
LEMMA ModifySound ==
    ASSUME NEW b \in Book, NEW id \in OrderIds, NEW q \in Qtys, LevelsSound(b)
    PROVE  LevelsSound(ModifyOrder(b, id, q))
<1> DEFINE o == b.orders[b.order_map[id]]
           d == DeleteOrder(b, id)
<1>1. LevelsSound(Fail(b, "Request"))
  BY FailSound DEF Faults
<1>2. CASE id \in DOMAIN b.order_map
  <2>1. o \in Order /\ o.side \in Sides /\ o.price \in Nat /\ o.remaining_qty \in Qtys
    BY <1>2, LookupType DEF Order
  <2>2. q < o.remaining_qty => o.remaining_qty - q \in Qtys
    BY <2>1, RequestAssumption DEF Qtys
  <2>3. q < o.remaining_qty => LevelsSound(CancelOrder(b, id, o.remaining_qty - q))
    BY <2>2, CancelSound
  <2>4. LevelsSound(Then(d, AddOrder(d, id, o.side, o.price, q)))
    BY <2>1, DeleteType, DeleteSound, AddSound DEF Then
  <2> QED
    BY <1>2, <2>3, <2>4 DEF ModifyOrder
<1> QED
  BY <1>1, <1>2 DEF ModifyOrder

\* In a new book every level slot is free, once, and no price has a level.
LEMMA InitSound == LevelsSound(InitialBook)
<1> DEFINE free == [l \in 1..MaxLevels |-> l - 1]
<1>1. /\ InitialBook.level_free = free
      /\ \A s \in Sides : /\ InitialBook.sides[s].tree = {}
                          /\ \A t \in 0..(MaxTicks - 1) :
                                InitialBook.sides[s].dense[t] = kInvalid
  BY DEF InitialBook
<1>2. NoDuplicates(free)
  BY CapacityAssumption DEF NoDuplicates
<1>3. \A l \in LevelSlots : l + 1 \in DOMAIN free /\ free[l + 1] = l
  BY CapacityAssumption DEF LevelSlots
<1>4. \A n \in DOMAIN free : free[n] \in LevelSlots
  BY CapacityAssumption DEF LevelSlots
<1> HIDE DEF free
<1>5. Slots(free) = LevelSlots
  BY <1>3, <1>4 DEF Slots
<1>6. \A l \in LevelSlots : l # kInvalid
  BY DEF LevelSlots, kInvalid
<1>7. LevelsAccountedIn(InitialBook)
  BY <1>1, <1>2, <1>5 DEF LevelsAccountedIn, Sides
<1>8. DenseExactIn(InitialBook)
  BY <1>1, <1>6 DEF DenseExactIn
<1> QED
  BY <1>7, <1>8 DEF LevelsSound

\* Every reachable book has its level slots accounted for and its dense arrays
\* in agreement with its trees.
THEOREM LevelsAlwaysSound == Spec => [](LevelsAccounted /\ DenseExact)
<1>1. Init => LevelsSound(book)
  BY InitSound DEF Init
<1>2. TypeOK /\ LevelsSound(book) /\ [Next]_book => LevelsSound(book)'
  <2> SUFFICES ASSUME book \in Book, LevelsSound(book), [Next]_book
               PROVE  LevelsSound(book')
    BY DEF TypeOK
  <2>1. CASE Add
    BY <2>1, AddSound, RequestAssumption DEF Add
  <2>2. CASE Cancel
    BY <2>2, CancelSound DEF Cancel
  <2>3. CASE Execute
    BY <2>3, CancelSound DEF Execute, ExecuteOrder
  <2>4. CASE Delete
    BY <2>4, DeleteSound DEF Delete
  <2>5. CASE Replace
    BY <2>5, ReplaceSound, RequestAssumption DEF Replace
  <2>6. CASE Modify
    BY <2>6, ModifySound DEF Modify
  <2>7. CASE UNCHANGED book
    BY <2>7
  <2> QED
    BY <2>1, <2>2, <2>3, <2>4, <2>5, <2>6, <2>7 DEF Next
<1>3. LevelsSound(book) => LevelsAccounted /\ DenseExact
  BY DEF LevelsSound, LevelsAccounted, DenseExact
<1> QED
  BY <1>1, <1>2, <1>3, TypeCorrect, PTL DEF Spec

\* No level slot leaks, none is handed out twice, and none stands for a price on
\* both sides, under every sequence of requests.
THEOREM LevelsAlwaysAccounted == Spec => []LevelsAccounted
BY LevelsAlwaysSound, PTL

\* The O(1) path of find_by_price agrees with the tree on every price and can
\* never return a level that was destroyed or recycled for another price.
THEOREM DenseAlwaysExact == Spec => []DenseExact
BY LevelsAlwaysSound, PTL
-----------------------------------------------------------------------------
(* The cached best level, and the orders of a level.  The best level is the*)
(* best of the tree; that it is the best of the live orders needs that the *)
(* tree has a level for every live order and for no other price, which     *)
(* destroy_level's condition, order_count = 0, keeps only if the counts are*)
(* those of the live orders.                                               *)

OrdersAt(b, s, p) == {i \in Live(b) : b.orders[i].side = s /\ b.orders[i].price = p}

CountsIn(b) ==
    \A s \in Sides : \A l \in b.sides[s].tree :
        b.levels[l].order_count = Cardinality(OrdersAt(b, s, b.levels[l].price))

\* Every level but x, which is being opened or emptied, has an order ...
InhabitedBut(b, x) ==
    \A s \in Sides : \A l \in b.sides[s].tree \ {x} :
        OrdersAt(b, s, b.levels[l].price) # {}

\* ... and every order a level.
Housed(b) ==
    \A i \in Live(b) : \E l \in b.sides[b.orders[i].side].tree :
        b.levels[l].price = b.orders[i].price

IsBest(b, s, l) ==
    \A m \in b.sides[s].tree : ~Better(s, b.levels[m].price, b.levels[l].price)

BestCached(b) ==
    \A s \in Sides : IF b.sides[s].tree = {} THEN b.sides[s].bbo = kInvalid
                     ELSE b.sides[s].bbo \in b.sides[s].tree /\ IsBest(b, s, b.sides[s].bbo)

SettledBut(b, x) == CountsIn(b) /\ InhabitedBut(b, x) /\ Housed(b) /\ BestCached(b)

\* What holds of a book between two requests, unless an assertion has failed.
Settled(b) == b.fault = "None" => SettledBut(b, kInvalid)
BookSound(b) == OrdersAccountedIn(b) /\ LevelsSound(b) /\ Settled(b)
-----------------------------------------------------------------------------
(* Finite sets, least elements and the best level.                         *)

\* Every set of naturals has a least element.
LEMMA LeastNatural ==
    ASSUME NEW S \in SUBSET Nat, S # {}
    PROVE  \E n \in S : \A m \in S : n <= m
<1>1. PICK x \in S : \A y \in S : ~ (<<y, x>> \in OpToRel(<, Nat))
  BY NatLessThanWellFounded, WFMin
<1>2. \A y \in S : ~(y < x)
  BY <1>1 DEF OpToRel
<1> QED
  BY <1>2

\* The levels of a tree are level slots, with prices inside the dense array,
\* and no two have one price.
LEMMA TreeLevels ==
    ASSUME NEW b \in Book, NEW s \in Sides, LevelsSound(b)
    PROVE  /\ b.sides[s].tree \subseteq LevelSlots
           /\ \A l \in b.sides[s].tree : b.levels[l].price \in 0..(MaxTicks - 1)
           /\ \A l, m \in b.sides[s].tree : b.levels[l].price = b.levels[m].price => l = m
<1>1. b.sides[s].tree \subseteq LevelSlots
  BY DEF Book, Side
<1>2. \A l \in b.sides[s].tree : b.levels[l].price \in 0..(MaxTicks - 1)
  BY <1>1, CapacityAssumption DEF Book, Level, LevelsSound, DenseExactIn
<1>3. \A l \in b.sides[s].tree : b.sides[s].dense[b.levels[l].price] = l
  BY <1>1, <1>2 DEF LevelsSound, DenseExactIn
<1> QED
  BY <1>1, <1>2, <1>3

\* avl::find_max and avl::find_min find the best level of a tree that is not
\* empty.
LEMMA BestOfExact ==
    ASSUME NEW b \in Book, NEW s \in Sides, NEW T \in SUBSET LevelSlots, T # {},
           \A l \in T : b.levels[l].price < MaxTicks
    PROVE  /\ BestOf(b, s, T) \in T
           /\ \A m \in T : ~Better(s, b.levels[m].price, b.levels[BestOf(b, s, T)].price)
<1> DEFINE best == {l \in T : \A m \in T : ~Better(s, b.levels[m].price, b.levels[l].price)}
<1>1. \A l \in T : b.levels[l].price \in Nat
  BY DEF Book, Level
<1>2. best # {}
  <2>1. CASE s = 1
    <3> DEFINE prices == {b.levels[l].price : l \in T}
    <3>1. prices \in SUBSET Nat /\ prices # {}
      BY <1>1
    <3>2. PICK n \in prices : \A m \in prices : n <= m
      BY <3>1, LeastNatural
    <3>3. \A m \in T : n <= b.levels[m].price
      BY <3>2
    <3>4. PICK l \in T : b.levels[l].price = n
      BY <3>2
    <3>5. \A m \in T : ~(b.levels[m].price < b.levels[l].price)
      BY <1>1, <3>3, <3>4
    <3> QED
      BY <2>1, <3>5 DEF Better
  <2>2. CASE s = 0
    <3> DEFINE gaps == {MaxTicks - b.levels[l].price : l \in T}
    <3>1. gaps \in SUBSET Nat /\ gaps # {}
      BY <1>1, CapacityAssumption
    <3>2. PICK n \in gaps : \A m \in gaps : n <= m
      BY <3>1, LeastNatural
    <3>3. \A m \in T : n <= MaxTicks - b.levels[m].price
      BY <3>2
    <3>4. PICK l \in T : MaxTicks - b.levels[l].price = n
      BY <3>2
    <3>5. \A m \in T : ~(b.levels[m].price > b.levels[l].price)
      BY <1>1, <3>3, <3>4, CapacityAssumption
    <3> QED
      BY <2>2, <3>5 DEF Better
  <2> QED
    BY <2>1, <2>2 DEF Sides
<1>3. BestOf(b, s, T) = CHOOSE l \in best : TRUE
  BY <1>2 DEF BestOf
<1>4. BestOf(b, s, T) \in best
  BY <1>2, <1>3
<1> QED
  BY <1>4

\* The orders of a price are finitely many, and there is none iff their number
\* is zero.
LEMMA OrdersAtFinite ==
    ASSUME NEW b, NEW s, NEW p
    PROVE  /\ IsFiniteSet(OrdersAt(b, s, p))
           /\ Cardinality(OrdersAt(b, s, p)) \in Nat
           /\ Cardinality(OrdersAt(b, s, p)) = 0 <=> OrdersAt(b, s, p) = {}
<1>1. IsFiniteSet(OrderSlots)
  BY CapacityAssumption, FS_Interval DEF OrderSlots
<1>2. OrdersAt(b, s, p) \subseteq OrderSlots
  BY DEF OrdersAt, Live
<1>3. IsFiniteSet(OrdersAt(b, s, p))
  BY <1>1, <1>2, FS_Subset
<1> QED
  BY <1>3, FS_CardinalityType, FS_EmptySet
-----------------------------------------------------------------------------
(* The steps the operations are made of.                                   *)

SameContents(b, c) ==
    /\ c.sides = b.sides /\ c.fault = b.fault
    /\ \A l \in LevelSlots : /\ c.levels[l].price = b.levels[l].price
                             /\ c.levels[l].order_count = b.levels[l].order_count
    /\ \A i \in OrderSlots : /\ c.orders[i].order_id = b.orders[i].order_id
                             /\ c.orders[i].price = b.orders[i].price
                             /\ c.orders[i].side = b.orders[i].side

\* What is settled stays so when neither trees nor counts nor the sides and
\* prices of orders change.
LEMMA SameContentsSettled ==
    ASSUME NEW b \in Book, NEW c \in Book, SameContents(b, c), NEW x, SettledBut(b, x)
    PROVE  SettledBut(c, x)
<1>1. Live(c) = Live(b) /\ Live(b) \subseteq OrderSlots
  BY DEF SameContents, Live
<1>2. \A s, p : OrdersAt(c, s, p) = OrdersAt(b, s, p)
  BY <1>1 DEF OrdersAt, SameContents
<1>3. \A s \in Sides : b.sides[s].tree \subseteq LevelSlots
  BY DEF Book, Side
<1>4. \A i \in OrderSlots : b.orders[i].side \in Sides
  BY DEF Book, Order
<1>5. CountsIn(c) /\ InhabitedBut(c, x)
  BY <1>2, <1>3 DEF SettledBut, CountsIn, InhabitedBut, SameContents
<1>6. Housed(c)
  BY <1>1, <1>3, <1>4 DEF SettledBut, Housed, SameContents
<1>7. BestCached(c)
  BY <1>3 DEF SettledBut, BestCached, IsBest, SameContents
<1> QED
  BY <1>5, <1>6, <1>7 DEF SettledBut

\* Unlinking a slot changes links only.
LEMMA UnlinkSameContents ==
    ASSUME NEW b \in Book, NEW l \in LevelSlots, NEW i \in OrderSlots
    PROVE  SameContents(b, Unlink(b, l, i))
<1> DEFINE next == b.orders[i].next_in_level
           preds == {j \in OrderSlots : /\ j \in Slots(Fifo(b, l))
                                        /\ b.orders[j].next_in_level = i}
           pred == CHOOSE j \in preds : TRUE
<1>1. b.levels \in [LevelSlots -> Level] /\ b.orders \in [OrderSlots -> Order]
  BY DEF Book
<1>2. CASE b.levels[l].head_order_idx = i
  <2> DEFINE lvl == [b.levels[l] EXCEPT
                        !.head_order_idx = next,
                        !.tail_order_idx = IF next = kInvalid THEN kInvalid ELSE @]
             c == Unlink(b, l, i)
  <2>1. /\ c.fault = b.fault /\ c.sides = b.sides /\ c.orders = b.orders
        /\ c.levels = [b.levels EXCEPT ![l] = lvl]
    BY <1>2 DEF Book, Unlink
  <2>2. lvl.price = b.levels[l].price /\ lvl.order_count = b.levels[l].order_count
    BY <1>1 DEF Level
  <2> HIDE DEF lvl, c
  <2> QED
    BY <1>1, <2>1, <2>2 DEF SameContents, c
<1>3. CASE b.levels[l].head_order_idx # i /\ preds # {}
  <2> DEFINE lvl == [b.levels[l] EXCEPT
                        !.tail_order_idx = IF next = kInvalid THEN pred ELSE @]
             o == [b.orders[pred] EXCEPT !.next_in_level = next]
             c == Unlink(b, l, i)
  <2>1. pred \in OrderSlots
    BY <1>3
  <2>2. /\ c.fault = b.fault /\ c.sides = b.sides
        /\ c.orders = [b.orders EXCEPT ![pred] = o]
        /\ c.levels = [b.levels EXCEPT ![l] = lvl]
    BY <1>3 DEF Book, Unlink
  <2>3. lvl.price = b.levels[l].price /\ lvl.order_count = b.levels[l].order_count
    BY <1>1 DEF Level
  <2>4. /\ o.order_id = b.orders[pred].order_id /\ o.price = b.orders[pred].price
        /\ o.side = b.orders[pred].side
    BY <1>1, <2>1 DEF Order
  <2> HIDE DEF lvl, c, o, pred
  <2> QED
    BY <1>1, <2>1, <2>2, <2>3, <2>4 DEF SameContents, c
<1>4. CASE b.levels[l].head_order_idx # i /\ preds = {}
  BY <1>4 DEF Unlink, SameContents
<1> QED
  BY <1>2, <1>3, <1>4

\* Taking quantity off a level changes its total only.
LEMMA DropSameContents ==
    ASSUME NEW b \in Book, NEW l \in LevelSlots, NEW q \in Qtys
    PROVE  SameContents(b, DropQty(b, l, q))
BY DEF Book, Level, DropQty, SameContents

\* Place and append, together: one more order at its side and price, and one
\* more in its level's count.
LEMMA EnteredContents ==
    ASSUME NEW b \in Book, b.order_free # << >>, OrdersAccountedIn(b),
           NEW l \in LevelSlots, NEW id \in OrderIds,
           NEW s \in Sides, NEW p \in Nat, NEW q \in Qtys
    PROVE  LET i == Head(b.order_free)
               c == AppendToLevel(PlaceOrder(b, id, s, p, q), l, i, q)
           IN  /\ c.sides = b.sides /\ c.fault = b.fault
               /\ i \in OrderSlots /\ i \notin Live(b) /\ Live(c) = Live(b) \cup {i}
               /\ \A m \in LevelSlots :
                    /\ c.levels[m].price = b.levels[m].price
                    /\ c.levels[m].order_count =
                            IF m = l THEN b.levels[m].order_count + 1
                            ELSE b.levels[m].order_count
               /\ c.orders[i].side = s /\ c.orders[i].price = p
               /\ \A j \in OrderSlots \ {i} : /\ c.orders[j].side = b.orders[j].side
                                              /\ c.orders[j].price = b.orders[j].price
<1> DEFINE i == Head(b.order_free)
           a == PlaceOrder(b, id, s, p, q)
           c == AppendToLevel(a, l, i, q)
<1>1. i \in OrderSlots /\ a \in Book /\ b.order_free \in Seq(OrderSlots)
  BY PlaceType DEF Book
<1>2. i \notin Live(b)
  BY <1>1, TailSlots DEF OrdersAccountedIn
<1>3. /\ a.sides = b.sides /\ a.fault = b.fault /\ a.levels = b.levels
      /\ a.orders[i].order_id = id /\ a.orders[i].side = s /\ a.orders[i].price = p
      /\ \A j \in OrderSlots \ {i} : a.orders[j] = b.orders[j]
  BY <1>1 DEF PlaceOrder, Book
<1> HIDE DEF a, i
<1>4. /\ c.sides = a.sides /\ c.fault = a.fault
      /\ c.levels = [a.levels EXCEPT ![l] = WithOrder(a.levels[l], i, q)]
      /\ c.orders = LinkedFrom(a.orders, a.levels[l].tail_order_idx, i)
  BY <1>1 DEF Book, AppendToLevel
<1>5. \A tail : \A j \in OrderSlots :
        /\ LinkedFrom(a.orders, tail, i)[j].order_id = a.orders[j].order_id
        /\ LinkedFrom(a.orders, tail, i)[j].side = a.orders[j].side
        /\ LinkedFrom(a.orders, tail, i)[j].price = a.orders[j].price
  BY <1>1 DEF Book, Order, LinkedFrom
<1>6. /\ WithOrder(a.levels[l], i, q).price = a.levels[l].price
      /\ WithOrder(a.levels[l], i, q).order_count = a.levels[l].order_count + 1
  BY <1>1 DEF Book, Level, WithOrder
<1> HIDE DEF c
<1>7. \A m \in LevelSlots : /\ c.levels[m].price = b.levels[m].price
                            /\ c.levels[m].order_count =
                                    IF m = l THEN b.levels[m].order_count + 1
                                    ELSE b.levels[m].order_count
  BY <1>1, <1>3, <1>4, <1>6 DEF Book
<1>8. id # kInvalid
  BY RequestAssumption DEF kInvalid
<1>9. \A j \in OrderSlots : c.orders[j].order_id = a.orders[j].order_id
  BY <1>4, <1>5
<1>10. Live(c) = Live(b) \cup {i}
  BY <1>1, <1>3, <1>8, <1>9 DEF Live
<1> QED
  BY <1>1, <1>2, <1>3, <1>4, <1>5, <1>7, <1>10 DEF a, c, i

\* Steps 2-4 of add_order, on a level of the order's side and price.
LEMMA EnterSettled ==
    ASSUME NEW b \in Book, OrdersAccountedIn(b), LevelsSound(b),
           NEW s \in Sides, NEW l \in b.sides[s].tree, SettledBut(b, l),
           NEW id \in OrderIds, NEW q \in Qtys
    PROVE  Settled(EnterOrder(b, l, id, s, b.levels[l].price, q))
<1> DEFINE p == b.levels[l].price
           i == Head(b.order_free)
           c == AppendToLevel(PlaceOrder(b, id, s, p, q), l, i, q)
<1>1. l \in LevelSlots /\ p \in Nat
  BY TreeLevels
<1>2. CASE b.order_free = << >> \/ MapRefuses(b)
  <2>1. \A why \in {"OrderPool", "MapFull"} : Fail(b, why).fault # "None"
    BY DEF Fail, Book
  <2> QED
    BY <1>2, <2>1 DEF EnterOrder, Settled
<1>3. CASE b.order_free # << >> /\ ~MapRefuses(b)
  <2>1. EnterOrder(b, l, id, s, p, q) = c
    BY <1>3 DEF EnterOrder
  <2> HIDE DEF p
  <2>2. /\ c.sides = b.sides
        /\ i \in OrderSlots /\ i \notin Live(b) /\ Live(c) = Live(b) \cup {i}
        /\ \A m \in LevelSlots :
             /\ c.levels[m].price = b.levels[m].price
             /\ c.levels[m].order_count = IF m = l THEN b.levels[m].order_count + 1
                                          ELSE b.levels[m].order_count
        /\ c.orders[i].side = s /\ c.orders[i].price = p
        /\ \A j \in OrderSlots \ {i} : /\ c.orders[j].side = b.orders[j].side
                                       /\ c.orders[j].price = b.orders[j].price
    BY <1>1, <1>3, EnteredContents
  <2> HIDE DEF c, i
  <2>3. \A r, t : OrdersAt(c, r, t) = IF r = s /\ t = p THEN OrdersAt(b, r, t) \cup {i}
                                     ELSE OrdersAt(b, r, t)
    BY <2>2 DEF OrdersAt, Live
  <2>4. i \notin OrdersAt(b, s, p)
    BY <2>2 DEF OrdersAt
  <2>5. \A r \in Sides : b.sides[r].tree \subseteq LevelSlots
    BY TreeLevels
  <2>6. \A r \in Sides : \A m \in b.sides[r].tree :
            r = s /\ b.levels[m].price = p <=> m = l
    <3>1. \A m \in b.sides[s].tree : b.levels[m].price = p => m = l
      BY TreeLevels DEF p
    <3>2. \A r \in Sides \ {s} : l \notin b.sides[r].tree
      BY DEF LevelsSound, LevelsAccountedIn, Sides
    <3> QED
      BY <3>1, <3>2 DEF p
  <2>7. CountsIn(c)
    <3> SUFFICES ASSUME NEW r \in Sides, NEW m \in b.sides[r].tree
                 PROVE  c.levels[m].order_count =
                            Cardinality(OrdersAt(c, r, b.levels[m].price))
      BY <2>2, <2>5 DEF CountsIn
    <3>1. b.levels[m].order_count = Cardinality(OrdersAt(b, r, b.levels[m].price))
      BY DEF SettledBut, CountsIn
    <3>2. CASE m = l
      <4>1. Cardinality(OrdersAt(b, s, p) \cup {i}) = Cardinality(OrdersAt(b, s, p)) + 1
        BY <2>4, OrdersAtFinite, FS_AddElement
      <4>2. r = s /\ b.levels[m].price = p
        BY <2>6, <3>2
      <4>3. c.levels[m].order_count = b.levels[m].order_count + 1
        BY <1>1, <2>2, <3>2
      <4>4. OrdersAt(c, s, p) = OrdersAt(b, s, p) \cup {i}
        BY <2>3
      <4> QED
        BY <3>1, <4>1, <4>2, <4>3, <4>4
    <3>3. CASE m # l
      BY <2>2, <2>3, <2>5, <2>6, <3>1, <3>3
    <3> QED
      BY <3>2, <3>3
  <2>8. InhabitedBut(c, kInvalid)
    <3> SUFFICES ASSUME NEW r \in Sides, NEW m \in b.sides[r].tree
                 PROVE  OrdersAt(c, r, b.levels[m].price) # {}
      BY <2>2, <2>5 DEF InhabitedBut
    <3>1. CASE m = l
      BY <2>3, <2>6, <3>1
    <3>2. CASE m # l
      BY <2>3, <3>2 DEF SettledBut, InhabitedBut
    <3> QED
      BY <3>1, <3>2
  <2>9. Housed(c)
    <3> SUFFICES ASSUME NEW j \in Live(c)
                 PROVE  \E m \in c.sides[c.orders[j].side].tree :
                            c.levels[m].price = c.orders[j].price
      BY DEF Housed
    <3>1. CASE j = i
      <4>1. c.levels[l].price = p
        BY <1>1, <2>2 DEF p
      <4> QED
        BY <2>2, <3>1, <4>1
    <3>2. CASE j # i
      <4>1. j \in Live(b) /\ j \in OrderSlots \ {i} /\ b.orders[j].side \in Sides
        BY <2>2, <3>2 DEF Live, Book, Order
      <4>2. PICK m \in b.sides[b.orders[j].side].tree : b.levels[m].price = b.orders[j].price
        BY <4>1 DEF SettledBut, Housed
      <4>3. m \in LevelSlots
        BY <2>5, <4>1, <4>2
      <4> QED
        BY <2>2, <4>1, <4>2, <4>3
    <3> QED
      BY <3>1, <3>2
  <2>10. BestCached(c)
    BY <2>2, <2>5 DEF SettledBut, BestCached, IsBest
  <2> QED
    BY <2>1, <2>7, <2>8, <2>9, <2>10 DEF Settled, SettledBut, p
<1> QED
  BY <1>2, <1>3

\* create_level and insert_level, for a price the side has no level of: the new
\* level is empty, and the cached best level takes it into account.
LEMMA OpenSettled ==
    ASSUME NEW b \in Book, NEW s \in Sides, NEW p \in Nat, LevelsSound(b),
           SettledBut(b, kInvalid), b.level_free # << >>, p < MaxTicks,
           \A m \in b.sides[s].tree : b.levels[m].price # p
    PROVE  SettledBut(InsertLevel(CreateLevel(b, s, p), s, Head(b.level_free)),
                      Head(b.level_free))
<1> DEFINE l == Head(b.level_free)
           c == CreateLevel(b, s, p)
           d == InsertLevel(c, s, l)
<1>1. /\ b.level_free \in Seq(LevelSlots) /\ l \in LevelSlots
      /\ c \in Book /\ c.levels[l].price = p
  BY CreateType DEF Book
<1>2. l \in Slots(b.level_free)
  BY <1>1, TailSlots DEF LevelsSound, LevelsAccountedIn
<1>3. /\ c.sides = b.sides /\ c.orders = b.orders
      /\ c.levels[l].order_count = 0
      /\ \A m \in LevelSlots \ {l} : c.levels[m] = b.levels[m]
  BY <1>1 DEF Book, CreateLevel
<1> HIDE DEF c
<1>4. /\ d.orders = c.orders /\ d.levels = c.levels
      /\ d.sides[s].tree = c.sides[s].tree \cup {l}
      /\ d.sides[s].bbo = BboOnInsert(c, s, l)
      /\ \A r \in Sides \ {s} : d.sides[r] = c.sides[r]
  BY <1>1 DEF Book, InsertLevel
<1> HIDE DEF d, l
<1>5. \A r \in Sides : l \notin b.sides[r].tree /\ b.sides[r].tree \subseteq LevelSlots
  BY <1>2 DEF LevelsSound, LevelsAccountedIn, Sides, Book, Side
<1>6. \A r, t : OrdersAt(d, r, t) = OrdersAt(b, r, t)
  BY <1>3, <1>4 DEF OrdersAt, Live
<1>7. OrdersAt(b, s, p) = {}
  BY DEF SettledBut, Housed, OrdersAt
<1>8. \A r \in Sides : \A m \in d.sides[r].tree :
        \/ r = s /\ m = l
        \/ m \in b.sides[r].tree /\ m \in LevelSlots \ {l} /\ d.levels[m] = b.levels[m]
  BY <1>3, <1>4, <1>5
<1>9. d.levels[l].price = p /\ d.levels[l].order_count = 0
  BY <1>1, <1>3, <1>4
<1>10. Cardinality({}) = 0
  BY FS_EmptySet
<1>11. CountsIn(d)
  <2> SUFFICES ASSUME NEW r \in Sides, NEW m \in d.sides[r].tree
               PROVE  d.levels[m].order_count = Cardinality(OrdersAt(d, r, d.levels[m].price))
    BY DEF CountsIn
  <2>1. CASE r = s /\ m = l
    BY <1>6, <1>7, <1>9, <1>10, <2>1
  <2>2. CASE m \in b.sides[r].tree /\ d.levels[m] = b.levels[m]
    <3>1. b.levels[m].order_count = Cardinality(OrdersAt(b, r, b.levels[m].price))
      BY <2>2 DEF CountsIn, SettledBut
    <3> QED
      BY <1>6, <2>2, <3>1
  <2> QED
    BY <1>8, <2>1, <2>2
<1>12. InhabitedBut(d, l)
  <2>1. \A m \in LevelSlots : m # kInvalid
    BY DEF LevelSlots, kInvalid
  <2> QED
    BY <1>6, <1>8, <2>1 DEF InhabitedBut, SettledBut
<1>13. Housed(d)
  <2> SUFFICES ASSUME NEW i \in Live(b)
               PROVE  \E m \in d.sides[b.orders[i].side].tree :
                        d.levels[m].price = b.orders[i].price
    BY <1>3, <1>4 DEF Housed, Live
  <2>1. b.orders[i].side \in Sides
    BY DEF Live, Book, Order
  <2>2. PICK m \in b.sides[b.orders[i].side].tree : b.levels[m].price = b.orders[i].price
    BY DEF SettledBut, Housed
  <2>3. m \in d.sides[b.orders[i].side].tree /\ d.levels[m] = b.levels[m]
    BY <1>3, <1>4, <1>5, <2>1
  <2> QED
    BY <2>2, <2>3
<1>14. BestCached(d)
  <2> SUFFICES ASSUME NEW r \in Sides
               PROVE  IF d.sides[r].tree = {} THEN d.sides[r].bbo = kInvalid
                      ELSE d.sides[r].bbo \in d.sides[r].tree /\ IsBest(d, r, d.sides[r].bbo)
    BY DEF BestCached
  <2>1. IF b.sides[r].tree = {} THEN b.sides[r].bbo = kInvalid
        ELSE b.sides[r].bbo \in b.sides[r].tree /\ IsBest(b, r, b.sides[r].bbo)
    BY DEF SettledBut, BestCached
  <2>2. CASE r # s
    BY <1>3, <1>4, <1>5, <2>1, <2>2 DEF IsBest
  <2>3. CASE r = s /\ b.sides[s].tree = {}
    <3>1. d.sides[s].tree = {l} /\ d.sides[s].bbo = l
      BY <1>3, <1>4, <2>1, <2>3 DEF BboOnInsert
    <3>2. ~Better(s, p, p)
      BY DEF Better
    <3> QED
      BY <1>9, <2>3, <3>1, <3>2 DEF IsBest
  <2>4. CASE r = s /\ b.sides[s].tree # {}
    <3> DEFINE bbo == b.sides[s].bbo
    <3>1. bbo \in b.sides[s].tree /\ bbo \in LevelSlots \ {l} /\ bbo # kInvalid
          /\ \A m \in b.sides[s].tree : ~Better(s, b.levels[m].price, b.levels[bbo].price)
      BY <1>5, <2>1, <2>4 DEF IsBest, LevelSlots, kInvalid
    <3>2. \A m \in b.sides[s].tree : d.levels[m] = b.levels[m] /\ b.levels[m].price \in Nat
      BY <1>3, <1>4, <1>5 DEF Book, Level
    <3>3. d.sides[s].bbo = IF Better(s, p, b.levels[bbo].price) THEN l ELSE bbo
      BY <1>1, <1>3, <1>4, <3>1 DEF BboOnInsert
    <3>4. \A m \in b.sides[s].tree : Better(s, p, b.levels[bbo].price)
                                        => ~Better(s, b.levels[m].price, p)
      BY <3>1, <3>2 DEF Better
    <3>5. ~Better(s, p, p)
      BY DEF Better
    <3> HIDE DEF bbo
    <3>6. d.sides[s].tree = b.sides[s].tree \cup {l}
      BY <1>3, <1>4
    <3>7. CASE Better(s, p, b.levels[bbo].price)
      BY <1>9, <2>4, <3>2, <3>3, <3>4, <3>5, <3>6, <3>7 DEF IsBest
    <3>8. CASE ~Better(s, p, b.levels[bbo].price)
      BY <1>9, <2>4, <3>1, <3>2, <3>3, <3>6, <3>8 DEF IsBest
    <3> QED
      BY <3>7, <3>8
  <2> QED
    BY <2>2, <2>3, <2>4
<1> QED
  BY <1>11, <1>12, <1>13, <1>14 DEF SettledBut, c, d, l

\* An order leaves its level: the level's count goes down with the number of
\* its orders, and it may be the last.
LEMMA FreeSettled ==
    ASSUME NEW b \in Book, LevelsSound(b), SettledBut(b, kInvalid),
           NEW i \in Live(b), NEW l \in b.sides[b.orders[i].side].tree,
           b.levels[l].price = b.orders[i].price
    PROVE  SettledBut(FreeOrder(b, l, i), l)
<1> DEFINE s == b.orders[i].side
           p == b.orders[i].price
           c == FreeOrder(b, l, i)
<1>1. i \in OrderSlots /\ s \in Sides
  BY DEF Live, Book, Order
<1>2. \A r \in Sides : b.sides[r].tree \subseteq LevelSlots
  BY DEF Book, Side
<1>3. l \in LevelSlots
  BY <1>1, <1>2
<1>4. /\ c.sides = b.sides /\ c.orders = [b.orders EXCEPT ![i] = NoOrder]
      /\ c.levels = [b.levels EXCEPT ![l].order_count = @ - 1]
  BY DEF FreeOrder, Book
<1>5. \A m \in LevelSlots : /\ c.levels[m].price = b.levels[m].price
                            /\ c.levels[m].order_count =
                                    IF m = l THEN b.levels[m].order_count - 1
                                    ELSE b.levels[m].order_count
  BY <1>3, <1>4 DEF Book, Level
<1>6. /\ Live(c) = Live(b) \ {i}
      /\ \A j \in OrderSlots \ {i} : c.orders[j] = b.orders[j]
  BY <1>1, <1>4 DEF Live, NoOrder, Book
<1> HIDE DEF c
<1>7. \A r, t : OrdersAt(c, r, t) = IF r = s /\ t = p THEN OrdersAt(b, r, t) \ {i}
                                   ELSE OrdersAt(b, r, t)
  BY <1>6 DEF OrdersAt, Live
<1>8. i \in OrdersAt(b, s, p)
  BY DEF OrdersAt
<1> HIDE DEF s, p
<1>9. \A r \in Sides : \A m \in b.sides[r].tree :
        r = s /\ b.levels[m].price = p <=> m = l
  <2>1. \A m \in b.sides[s].tree : b.levels[m].price = p => m = l
    BY <1>1, TreeLevels DEF p, s
  <2>2. \A r \in Sides \ {s} : l \notin b.sides[r].tree
    BY <1>1 DEF LevelsSound, LevelsAccountedIn, Sides, s
  <2> QED
    BY <2>1, <2>2 DEF p, s
<1>10. CountsIn(c)
  <2> SUFFICES ASSUME NEW r \in Sides, NEW m \in b.sides[r].tree
               PROVE  c.levels[m].order_count =
                            Cardinality(OrdersAt(c, r, b.levels[m].price))
    BY <1>2, <1>4, <1>5 DEF CountsIn
  <2>1. b.levels[m].order_count = Cardinality(OrdersAt(b, r, b.levels[m].price))
    BY DEF SettledBut, CountsIn
  <2>2. CASE m = l
    <3>1. Cardinality(OrdersAt(b, s, p) \ {i}) = Cardinality(OrdersAt(b, s, p)) - 1
      BY <1>8, OrdersAtFinite, FS_RemoveElement
    <3>2. r = s /\ b.levels[m].price = p
      BY <1>9, <2>2
    <3>3. c.levels[m].order_count = b.levels[m].order_count - 1
      BY <1>3, <1>5, <2>2
    <3>4. OrdersAt(c, s, p) = OrdersAt(b, s, p) \ {i}
      BY <1>7
    <3> QED
      BY <2>1, <3>1, <3>2, <3>3, <3>4
  <2>3. CASE m # l
    BY <1>2, <1>5, <1>7, <1>9, <2>1, <2>3
  <2> QED
    BY <2>2, <2>3
<1>11. InhabitedBut(c, l)
  <2> SUFFICES ASSUME NEW r \in Sides, NEW m \in b.sides[r].tree \ {l}
               PROVE  OrdersAt(c, r, b.levels[m].price) # {}
    BY <1>2, <1>4, <1>5 DEF InhabitedBut
  <2>1. m # kInvalid
    BY <1>2 DEF LevelSlots, kInvalid
  <2>2. OrdersAt(b, r, b.levels[m].price) # {}
    BY <2>1 DEF SettledBut, InhabitedBut
  <2> QED
    BY <1>7, <1>9, <2>2
<1>12. Housed(c)
  <2> SUFFICES ASSUME NEW j \in Live(c)
               PROVE  \E m \in b.sides[c.orders[j].side].tree :
                        c.levels[m].price = c.orders[j].price
    BY <1>4 DEF Housed
  <2>1. j \in Live(b) /\ c.orders[j] = b.orders[j] /\ b.orders[j].side \in Sides
    BY <1>6 DEF Live, Book, Order
  <2>2. PICK m \in b.sides[b.orders[j].side].tree : b.levels[m].price = b.orders[j].price
    BY <2>1 DEF SettledBut, Housed
  <2>3. m \in LevelSlots
    BY <1>2, <2>1, <2>2
  <2> QED
    BY <1>5, <2>1, <2>2, <2>3
<1>13. BestCached(c)
  BY <1>2, <1>4, <1>5 DEF SettledBut, BestCached, IsBest
<1> QED
  BY <1>10, <1>11, <1>12, <1>13 DEF SettledBut, c

\* remove_and_destroy_level takes a level without orders out of its tree, and
\* looks for the best of the rest if the level was the best.
LEMMA CloseSettled ==
    ASSUME NEW b \in Book, LevelsSound(b), NEW s \in Sides, NEW l \in b.sides[s].tree,
           SettledBut(b, l), b.levels[l].order_count = 0
    PROVE  Settled(RemoveAndDestroyLevel(b, s, l))
<1>1. CASE ~DestroyChecks(b, s, l)
  <2>1. Fail(b, "Internal").fault # "None"
    BY DEF Fail, Book
  <2> QED
    BY <1>1, <2>1 DEF RemoveAndDestroyLevel, Settled
<1>2. CASE DestroyChecks(b, s, l)
  <2> DEFINE rest == b.sides[s].tree \ {l}
             c == RemoveLevel(b, s, l)
             d == [c EXCEPT !.level_free = <<l>> \o @, !.levels[l] = NoLevel]
  <2>1. RemoveAndDestroyLevel(b, s, l) = d
    BY <1>2 DEF RemoveAndDestroyLevel
  <2>2. \A r \in Sides : b.sides[r].tree \subseteq LevelSlots
    BY DEF Book, Side
  <2>3. l \in LevelSlots /\ rest \in SUBSET LevelSlots
    BY <2>2
  <2>4. /\ c \in Book /\ c.levels = b.levels /\ c.orders = b.orders
        /\ c.sides[s].tree = rest
        /\ c.sides[s].bbo = IF b.sides[s].bbo = l THEN BestOf(b, s, rest)
                            ELSE b.sides[s].bbo
        /\ \A r \in Sides \ {s} : c.sides[r] = b.sides[r]
    <3>1. c \in Book
      BY <2>3, RemoveType
    <3>2. c.levels = b.levels /\ c.orders = b.orders
      BY DEF Book, RemoveLevel
    <3>3. c.sides[s].tree = rest
      BY DEF Book, RemoveLevel
    <3>4. c.sides[s].bbo = IF b.sides[s].bbo = l THEN BestOf(b, s, rest)
                           ELSE b.sides[s].bbo
      BY DEF Book, RemoveLevel
    <3>5. \A r \in Sides \ {s} : c.sides[r] = b.sides[r]
      BY DEF Book, RemoveLevel
    <3> QED
      BY <3>1, <3>2, <3>3, <3>4, <3>5
  <2> HIDE DEF c
  <2>5. /\ d.sides = c.sides /\ d.orders = b.orders
        /\ \A m \in LevelSlots \ {l} : d.levels[m] = b.levels[m]
    BY <2>3, <2>4 DEF Book
  <2> HIDE DEF d
  <2>6. \A r \in Sides \ {s} : l \notin b.sides[r].tree
    BY DEF LevelsSound, LevelsAccountedIn, Sides
  <2>7. \A r \in Sides : \A m \in d.sides[r].tree :
            m \in b.sides[r].tree /\ m # l /\ m \in LevelSlots /\ d.levels[m] = b.levels[m]
    BY <2>2, <2>4, <2>5, <2>6
  <2>8. \A r, t : OrdersAt(d, r, t) = OrdersAt(b, r, t)
    BY <2>5 DEF OrdersAt, Live
  <2>9. OrdersAt(b, s, b.levels[l].price) = {}
    BY OrdersAtFinite DEF SettledBut, CountsIn
  <2>10. CountsIn(d)
    BY <2>7, <2>8 DEF SettledBut, CountsIn
  <2>11. InhabitedBut(d, kInvalid)
    BY <2>7, <2>8 DEF SettledBut, InhabitedBut
  <2>12. Housed(d)
    <3> SUFFICES ASSUME NEW i \in Live(b)
                 PROVE  \E m \in d.sides[b.orders[i].side].tree :
                            d.levels[m].price = b.orders[i].price
      BY <2>5 DEF Housed, Live
    <3>1. b.orders[i].side \in Sides
      BY DEF Live, Book, Order
    <3>2. PICK m \in b.sides[b.orders[i].side].tree : b.levels[m].price = b.orders[i].price
      BY DEF SettledBut, Housed
    <3>3. m # l
      <4>1. i \in OrdersAt(b, b.orders[i].side, b.levels[m].price)
        BY <3>2 DEF OrdersAt
      <4> QED
        BY <2>6, <2>9, <3>1, <3>2, <4>1
    <3>4. m \in d.sides[b.orders[i].side].tree /\ d.levels[m] = b.levels[m]
      BY <2>2, <2>4, <2>5, <3>1, <3>2, <3>3
    <3> QED
      BY <3>2, <3>4
  <2>13. BestCached(d)
    <3> SUFFICES ASSUME NEW r \in Sides
                 PROVE  IF d.sides[r].tree = {} THEN d.sides[r].bbo = kInvalid
                        ELSE d.sides[r].bbo \in d.sides[r].tree /\ IsBest(d, r, d.sides[r].bbo)
      BY DEF BestCached
    <3>1. IF b.sides[r].tree = {} THEN b.sides[r].bbo = kInvalid
          ELSE b.sides[r].bbo \in b.sides[r].tree /\ IsBest(b, r, b.sides[r].bbo)
      BY DEF SettledBut, BestCached
    <3>2. CASE r # s
      BY <2>2, <2>4, <2>5, <2>6, <3>1, <3>2 DEF IsBest
    <3>3. CASE r = s /\ b.sides[s].bbo # l
      BY <2>4, <2>5, <2>7, <3>1, <3>3 DEF IsBest
    <3>4. CASE r = s /\ b.sides[s].bbo = l /\ rest # {}
      <4>1. /\ BestOf(b, s, rest) \in rest
            /\ \A m \in rest : ~Better(s, b.levels[m].price,
                                       b.levels[BestOf(b, s, rest)].price)
        <5>1. \A m \in rest : b.levels[m].price < MaxTicks
          BY DEF LevelsSound, DenseExactIn
        <5> QED
          BY <2>3, <3>4, <5>1, BestOfExact
      <4>2. /\ d.sides[s].tree = rest /\ d.sides[s].bbo = BestOf(b, s, rest)
            /\ \A m \in rest : d.levels[m] = b.levels[m]
        BY <2>4, <2>5, <2>7, <3>4
      <4> DEFINE best == BestOf(b, s, rest)
      <4> HIDE DEF best, rest
      <4>3. /\ best \in rest /\ d.levels[best] = b.levels[best]
            /\ \A m \in rest : ~Better(s, b.levels[m].price, b.levels[best].price)
        BY <4>1, <4>2 DEF best
      <4>4. IsBest(d, s, best)
        BY <4>2, <4>3 DEF IsBest
      <4> QED
        BY <3>4, <4>2, <4>3, <4>4 DEF best
    <3>5. CASE r = s /\ b.sides[s].bbo = l /\ rest = {}
      <4>1. BestOf(b, s, rest) = kInvalid
        BY <3>5 DEF BestOf
      <4> QED
        BY <2>4, <2>5, <3>5, <4>1
    <3> QED
      BY <3>2, <3>3, <3>4, <3>5
  <2> QED
    BY <2>1, <2>10, <2>11, <2>12, <2>13 DEF Settled, SettledBut
<1> QED
  BY <1>1, <1>2

\* A failed assertion ends the process: nothing is said of the book it leaves.
LEMMA FailSettled ==
    ASSUME NEW b \in Book, NEW why \in Faults \ {"None"}
    PROVE  Settled(Fail(b, why))
<1>1. Fail(b, why).fault = why
  BY DEF Fail, Book
<1> QED
  BY <1>1 DEF Settled

\* delete_order_internal: a level is destroyed exactly when its last order goes.
LEMMA DeleteInternalSettled ==
    ASSUME NEW b \in Book, LevelsSound(b), SettledBut(b, kInvalid),
           NEW i \in Live(b), NEW l \in b.sides[b.orders[i].side].tree,
           b.levels[l].price = b.orders[i].price
    PROVE  Settled(DeleteOrderInternal(b, i, b.orders[i].side, l))
<1> DEFINE s == b.orders[i].side
           u == Unlink(b, l, i)
           f == FreeOrder(u, l, i)
<1>1. i \in OrderSlots /\ s \in Sides /\ l \in LevelSlots
  <2>1. i \in OrderSlots /\ s \in Sides
    BY DEF Live, Book, Order
  <2> QED
    BY <2>1, TreeLevels
<1>2. /\ u \in Book /\ SameContents(b, u) /\ SettledBut(u, kInvalid)
      /\ SameLevels(b, u) /\ LevelsSound(u)
  <2>1. u \in Book /\ SameContents(b, u) /\ SameLevels(b, u)
    BY <1>1, UnlinkType, UnlinkSameContents, UnlinkSameLevels
  <2> QED
    BY <2>1, SameContentsSettled, SameLevelsSound
<1>3. /\ i \in Live(u) /\ u.orders[i].side = s /\ l \in u.sides[u.orders[i].side].tree
      /\ u.levels[l].price = u.orders[i].price
  BY <1>1, <1>2 DEF SameContents, Live
<1> HIDE DEF u
<1>4. SettledBut(f, l)
  BY <1>2, <1>3, FreeSettled
<1>5. f \in Book /\ LevelsSound(f) /\ l \in f.sides[s].tree
  <2>1. f \in Book /\ SameLevels(u, f)
    BY <1>1, <1>2, FreeType, FreeSameLevels
  <2> QED
    BY <1>2, <1>3, <2>1, SameLevelsSound DEF SameLevels
<1> HIDE DEF f
<1>6. CASE f.levels[l].order_count = 0
  <2>1. Settled(RemoveAndDestroyLevel(f, s, l))
    BY <1>1, <1>4, <1>5, <1>6, CloseSettled
  <2> QED
    BY <1>6, <2>1 DEF DeleteOrderInternal, u, f
<1>7. CASE f.levels[l].order_count # 0
  <2>1. OrdersAt(f, s, f.levels[l].price) # {}
    BY <1>1, <1>4, <1>5, <1>7, OrdersAtFinite DEF SettledBut, CountsIn
  <2>2. \A r \in Sides : l \in f.sides[r].tree => r = s
    BY <1>1, <1>5 DEF LevelsSound, LevelsAccountedIn, Sides
  <2>3. InhabitedBut(f, kInvalid)
    BY <1>4, <2>1, <2>2 DEF SettledBut, InhabitedBut
  <2>4. Settled(f)
    BY <1>4, <2>3 DEF SettledBut, Settled
  <2> QED
    BY <1>7, <2>4 DEF DeleteOrderInternal, u, f
<1> QED
  BY <1>6, <1>7

\* Quantities are naturals.
LEMMA QtyNat == \A q \in Qtys : q \in Nat
BY RequestAssumption DEF Qtys

\* An order that is looked up has its level.
LEMMA LookupHoused ==
    ASSUME NEW b \in Book, OrdersAccountedIn(b), LevelsSound(b), SettledBut(b, kInvalid),
           NEW id \in DOMAIN b.order_map
    PROVE  LET i == b.order_map[id]
               o == b.orders[i]
               l == FindByPrice(b, o.side, o.price)
           IN  /\ i \in Live(b) /\ i \in OrderSlots /\ o \in Order
               /\ o.side \in Sides /\ o.price \in Nat /\ o.remaining_qty \in Qtys
               /\ o.remaining_qty \in Nat
               /\ l # kInvalid /\ l \in LevelSlots /\ l \in b.sides[o.side].tree
               /\ b.levels[l].price = o.price
<1> DEFINE i == b.order_map[id]
           o == b.orders[i]
           l == FindByPrice(b, o.side, o.price)
<1>1. i \in Live(b) /\ i \in OrderSlots /\ o \in Order
  BY LookupType, LookupLive
<1>2. o.side \in Sides /\ o.price \in Nat /\ o.remaining_qty \in Qtys
  BY <1>1 DEF Order
<1>3. \E m \in b.sides[o.side].tree : b.levels[m].price = o.price
  BY <1>1 DEF SettledBut, Housed
<1>4. l # kInvalid /\ l \in b.sides[o.side].tree /\ b.levels[l].price = o.price
  BY <1>2, <1>3, FindSound
<1>5. l \in LevelSlots
  BY <1>2, <1>4, TreeLevels
<1>6. o.remaining_qty \in Nat
  BY <1>2, QtyNat
<1> QED
  BY <1>1, <1>2, <1>4, <1>5, <1>6

\* add_order.
LEMMA AddSettled ==
    ASSUME NEW b \in Book, OrdersAccountedIn(b), LevelsSound(b), SettledBut(b, kInvalid),
           NEW id \in OrderIds, NEW s \in Sides, NEW p \in Nat, NEW q \in Qtys
    PROVE  Settled(AddOrder(b, id, s, p, q))
<1> DEFINE l == FindByPrice(b, s, p)
           new == Head(b.level_free)
           c == CreateLevel(b, s, p)
           d == InsertLevel(c, s, new)
<1>1. \A why \in {"Request", "LevelPool", "TickRange"} : Settled(Fail(b, why))
  BY FailSettled DEF Faults, CapacityFaults
<1>2. CASE l # kInvalid
  <2>1. l \in b.sides[s].tree /\ b.levels[l].price = p
    BY <1>2, FindSound
  <2>2. SettledBut(b, l)
    BY DEF SettledBut, InhabitedBut, kInvalid, LevelSlots, Book, Side
  <2>3. Settled(EnterOrder(b, l, id, s, p, q))
    BY <2>1, <2>2, EnterSettled
  <2> QED
    BY <1>1, <1>2, <2>3 DEF AddOrder
<1>3. CASE l = kInvalid /\ b.level_free # << >> /\ p < MaxTicks
  <2>1. c \in Book /\ new \in LevelSlots /\ c.levels[new].price = p
    BY <1>3, CreateType
  <2>2. d \in Book
    BY <1>3, <2>1, InsertType
  <2>3. LevelsSound(d) /\ SettledBut(d, new)
    BY <1>3, FindSound, OpenSound, OpenSettled
  <2>4. OrdersAccountedIn(d)
    <3>1. SameOrders(b, c) /\ OrdersAccountedIn(c)
      BY <2>1, CreateSame, SameOrdersAccounted
    <3> HIDE DEF c
    <3>2. SameOrders(c, d)
      BY <2>1, InsertSame
    <3> QED
      BY <2>1, <2>2, <3>1, <3>2, SameOrdersAccounted
  <2>5. new \in d.sides[s].tree /\ d.levels[new].price = p
    <3> HIDE DEF c, new
    <3> QED
      BY <2>1 DEF Book, InsertLevel
  <2> HIDE DEF d
  <2>6. Settled(EnterOrder(d, new, id, s, p, q))
    BY <2>2, <2>3, <2>4, <2>5, EnterSettled
  <2> QED
    BY <1>1, <1>3, <2>6 DEF AddOrder, d
<1>4. CASE l = kInvalid /\ (b.level_free = << >> \/ ~(p < MaxTicks))
  BY <1>1, <1>4, CapacityAssumption DEF AddOrder
<1> QED
  BY <1>2, <1>3, <1>4

\* cancel_order and execute_order.
LEMMA CancelSettled ==
    ASSUME NEW b \in Book, OrdersAccountedIn(b), LevelsSound(b), SettledBut(b, kInvalid),
           NEW id \in OrderIds, NEW q \in Qtys
    PROVE  Settled(CancelOrder(b, id, q))
<1> DEFINE i == b.order_map[id]
           o == b.orders[i]
           l == FindByPrice(b, o.side, o.price)
           less == [b EXCEPT !.orders[i].remaining_qty = @ - q]
           r == DropQty(less, l, q)
<1>1. Settled(Fail(b, "Request"))
  BY FailSettled DEF Faults
<1>2. CASE id \in DOMAIN b.order_map /\ q <= o.remaining_qty
  <2>1. /\ i \in Live(b) /\ i \in OrderSlots /\ o \in Order
        /\ o.side \in Sides /\ o.price \in Nat
        /\ l # kInvalid /\ l \in LevelSlots /\ l \in b.sides[o.side].tree
        /\ b.levels[l].price = o.price
    BY <1>2, LookupHoused
  <2>2. [o EXCEPT !.remaining_qty = @ - q] \in Order
    <3>1. o \in Order
      BY <2>1
    <3> QED
      BY <1>2, <3>1, RequestAssumption DEF Order, Qtys
  <2>3. less \in Book /\ SameLevels(b, less) /\ SameContents(b, less)
    BY <2>1, <2>2 DEF Book, SameLevels, SameContents, Order
  <2> HIDE DEF less, l
  <2>4. r \in Book /\ SameLevels(less, r) /\ SameContents(less, r)
    BY <2>1, <2>3, DropType, DropSameLevels, DropSameContents
  <2> HIDE DEF r
  <2>5. LevelsSound(r) /\ SettledBut(r, kInvalid)
    BY <2>3, <2>4, SameLevelsSound, SameContentsSettled
  <2>6. /\ i \in Live(r) /\ r.orders[i].side = o.side
        /\ l \in r.sides[r.orders[i].side].tree /\ r.levels[l].price = r.orders[i].price
    BY <2>1, <2>3, <2>4 DEF SameContents, Live
  <2>7. Settled(DeleteOrderInternal(r, i, o.side, l)) /\ Settled(r)
    BY <2>4, <2>5, <2>6, DeleteInternalSettled DEF Settled
  <2>8. ~(q > o.remaining_qty)
    <3>1. o.remaining_qty \in Nat /\ q \in Nat
      BY <2>1, RequestAssumption DEF Order, Qtys
    <3> QED
      BY <1>2, <3>1
  <2> QED
    BY <1>2, <2>1, <2>7, <2>8 DEF CancelOrder, less, r, l
<1>3. CASE id \in DOMAIN b.order_map /\ q > o.remaining_qty
  BY <1>1, <1>3 DEF CancelOrder
<1>4. CASE id \notin DOMAIN b.order_map
  BY <1>1, <1>4 DEF CancelOrder
<1>5. id \in DOMAIN b.order_map => q <= o.remaining_qty \/ q > o.remaining_qty
  BY LookupType DEF Order, Qtys
<1> QED
  BY <1>2, <1>3, <1>4, <1>5

\* delete_order.
LEMMA DeleteSettled ==
    ASSUME NEW b \in Book, OrdersAccountedIn(b), LevelsSound(b), SettledBut(b, kInvalid),
           NEW id \in OrderIds
    PROVE  Settled(DeleteOrder(b, id))
<1> DEFINE i == b.order_map[id]
           o == b.orders[i]
           l == FindByPrice(b, o.side, o.price)
           r == DropQty(b, l, o.remaining_qty)
<1>1. Settled(Fail(b, "Request"))
  BY FailSettled DEF Faults
<1>2. CASE id \in DOMAIN b.order_map
  <2>1. /\ i \in Live(b) /\ i \in OrderSlots /\ o \in Order
        /\ o.side \in Sides /\ o.price \in Nat /\ o.remaining_qty \in Qtys
        /\ l # kInvalid /\ l \in LevelSlots /\ l \in b.sides[o.side].tree
        /\ b.levels[l].price = o.price
    BY <1>2, LookupHoused
  <2> HIDE DEF l
  <2>2. r \in Book /\ SameLevels(b, r) /\ SameContents(b, r)
    BY <2>1, DropType, DropSameLevels, DropSameContents
  <2> HIDE DEF r
  <2>3. LevelsSound(r) /\ SettledBut(r, kInvalid)
    BY <2>2, SameLevelsSound, SameContentsSettled
  <2>4. /\ i \in Live(r) /\ r.orders[i].side = o.side
        /\ l \in r.sides[r.orders[i].side].tree /\ r.levels[l].price = r.orders[i].price
    BY <2>1, <2>2 DEF SameContents, Live
  <2>5. Settled(DeleteOrderInternal(r, i, o.side, l))
    BY <2>2, <2>3, <2>4, DeleteInternalSettled
  <2> QED
    BY <1>2, <2>1, <2>5 DEF DeleteOrder, r, l
<1> QED
  BY <1>1, <1>2 DEF DeleteOrder

\* The second half of replace_order and modify_order starts from a settled book.
LEMMA ThenAddSettled ==
    ASSUME NEW b \in Book, OrdersAccountedIn(b), LevelsSound(b), Settled(b),
           NEW id \in OrderIds, NEW s \in Sides, NEW p \in Nat, NEW q \in Qtys
    PROVE  Settled(Then(b, AddOrder(b, id, s, p, q)))
BY AddSettled DEF Settled, Then

\* replace_order.
LEMMA ReplaceSettled ==
    ASSUME NEW b \in Book, OrdersAccountedIn(b), LevelsSound(b), SettledBut(b, kInvalid),
           NEW id \in OrderIds, NEW new \in OrderIds, NEW s \in Sides, NEW p \in Nat,
           NEW q \in Qtys
    PROVE  Settled(ReplaceOrder(b, id, new, s, p, q))
BY DeleteType, DeleteAccounted, DeleteSound, DeleteSettled, ThenAddSettled DEF ReplaceOrder

\* modify_order.
LEMMA ModifySettled ==
    ASSUME NEW b \in Book, OrdersAccountedIn(b), LevelsSound(b), SettledBut(b, kInvalid),
           NEW id \in OrderIds, NEW q \in Qtys
    PROVE  Settled(ModifyOrder(b, id, q))
<1> DEFINE o == b.orders[b.order_map[id]]
           d == DeleteOrder(b, id)
<1>1. Settled(Fail(b, "Request"))
  BY FailSettled DEF Faults
<1>2. CASE id \in DOMAIN b.order_map
  <2>1. o.side \in Sides /\ o.price \in Nat /\ o.remaining_qty \in Qtys
    BY <1>2, LookupType DEF Order
  <2>2. q < o.remaining_qty => o.remaining_qty - q \in Qtys
    BY <2>1, RequestAssumption DEF Qtys
  <2>3. q < o.remaining_qty => Settled(CancelOrder(b, id, o.remaining_qty - q))
    BY <2>2, CancelSettled
  <2>4. Settled(Then(d, AddOrder(d, id, o.side, o.price, q)))
    BY <2>1, DeleteType, DeleteAccounted, DeleteSound, DeleteSettled, ThenAddSettled
  <2>5. Settled(b)
    BY DEF Settled
  <2> QED
    BY <1>2, <2>3, <2>4, <2>5 DEF ModifyOrder
<1> QED
  BY <1>1, <1>2 DEF ModifyOrder

\* A new book has neither orders nor levels.
LEMMA InitSettled == Settled(InitialBook)
<1>1. \A s \in Sides : InitialBook.sides[s].tree = {} /\ InitialBook.sides[s].bbo = kInvalid
  BY DEF InitialBook
<1>2. Live(InitialBook) = {}
  BY DEF InitialBook, Live, NoOrder
<1> QED
  BY <1>1, <1>2 DEF Settled, SettledBut, CountsIn, InhabitedBut, Housed, BestCached

\* What a settled book says of the best level is what BboExact says.
LEMMA SettledBbo ==
    ASSUME book \in Book, LevelsSound(book), Settled(book)
    PROVE  BboExact
<1> SUFFICES ASSUME Running, NEW s \in Sides
    PROVE  LET prices == {book.orders[i].price : i \in
                            {j \in LiveOrders : book.orders[j].side = s}}
               bbo == book.sides[s].bbo
           IN  IF prices = {} THEN bbo = kInvalid
               ELSE /\ bbo \in book.sides[s].tree
                    /\ book.levels[bbo].price \in prices
                    /\ \A p \in prices : ~Better(s, p, book.levels[bbo].price)
  BY DEF BboExact
<1> DEFINE prices == {book.orders[i].price : i \in
                        {j \in LiveOrders : book.orders[j].side = s}}
           bbo == book.sides[s].bbo
<1>1. SettledBut(book, kInvalid)
  BY DEF Settled, Running
<1>2. \A p : p \in prices <=> OrdersAt(book, s, p) # {}
  BY DEF LiveOrders, OrdersAt
<1>3. \A p \in prices : \E l \in book.sides[s].tree : book.levels[l].price = p
  BY <1>1 DEF LiveOrders, SettledBut, Housed
<1>4. \A l \in book.sides[s].tree : book.levels[l].price \in prices
  <2>1. \A l \in book.sides[s].tree : l # kInvalid
    BY DEF Book, Side, LevelSlots, kInvalid
  <2> QED
    BY <1>1, <1>2, <2>1 DEF SettledBut, InhabitedBut
<1> HIDE DEF prices
<1>5. IF book.sides[s].tree = {} THEN bbo = kInvalid
      ELSE bbo \in book.sides[s].tree /\ IsBest(book, s, bbo)
  BY <1>1 DEF SettledBut, BestCached
<1>6. CASE prices = {}
  BY <1>4, <1>5, <1>6 DEF prices
<1>7. CASE prices # {}
  <2>1. book.sides[s].tree # {}
    BY <1>3, <1>7
  <2>2. \A p \in prices : ~Better(s, p, book.levels[bbo].price)
    BY <1>3, <1>5, <2>1 DEF IsBest
  <2> QED
    BY <1>4, <1>5, <1>7, <2>1, <2>2 DEF prices
<1> QED
  BY <1>6, <1>7

\* Every reachable book is sound, and, unless an assertion has failed, settled:
\* order counts, trees and cached best levels are those of the live orders.
THEOREM BookAlwaysSound == Spec => []BookSound(book)
<1>1. Init => BookSound(book)
  BY InitAccounted, InitSound, InitSettled DEF Init, BookSound
<1>2. TypeOK /\ BookSound(book) /\ [Next]_book => BookSound(book)'
  <2> SUFFICES ASSUME book \in Book, OrdersAccountedIn(book), LevelsSound(book),
                      Settled(book), [Next]_book
               PROVE  BookSound(book')
    BY DEF TypeOK, BookSound
  <2>1. CASE UNCHANGED book
    BY <2>1 DEF BookSound
  <2>2. CASE Running /\ Next
    <3>1. SettledBut(book, kInvalid)
      BY <2>2 DEF Settled, Running
    <3>2. CASE Add
      <4>1. PICK id \in OrderIds, s \in Sides, p \in Prices, q \in Qtys :
                    book' = AddOrder(book, id, s, p, q)
        BY <3>2 DEF Add
      <4>2. p \in Nat
        BY RequestAssumption
      <4> QED
        BY <3>1, <4>1, <4>2, AddAccounted, AddSound, AddSettled DEF BookSound
    <3>3. CASE Cancel
      BY <3>1, <3>3, CancelAccounted, CancelSound, CancelSettled DEF Cancel, BookSound
    <3>4. CASE Execute
      BY <3>1, <3>4, CancelAccounted, CancelSound, CancelSettled
         DEF Execute, ExecuteOrder, BookSound
    <3>5. CASE Delete
      BY <3>1, <3>5, DeleteAccounted, DeleteSound, DeleteSettled DEF Delete, BookSound
    <3>6. CASE Replace
      <4>1. PICK id \in OrderIds, new \in OrderIds, s \in Sides, p \in Prices, q \in Qtys :
                    book' = ReplaceOrder(book, id, new, s, p, q)
        BY <3>6 DEF Replace
      <4>2. p \in Nat
        BY RequestAssumption
      <4> QED
        BY <3>1, <4>1, <4>2, ReplaceAccounted, ReplaceSound, ReplaceSettled DEF BookSound
    <3>7. CASE Modify
      BY <3>1, <3>7, ModifyAccounted, ModifySound, ModifySettled DEF Modify, BookSound
    <3> QED
      BY <2>2, <3>2, <3>3, <3>4, <3>5, <3>6, <3>7 DEF Next
  <2>3. Next => Running
    BY DEF Next, Add, Cancel, Execute, Delete, Replace, Modify
  <2> QED
    BY <2>1, <2>2, <2>3
<1> QED
  BY <1>1, <1>2, TypeCorrect, PTL DEF Spec

\* bbo_idx_ is always the level of the best price among the live orders of its
\* side, and invalid exactly when the side has none.
THEOREM BboAlwaysExact == Spec => []BboExact
<1>1. TypeOK /\ BookSound(book) => BboExact
  BY SettledBbo DEF TypeOK, BookSound
<1> QED
  BY <1>1, TypeCorrect, BookAlwaysSound, PTL
=============================================================================
