------------------------- MODULE MatchingEngineProofs ------------------------
(***************************************************************************)
(* Theorems about MatchingEngine, for every pool size, tick range, request *)
(* set, integer width, risk bound and trade buffer.                        *)
(***************************************************************************)
EXTENDS MatchingEngine, OrderBookListProofs

(* The engine's steps, as the book sees them.                              *)

\* The invariants the book keeps under its own requests.
Good(b) == /\ b \in Book /\ BookSound(b) /\ Held(b)
           /\ b.fault = "None" => Asked(b)

\* A good book in which no assertion has failed is whole.
LEMMA GoodWhole ==
    ASSUME NEW b, Good(b), b.fault = "None"
    PROVE  Whole(b) /\ Asked(b)
BY DEF Good, Whole, BookSound, Settled, Held

\* The book's own requests keep it good: the theorems about OrderBook, for one step.
LEMMA RequestGood ==
    ASSUME Good(book), [Next]_book
    PROVE  Good(book')
<1>1. CASE UNCHANGED book
  BY <1>1 DEF Good
<1>2. CASE Next
  <2>1. Whole(book) /\ Asked(book)
    <3>1. book.fault = "None"
      BY <1>2 DEF Next, Add, Cancel, Execute, Delete, Replace, Modify, Running
    <3> QED
      BY <3>1, GoodWhole
  <2>2. \A p \in Prices : p \in Nat
    BY RequestAssumption
  <2>3. CASE Add
    <3>1. PICK id \in OrderIds, s \in Sides, p \in Prices, q \in Qtys :
                  book' = AddOrder(book, id, s, p, q)
      BY <2>3 DEF Add
    <3>2. book' \in Book /\ OrdersAccountedIn(book') /\ LevelsSound(book')
      BY <2>1, <2>2, <3>1, AddType, AddAccounted, AddSound DEF Whole
    <3>3. Settled(book') /\ Held(book')
      BY <2>1, <2>2, <3>1, AddSettled, AddHeld DEF Whole
    <3> QED
      BY <3>2, <3>3, <1>2, <2>1, RequestStep DEF Good, BookSound, Answered, Served
  <2>4. CASE Cancel \/ Execute
    <3>1. PICK id \in OrderIds, q \in Qtys : book' = CancelOrder(book, id, q)
      BY <2>4 DEF Cancel, Execute, ExecuteOrder
    <3>2. book' \in Book /\ OrdersAccountedIn(book') /\ LevelsSound(book')
      BY <2>1, <3>1, CancelType, CancelAccounted, CancelSound DEF Whole
    <3>3. Settled(book') /\ Held(book')
      BY <2>1, <3>1, CancelSettled, CancelHeld DEF Whole
    <3> QED
      BY <3>2, <3>3, <1>2, <2>1, RequestStep DEF Good, BookSound, Answered, Served
  <2>5. CASE Delete
    <3>1. PICK id \in OrderIds : book' = DeleteOrder(book, id)
      BY <2>5 DEF Delete
    <3>2. book' \in Book /\ OrdersAccountedIn(book') /\ LevelsSound(book')
      BY <2>1, <3>1, DeleteType, DeleteAccounted, DeleteSound DEF Whole
    <3>3. Settled(book') /\ Held(book')
      BY <2>1, <3>1, DeleteSettled, DeleteHeld DEF Whole
    <3> QED
      BY <3>2, <3>3, <1>2, <2>1, RequestStep DEF Good, BookSound, Answered, Served
  <2>6. CASE Replace
    <3>1. PICK id \in OrderIds, new \in OrderIds, s \in Sides, p \in Prices, q \in Qtys :
                  book' = ReplaceOrder(book, id, new, s, p, q)
      BY <2>6 DEF Replace
    <3>2. book' \in Book /\ OrdersAccountedIn(book') /\ LevelsSound(book')
      BY <2>1, <2>2, <3>1, ReplaceType, ReplaceAccounted, ReplaceSound DEF Whole
    <3>3. Settled(book') /\ Held(book')
      BY <2>1, <2>2, <3>1, ReplaceSettled, ReplaceHeld DEF Whole
    <3> QED
      BY <3>2, <3>3, <1>2, <2>1, RequestStep DEF Good, BookSound, Answered, Served
  <2>7. CASE Modify
    <3>1. PICK id \in OrderIds, q \in Qtys : book' = ModifyOrder(book, id, q)
      BY <2>7 DEF Modify
    <3>2. book' \in Book /\ OrdersAccountedIn(book') /\ LevelsSound(book')
      BY <2>1, <3>1, ModifyType, ModifyAccounted, ModifySound DEF Whole
    <3>3. Settled(book') /\ Held(book')
      BY <2>1, <3>1, ModifySettled, ModifyHeld DEF Whole
    <3> QED
      BY <3>2, <3>3, <1>2, <2>1, RequestStep DEF Good, BookSound, Answered, Served
  <2> QED
    BY <1>2, <2>3, <2>4, <2>5, <2>6, <2>7 DEF Next
<1> QED
  BY <1>1, <1>2

\* So does a trade buffer that runs over: the process ends, the book is as it was.
LEMMA FailGood ==
    ASSUME NEW b, Good(b), NEW why \in Faults \ {"None", "Internal"}
    PROVE  Good(Fail(b, why)) /\ Fail(b, why).fault = why
<1>1. Fail(b, why) \in Book /\ Fail(b, why).fault = why
  BY FailType DEF Good, Fail, Book
<1>2. OrdersAccountedIn(Fail(b, why)) /\ LevelsSound(Fail(b, why))
  BY FailAccounted, FailSound DEF Good, BookSound
<1>3. Settled(Fail(b, why)) /\ Held(Fail(b, why))
  BY FailSettled, FailHeld DEF Good
<1> QED
  BY <1>1, <1>2, <1>3 DEF Good, BookSound

\* A new book is good.
LEMMA InitGood == Good(InitialBook)
BY InitType, InitAccounted, InitSound, InitSettled, InitHeld, EmptyShown DEF Good, BookSound
-----------------------------------------------------------------------------
(* The sides and prices at which orders rest.                              *)

\* The orders of c rest at sides and prices at which orders of b rest, except that
\* one more may have joined side s at price p.
WithinBut(b, c, s, p) ==
    \A j \in Live(c) : \/ c.orders[j].side = s /\ c.orders[j].price = p
                       \/ \E i \in Live(b) : /\ c.orders[j].side = b.orders[i].side
                                             /\ c.orders[j].price = b.orders[i].price
Within(b, c) ==
    \A j \in Live(c) : \E i \in Live(b) : /\ c.orders[j].side = b.orders[i].side
                                          /\ c.orders[j].price = b.orders[i].price

\* delete_order_internal frees its order's slot and leaves every other order where it
\* was.
LEMMA DeleteInternalFrees ==
    ASSUME NEW b \in Book, NEW i \in OrderSlots, NEW s \in Sides, NEW l \in LevelSlots,
           NEW j \in Live(DeleteOrderInternal(b, i, s, l))
    PROVE  LET d == DeleteOrderInternal(b, i, s, l)
           IN  /\ j \in Live(b) /\ j # i
               /\ d.orders[j].side = b.orders[j].side /\ d.orders[j].price = b.orders[j].price
<1> DEFINE u == Unlink(b, l, i)
           f == FreeOrder(u, l, i)
           d == DeleteOrderInternal(b, i, s, l)
<1>1. u \in Book /\ SameContents(b, u)
  BY UnlinkType, UnlinkSameContents
<1> HIDE DEF u
<1>2. f.orders = [u.orders EXCEPT ![i] = NoOrder] /\ f \in Book
  BY <1>1, FreeType DEF FreeOrder, Book
<1> HIDE DEF f
<1>3. RemoveAndDestroyLevel(f, s, l).orders = f.orders
  <2>1. RemoveLevel(f, s, l).orders = f.orders /\ RemoveLevel(f, s, l) \in Book
    BY <1>2, RemoveType DEF RemoveLevel, Book
  <2> QED
    BY <1>2, <2>1 DEF RemoveAndDestroyLevel, Fail, Book
<1>4. d.orders = f.orders
  BY <1>3 DEF DeleteOrderInternal, f, u
<1> HIDE DEF d
<1>5. j \in OrderSlots /\ d.orders[j].order_id # kInvalid
  BY DEF Live, d
<1>6. j # i
  BY <1>1, <1>2, <1>4, <1>5 DEF Book, NoOrder
<1>7. d.orders[j] = u.orders[j]
  BY <1>1, <1>2, <1>4, <1>5, <1>6 DEF Book
<1>8. /\ j \in Live(b) /\ d.orders[j].side = b.orders[j].side
      /\ d.orders[j].price = b.orders[j].price
  BY <1>1, <1>5, <1>7 DEF SameContents, Live
<1> QED
  BY <1>6, <1>8 DEF d

\* So the orders that stay do not move.
LEMMA DeleteInternalWithin ==
    ASSUME NEW b \in Book, NEW i \in OrderSlots, NEW s \in Sides, NEW l \in LevelSlots
    PROVE  Within(b, DeleteOrderInternal(b, i, s, l))
<1> DEFINE d == DeleteOrderInternal(b, i, s, l)
<1>1. ASSUME NEW j \in Live(d)
      PROVE  /\ j \in Live(b) /\ d.orders[j].side = b.orders[j].side
             /\ d.orders[j].price = b.orders[j].price
  BY DeleteInternalFrees
<1> HIDE DEF d
<1>2. Within(b, d)
  BY <1>1 DEF Within
<1> QED
  BY <1>2 DEF d

\* Changes of quantities and totals move no order.
LEMMA SameWithin ==
    ASSUME NEW b, NEW c, SameContents(b, c), NEW d, Within(c, d)
    PROVE  Within(b, d)
<1>1. Live(c) = Live(b) /\ Live(b) \subseteq OrderSlots
  BY DEF SameContents, Live
<1> QED
  BY <1>1 DEF SameContents, Within

\* A step that leaves the orders alone moves none.
LEMMA WithinItself == ASSUME NEW b PROVE Within(b, b)
BY DEF Within

\* Quantity q leaves the order in slot i and level l, where it is: b becomes c.
Reduced(b, c, i, l, q) ==
    LET o == b.orders[i]
        r == DropQty([b EXCEPT !.orders[i].remaining_qty = @ - q], l, q)
    IN  /\ c = IF q = o.remaining_qty THEN DeleteOrderInternal(r, i, o.side, l) ELSE r
        /\ r \in Book /\ SameContents(b, r) /\ TakesQty(b, r, i, l, q)

\* cancel_order and execute_order, of no more than is left: the code's own assertions
\* hold, and no order moves.
LEMMA CancelServed ==
    ASSUME NEW b, Whole(b), Asked(b), NEW id \in DOMAIN b.order_map, NEW q \in Qtys,
           q <= b.orders[b.order_map[id]].remaining_qty
    PROVE  LET i == b.order_map[id]
               o == b.orders[i]
               l == FindByPrice(b, o.side, o.price)
               c == CancelOrder(b, id, q)
           IN  Reduced(b, c, i, l, q) /\ c.fault = "None" /\ Within(b, c)
<1> DEFINE i == b.order_map[id]
           o == b.orders[i]
           l == FindByPrice(b, o.side, o.price)
           less == [b EXCEPT !.orders[i].remaining_qty = @ - q]
           r == DropQty(less, l, q)
           d == DeleteOrderInternal(r, i, o.side, l)
           c == CancelOrder(b, id, q)
<1>1. /\ i \in Live(b) /\ i \in OrderSlots /\ o \in Order /\ b \in Book
      /\ o.side \in Sides /\ o.price \in Nat /\ o.remaining_qty \in Nat /\ q \in Nat
      /\ l # kInvalid /\ l \in LevelSlots /\ l \in b.sides[o.side].tree
      /\ b.levels[l].price = o.price
  BY LookupHoused, QtyNat DEF Whole
<1>2. [o EXCEPT !.remaining_qty = @ - q] \in Order
  <2>1. o \in Order
    BY <1>1
  <2> QED
    BY <2>1, RequestAssumption DEF Order, Qtys
<1>3. less \in Book /\ SameLevels(b, less) /\ SameContents(b, less)
  BY <1>1, <1>2 DEF Book, SameLevels, SameContents, Order
<1>4. TakesQty(b, r, i, l, q)
  <2> HIDE DEF l
  <2> QED
    BY <1>1, DropTakes
<1>5. c = IF q = o.remaining_qty THEN d ELSE r
  <2>1. ~(q > o.remaining_qty)
    BY <1>1
  <2> QED
    BY <1>1, <2>1 DEF CancelOrder
<1> HIDE DEF less, l, c
<1>6. r \in Book /\ SameLevels(less, r) /\ SameContents(less, r)
  BY <1>1, <1>3, DropType, DropSameLevels, DropSameContents
<1> HIDE DEF r
<1>7. SameLevels(b, r) /\ SameContents(b, r) /\ r.fault = "None"
  BY <1>3, <1>6 DEF SameLevels, SameContents, Whole
<1>8. Within(b, d) /\ Within(b, r)
  <2>1. Within(r, d) /\ Within(r, r)
    BY <1>1, <1>6, DeleteInternalWithin, WithinItself
  <2> HIDE DEF d
  <2> QED
    BY <1>7, <2>1, SameWithin
<1>9. c.fault = "None"
  <2>1. CASE q = o.remaining_qty
    <3>1. d.fault = "None"
      <4>1. TakesQty(b, r, i, l, b.orders[i].remaining_qty)
        BY <1>4, <2>1
      <4> QED
        BY <1>1, <1>6, <1>7, <4>1, TakenDeparts
    <3> QED
      BY <1>5, <2>1, <3>1
  <2>2. CASE q # o.remaining_qty
    BY <1>5, <1>7, <2>2
  <2> QED
    BY <2>1, <2>2
<1> HIDE DEF d
<1>10. Within(b, c)
  BY <1>5, <1>8
<1>11. Reduced(b, c, i, l, q)
  BY <1>4, <1>5, <1>6, <1>7 DEF Reduced, d, r, less
<1> QED
  BY <1>9, <1>10, <1>11 DEF c, l

\* An order of which everything is cancelled or executed gives its slot back, and the
\* others keep their prices.
LEMMA CancelFrees ==
    ASSUME NEW b, Whole(b), Asked(b), NEW id \in DOMAIN b.order_map,
           b.orders[b.order_map[id]].remaining_qty \in Qtys
    PROVE  LET i == b.order_map[id]
               c == CancelOrder(b, id, b.orders[i].remaining_qty)
           IN  \A j \in Live(c) : j \in Live(b) \ {i} /\ c.orders[j].price = b.orders[j].price
<1> DEFINE i == b.order_map[id]
           o == b.orders[i]
           q == o.remaining_qty
           l == FindByPrice(b, o.side, o.price)
           r == DropQty([b EXCEPT !.orders[i].remaining_qty = @ - q], l, q)
           c == CancelOrder(b, id, q)
<1>1. /\ i \in Live(b) /\ i \in OrderSlots /\ o.side \in Sides /\ q \in Nat /\ l \in LevelSlots
  BY LookupHoused DEF Whole
<1>2. Reduced(b, c, i, l, q)
  <2>1. q <= q
    BY <1>1
  <2> QED
    BY <2>1, CancelServed
<1>3. c = DeleteOrderInternal(r, i, o.side, l) /\ r \in Book /\ SameContents(b, r)
  BY <1>2 DEF Reduced
<1> HIDE DEF r, l, c
<1>4. ASSUME NEW j \in Live(c)
      PROVE  j \in Live(b) \ {i} /\ c.orders[j].price = b.orders[j].price
  <2>1. Live(r) = Live(b) /\ \A h \in Live(b) : r.orders[h].price = b.orders[h].price
    BY <1>3 DEF SameContents, Live
  <2> HIDE DEF i, o
  <2>2. j \in Live(r) /\ j # i /\ c.orders[j].price = r.orders[j].price
    BY <1>1, <1>3, <1>4, DeleteInternalFrees
  <2> QED
    BY <2>1, <2>2
<1> QED
  BY <1>4 DEF c

\* cancel_order and execute_order, of any quantity.
LEMMA CancelWithin ==
    ASSUME NEW b, Whole(b), Asked(b), NEW id \in OrderIds, NEW q \in Qtys,
           CancelOrder(b, id, q).fault = "None"
    PROVE  Within(b, CancelOrder(b, id, q))
<1>1. Fail(b, "Request").fault # "None"
  BY DEF Fail, Whole, Book
<1>2. id \in DOMAIN b.order_map /\ ~(q > b.orders[b.order_map[id]].remaining_qty)
  BY <1>1 DEF CancelOrder
<1>3. q <= b.orders[b.order_map[id]].remaining_qty
  BY <1>2, LookupType, RequestAssumption DEF Whole, Order, Qtys
<1> QED
  BY <1>2, <1>3, CancelServed

\* delete_order.
LEMMA DeleteWithin ==
    ASSUME NEW b, Whole(b), Asked(b), NEW id \in OrderIds, DeleteOrder(b, id).fault = "None"
    PROVE  Within(b, DeleteOrder(b, id)) /\ id \in DOMAIN b.order_map
<1> DEFINE i == b.order_map[id]
           o == b.orders[i]
           l == FindByPrice(b, o.side, o.price)
           r == DropQty(b, l, o.remaining_qty)
           d == DeleteOrder(b, id)
<1>1. Fail(b, "Request").fault # "None"
  BY DEF Fail, Whole, Book
<1>2. id \in DOMAIN b.order_map
  BY <1>1 DEF DeleteOrder
<1>3. /\ i \in OrderSlots /\ o.side \in Sides /\ o.remaining_qty \in Qtys /\ b \in Book
      /\ l # kInvalid /\ l \in LevelSlots
  BY <1>2, LookupHoused DEF Whole
<1>4. d = DeleteOrderInternal(r, i, o.side, l)
  BY <1>2, <1>3 DEF DeleteOrder
<1> HIDE DEF l, d
<1>5. r \in Book /\ SameContents(b, r)
  BY <1>3, DropType, DropSameContents
<1> HIDE DEF r
<1>6. Within(r, d)
  BY <1>3, <1>4, <1>5, DeleteInternalWithin
<1> QED
  BY <1>2, <1>5, <1>6, SameWithin DEF d

\* Steps 2-4 of add_order: only the new order is at a place of its own.
LEMMA EnterWithin ==
    ASSUME NEW b \in Book, OrdersAccountedIn(b), NEW l \in LevelSlots,
           NEW id \in OrderIds, NEW s \in Sides, NEW p \in Nat, NEW q \in Qtys
    PROVE  LET c == EnterOrder(b, l, id, s, p, q)
           IN  c.fault = "None" => WithinBut(b, c, s, p) /\ \E i \in Live(c) : c.orders[i].side = s
<1> DEFINE i == Head(b.order_free)
           a == AppendToLevel(PlaceOrder(b, id, s, p, q), l, i, q)
           c == EnterOrder(b, l, id, s, p, q)
<1>1. \A why : Fail(b, why).fault = why
  BY DEF Fail, Book
<1>2. c.fault = "None" => c = a /\ b.order_free # << >>
  BY <1>1 DEF EnterOrder
<1> HIDE DEF c
<1>3. CASE b.order_free # << >>
  <2>1. /\ i \in OrderSlots /\ i \notin Live(b) /\ Live(a) = Live(b) \cup {i}
        /\ a.orders[i].side = s /\ a.orders[i].price = p
        /\ \A j \in OrderSlots \ {i} : /\ a.orders[j].side = b.orders[j].side
                                       /\ a.orders[j].price = b.orders[j].price
    <3>1. i \in OrderSlots /\ i \notin Live(b) /\ Live(a) = Live(b) \cup {i}
      BY <1>3, EnteredContents
    <3>2. a.orders[i].side = s /\ a.orders[i].price = p
      BY <1>3, EnteredContents
    <3>3. \A j \in OrderSlots \ {i} : /\ a.orders[j].side = b.orders[j].side
                                     /\ a.orders[j].price = b.orders[j].price
      BY <1>3, EnteredContents
    <3> QED
      BY <3>1, <3>2, <3>3
  <2>2. Live(b) \subseteq OrderSlots \ {i}
    BY <2>1 DEF Live
  <2> HIDE DEF a, i
  <2>3. WithinBut(b, a, s, p) /\ \E j \in Live(a) : a.orders[j].side = s
    BY <2>1, <2>2 DEF WithinBut
  <2> QED
    BY <1>2, <2>3 DEF c
<1>4. CASE b.order_free = << >>
  BY <1>2, <1>4 DEF c
<1> QED
  BY <1>3, <1>4

\* add_order.
LEMMA AddWithin ==
    ASSUME NEW b, Whole(b), NEW id \in OrderIds, NEW s \in Sides, NEW p \in Nat, NEW q \in Qtys,
           AddOrder(b, id, s, p, q).fault = "None"
    PROVE  LET c == AddOrder(b, id, s, p, q)
           IN  WithinBut(b, c, s, p) /\ \E i \in Live(c) : c.orders[i].side = s
<1> DEFINE l == FindByPrice(b, s, p)
           new == Head(b.level_free)
           c == CreateLevel(b, s, p)
           d == InsertLevel(c, s, new)
           a == AddOrder(b, id, s, p, q)
<1>1. b \in Book /\ OrdersAccountedIn(b) /\ LevelsSound(b)
  BY DEF Whole
<1>2. \A why : Fail(b, why).fault = why
  BY <1>1 DEF Fail, Book
<1>3. CASE l # kInvalid
  <2>1. l \in LevelSlots
    BY <1>1, <1>3, FindSound, TreeLevels
  <2>2. a = EnterOrder(b, l, id, s, p, q)
    BY <1>2, <1>3 DEF AddOrder
  <2> HIDE DEF l, a
  <2> QED
    BY <1>1, <2>1, <2>2, EnterWithin DEF a
<1>4. CASE l = kInvalid
  <2>1. b.level_free # << >> /\ ~(p >= MaxTicks) /\ a = EnterOrder(d, new, id, s, p, q)
    BY <1>2, <1>4 DEF AddOrder
  <2> HIDE DEF a
  <2>2. c \in Book /\ new \in LevelSlots /\ c.levels[new].price = p
    BY <1>1, <2>1, CreateType
  <2>3. d \in Book
    BY <2>1, <2>2, InsertType, CapacityAssumption
  <2>4. d.orders = b.orders /\ OrdersAccountedIn(d)
    <3>1. d.orders = c.orders /\ c.orders = b.orders
      BY <1>1, <2>2 DEF InsertLevel, CreateLevel, Book
    <3>2. SameOrders(b, c) /\ OrdersAccountedIn(c)
      BY <1>1, <2>2, CreateSame, SameOrdersAccounted
    <3> HIDE DEF c
    <3>3. SameOrders(c, d)
      BY <2>2, InsertSame
    <3> QED
      BY <2>2, <2>3, <3>1, <3>2, <3>3, SameOrdersAccounted
  <2> HIDE DEF d, new
  <2>5. WithinBut(d, a, s, p) /\ \E i \in Live(a) : a.orders[i].side = s
    <3>1. a.fault = "None"
      BY DEF a
    <3> QED
      BY <2>1, <2>2, <2>3, <2>4, <3>1, EnterWithin
  <2> QED
    BY <2>4, <2>5 DEF WithinBut, Live, a
<1> QED
  BY <1>3, <1>4

\* modify_order: an order that goes to the back of its queue stays at its price.
LEMMA ModifyWithin ==
    ASSUME NEW b, Whole(b), Asked(b), NEW id \in OrderIds, NEW q \in Qtys,
           ModifyOrder(b, id, q).fault = "None"
    PROVE  Within(b, ModifyOrder(b, id, q))
<1> DEFINE i == b.order_map[id]
           o == b.orders[i]
           d == DeleteOrder(b, id)
           a == AddOrder(d, id, o.side, o.price, q)
           c == ModifyOrder(b, id, q)
<1>1. Fail(b, "Request").fault # "None"
  BY DEF Fail, Whole, Book
<1>2. id \in DOMAIN b.order_map
  BY <1>1 DEF ModifyOrder
<1>3. /\ i \in Live(b) /\ o.side \in Sides /\ o.price \in Nat
      /\ o.remaining_qty \in Qtys /\ b.fault = "None"
  BY <1>2, LookupType, LookupLive DEF Whole, Order
<1>4. CASE q < o.remaining_qty
  <2>1. o.remaining_qty - q \in Qtys
    BY <1>3, <1>4, RequestAssumption DEF Qtys
  <2>2. c = CancelOrder(b, id, o.remaining_qty - q)
    BY <1>2, <1>4 DEF ModifyOrder
  <2> QED
    BY <2>1, <2>2, CancelWithin
<1>5. CASE ~(q < o.remaining_qty) /\ q > o.remaining_qty
  <2>1. c = Then(d, a)
    BY <1>2, <1>5 DEF ModifyOrder
  <2>2. d.fault = "None" /\ a.fault = "None" /\ c = a
    BY <2>1 DEF Then
  <2>3. Within(b, d)
    BY <2>2, DeleteWithin
  <2>4. Whole(d)
    BY <2>2, DeleteType, DeleteAccounted, DeleteSound, DeleteSettled, DeleteHeld
       DEF Whole, Settled, Held
  <2> HIDE DEF d, c
  <2>5. WithinBut(d, a, o.side, o.price)
    BY <1>3, <2>2, <2>4, AddWithin
  <2> HIDE DEF a
  <2> QED
    BY <1>3, <2>2, <2>3, <2>5 DEF Within, WithinBut, c
<1>6. CASE ~(q < o.remaining_qty) /\ ~(q > o.remaining_qty)
  <2>1. c = b
    BY <1>2, <1>6 DEF ModifyOrder
  <2> QED
    BY <2>1, WithinItself
<1> QED
  BY <1>4, <1>5, <1>6

\* Every bid is below every ask.
Uncrossed(b) ==
    \A i, j \in Live(b) : b.orders[i].side = 0 /\ b.orders[j].side = 1 =>
                              b.orders[i].price < b.orders[j].price

\* A book whose orders rest only where an uncrossed book's do is uncrossed.
LEMMA WithinUncrossed ==
    ASSUME NEW b, NEW c, Within(b, c), Uncrossed(b)
    PROVE  Uncrossed(c)
BY DEF Within, Uncrossed

\* A side whose best level is invalid has no order, and no order of a side is better
\* than its best level.
LEMMA BestBounds ==
    ASSUME NEW b, Whole(b), NEW s \in Sides
    PROVE  LET bbo == b.sides[s].bbo
           IN  /\ bbo = kInvalid => \A j \in Live(b) : b.orders[j].side # s
               /\ bbo # kInvalid => /\ bbo \in LevelSlots /\ bbo \in b.sides[s].tree
                                    /\ b.levels[bbo].price \in Nat
                                    /\ OrdersAt(b, s, b.levels[bbo].price) # {}
                                    /\ \A j \in Live(b) : b.orders[j].side = s =>
                                          ~Better(s, b.orders[j].price, b.levels[bbo].price)
<1> DEFINE bbo == b.sides[s].bbo
<1>1. /\ b.sides[s].tree \subseteq LevelSlots
      /\ \A l \in b.sides[s].tree : b.levels[l].price \in Nat
  BY TreeLevels, CapacityAssumption DEF Whole
<1>2. IF b.sides[s].tree = {} THEN bbo = kInvalid
      ELSE bbo \in b.sides[s].tree /\ IsBest(b, s, bbo)
  BY DEF Whole, SettledBut, BestCached
<1>3. kInvalid \notin LevelSlots
  BY DEF kInvalid, LevelSlots
<1>4. \A j \in Live(b) : b.orders[j].side = s =>
          \E l \in b.sides[s].tree : b.levels[l].price = b.orders[j].price
  BY DEF Whole, SettledBut, Housed
<1>5. bbo # kInvalid => OrdersAt(b, s, b.levels[bbo].price) # {}
  BY <1>2 DEF Whole, SettledBut, InhabitedBut
<1> QED
  BY <1>1, <1>2, <1>3, <1>4, <1>5 DEF IsBest

\* The best bid and the best ask of an uncrossed book.
LEMMA BestUncrossed ==
    ASSUME NEW b, Whole(b), Uncrossed(b), b.sides[0].bbo # kInvalid, b.sides[1].bbo # kInvalid
    PROVE  b.levels[b.sides[0].bbo].price < b.levels[b.sides[1].bbo].price
<1>1. OrdersAt(b, 0, b.levels[b.sides[0].bbo].price) # {}
  BY BestBounds DEF Sides
<1>2. OrdersAt(b, 1, b.levels[b.sides[1].bbo].price) # {}
  BY BestBounds DEF Sides
<1> QED
  BY <1>1, <1>2 DEF Uncrossed, OrdersAt

\* An order joins its side without crossing when the other side's best level is out of
\* its reach.
LEMMA JoinsUncrossed ==
    ASSUME NEW b, Whole(b), Uncrossed(b), NEW s \in Sides, NEW p \in Nat,
           NEW c, WithinBut(b, c, s, p),
           LET bbo == b.sides[1 - s].bbo
           IN  \/ bbo = kInvalid
               \/ ~(IF s = 0 THEN b.levels[bbo].price <= p ELSE b.levels[bbo].price >= p)
    PROVE  Uncrossed(c)
<1> DEFINE r == 1 - s
           bbo == b.sides[r].bbo
<1>1. r \in Sides /\ {r, s} = Sides /\ r # s
  BY DEF Sides
<1>2. \A j \in Live(b) : b.orders[j].price \in Nat /\ b.orders[j].side \in Sides
  BY DEF Whole, Book, Order, Live
<1>3. \A j \in Live(b) : b.orders[j].side = r =>
          IF s = 0 THEN p < b.orders[j].price ELSE b.orders[j].price < p
  <2> SUFFICES ASSUME NEW j \in Live(b), b.orders[j].side = r
               PROVE  IF s = 0 THEN p < b.orders[j].price ELSE b.orders[j].price < p
    OBVIOUS
  <2>1. bbo # kInvalid /\ b.levels[bbo].price \in Nat
        /\ ~Better(r, b.orders[j].price, b.levels[bbo].price)
    BY <1>1, BestBounds
  <2> QED
    BY <1>1, <1>2, <2>1 DEF Better, Sides
<1>4. ASSUME NEW i \in Live(c), NEW j \in Live(c), c.orders[i].side = 0, c.orders[j].side = 1
      PROVE  c.orders[i].price < c.orders[j].price
  <2> DEFINE Old(k) == \E m \in Live(b) : /\ c.orders[k].side = b.orders[m].side
                                         /\ c.orders[k].price = b.orders[m].price
             New(k) == c.orders[k].side = s /\ c.orders[k].price = p
  <2>1. (Old(i) \/ New(i)) /\ (Old(j) \/ New(j))
    BY DEF WithinBut
  <2>2. CASE Old(i) /\ Old(j)
    BY <1>4, <2>2 DEF Uncrossed
  <2>3. CASE New(i) /\ Old(j)
    BY <1>1, <1>3, <1>4, <2>3
  <2>4. CASE Old(i) /\ New(j)
    BY <1>1, <1>3, <1>4, <2>4
  <2> QED
    BY <1>4, <2>1, <2>2, <2>3, <2>4
<1> QED
  BY <1>4 DEF Uncrossed
-----------------------------------------------------------------------------
(* The head of a level.                                                    *)

\* The head of a level is a live order of the level, and what comes after it is another.
LEMMA HeadQueued ==
    ASSUME NEW b, Whole(b), NEW s \in Sides, NEW l \in b.sides[s].tree
    PROVE  LET i == b.levels[l].head_order_idx
               next == b.orders[i].next_in_level
           IN  /\ i \in OrderSlots /\ i \in On(b, s, l)
               /\ next = kInvalid \/ next \in On(b, s, l) \ {i}
<1> DEFINE D == On(b, s, l)
<1>1. b \in Book /\ l \in LevelSlots /\ l # kInvalid /\ D # {}
  <2>1. l \in LevelSlots
    BY TreeLevels DEF Whole
  <2>2. l # kInvalid
    BY <2>1 DEF LevelSlots, kInvalid
  <2> QED
    BY <2>1, <2>2 DEF Whole, SettledBut, InhabitedBut, On
<1>2. Queued(b, l, D \ {})
  BY DEF Whole, HeldBut, QueuesBut
<1> HIDE DEF D
<1>3. PICK n \in Nat :
        \E q \in [1..n -> OrderSlots] : Chain(b, l, n, q) /\ Entries(n, q) = D \ {}
  BY <1>2 DEF Queued
<1>4. PICK q \in [1..n -> OrderSlots] : Chain(b, l, n, q) /\ Entries(n, q) = D \ {}
  BY <1>3
<1>5. n # 0 /\ 1 \in 1..n /\ (n # 1 => 2 \in 1..n)
  BY <1>1, <1>4 DEF Entries
<1>6. \A m \in 1..n : q[m] \in D
  BY <1>4 DEF Entries
<1>7. b.levels[l].head_order_idx = q[1]
  BY <1>4, <1>5 DEF Chain
<1>8. b.orders[q[1]].next_in_level = IF n = 1 THEN kInvalid ELSE q[2]
  BY <1>4, <1>5 DEF Chain, Linked
<1>9. n # 1 => q[2] # q[1]
  BY <1>4, <1>5 DEF Chain
<1> QED
  BY <1>4, <1>5, <1>6, <1>7, <1>8, <1>9 DEF D

\* A live order is mapped to by an id a request has carried.
LEMMA LiveMapped ==
    ASSUME NEW b, Whole(b), NEW i \in Live(b)
    PROVE  LET id == b.orders[i].order_id
           IN  id \in DOMAIN b.order_map /\ b.order_map[id] = i /\ id \in OrderIds
<1>1. b.orders[i].order_id \in DOMAIN b.order_map /\ b.order_map[b.orders[i].order_id] = i
  BY DEF Whole, OrdersAccountedIn
<1>2. DOMAIN b.order_map \subseteq OrderIds
  BY DEF Whole, Book
<1> QED
  BY <1>1, <1>2

\* The list of level l has a second order, and it leads when the head is executed in
\* full.
HasSecond(b, l) ==
    LET i == b.levels[l].head_order_idx IN b.orders[i].next_in_level # kInvalid
SecondLeads(b, s, l) ==
    LET i == b.levels[l].head_order_idx
        next == b.orders[i].next_in_level
        c == CancelOrder(b, b.orders[i].order_id, b.orders[i].remaining_qty)
    IN  /\ c.sides[s].bbo = l /\ c.levels[l].head_order_idx = next
        /\ c.orders[next] # NoOrder /\ next \in OrderSlots

\* The head of the best level executed to its last unit: if another order is next, the
\* level stays the best one and that order is its head.
LEMMA HeadExecuted ==
    ASSUME NEW b, Whole(b), Asked(b), NEW s \in Sides, NEW l \in b.sides[s].tree,
           b.sides[s].bbo = l, HasSecond(b, l)
    PROVE  SecondLeads(b, s, l)
<1> DEFINE i == b.levels[l].head_order_idx
           o == b.orders[i]
           next == o.next_in_level
           D == On(b, s, l)
<1>1. /\ b \in Book /\ LevelsSound(b) /\ l \in LevelSlots
      /\ i \in OrderSlots /\ i \in D /\ next \in D \ {i} /\ next # kInvalid
  <2>1. b \in Book /\ LevelsSound(b) /\ b.orders[b.levels[l].head_order_idx].next_in_level # kInvalid
    BY DEF Whole, HasSecond
  <2> QED
    BY <2>1, HeadQueued, TreeLevels
<1>2. /\ i \in Live(b) /\ o.side = s /\ o.price = b.levels[l].price
      /\ next \in Live(b) /\ next \in OrderSlots
  BY <1>1 DEF On, OrdersAt, Live
<1>3. /\ o.order_id \in DOMAIN b.order_map /\ b.order_map[o.order_id] = i
      /\ o.remaining_qty \in Qtys /\ o.remaining_qty \in Nat /\ o.price \in Nat
  <2>1. o \in Order
    BY <1>1 DEF Book
  <2> QED
    BY <1>2, <2>1, LiveMapped, RequestAssumption DEF Order, Qtys
<1>4. FindByPrice(b, s, o.price) = l
  <2>1. \A m \in b.sides[s].tree : b.levels[m].price = b.levels[l].price => m = l
    BY <1>1, TreeLevels
  <2> DEFINE m == FindByPrice(b, s, o.price)
  <2>2. /\ m # kInvalid => m \in b.sides[s].tree /\ b.levels[m].price = o.price
        /\ m = kInvalid => \A h \in b.sides[s].tree : b.levels[h].price # o.price
    BY <1>1, <1>3, FindSound
  <2> HIDE DEF m, o, i
  <2>3. m = l
    BY <1>2, <2>1, <2>2
  <2> QED
    BY <2>3 DEF m
<1> DEFINE r == DropQty([b EXCEPT !.orders[i].remaining_qty = @ - o.remaining_qty], l,
                        o.remaining_qty)
           u == Unlink(r, l, i)
           f == FreeOrder(u, l, i)
           c == CancelOrder(b, o.order_id, o.remaining_qty)
<1>5. /\ c = DeleteOrderInternal(r, i, s, l)
      /\ r \in Book /\ SameContents(b, r) /\ TakesQty(b, r, i, l, o.remaining_qty)
  <2>1. o.remaining_qty <= o.remaining_qty
    BY <1>3
  <2> DEFINE j == b.order_map[o.order_id]
             m == FindByPrice(b, b.orders[j].side, b.orders[j].price)
  <2>2. Reduced(b, c, j, m, o.remaining_qty)
    BY <1>3, <2>1, CancelServed
  <2>3. j = i /\ m = l
    BY <1>2, <1>3, <1>4
  <2> HIDE DEF j, m, c
  <2>4. Reduced(b, c, i, l, o.remaining_qty)
    BY <2>2, <2>3
  <2> QED
    BY <1>2, <2>4 DEF Reduced
<1> HIDE DEF c, r
<1>6. /\ r.levels[l].head_order_idx = i /\ r.orders[i].next_in_level = next
      /\ r.levels[l].order_count = b.levels[l].order_count
      /\ r.orders[next].order_id = b.orders[next].order_id
      /\ r.sides = b.sides
  BY <1>1, <1>2, <1>5 DEF TakesQty, SameContents
<1>7. /\ u.levels[l].head_order_idx = next /\ u.orders = r.orders /\ u.sides = r.sides
      /\ u.levels[l].order_count = r.levels[l].order_count /\ u \in Book
  <2>1. u = [r EXCEPT !.levels[l].head_order_idx = next, !.levels[l].tail_order_idx = @]
    BY <1>1, <1>5, <1>6 DEF Unlink
  <2>2. u \in Book
    BY <1>1, <1>5, UnlinkType
  <2> HIDE DEF u, i, o
  <2> QED
    BY <1>1, <1>5, <2>1, <2>2 DEF Book, Level
<1> HIDE DEF u
<1>8. /\ f.levels[l].head_order_idx = next /\ f.sides = u.sides
      /\ f.levels[l].order_count = u.levels[l].order_count - 1
      /\ f.orders[next] = u.orders[next]
  <2> HIDE DEF o, i
  <2> QED
    BY <1>1, <1>2, <1>7 DEF FreeOrder, Book, Level
<1>9. f.levels[l].order_count # 0
  <2>1. b.levels[l].order_count = Cardinality(D)
    BY DEF Whole, SettledBut, CountsIn, On
  <2>2. IsFiniteSet(D) /\ Cardinality(D) \in Nat
    BY OrdersAtFinite DEF On
  <2>3. Cardinality(D) # 1
    <3>1. Cardinality(D \ {i}) = Cardinality(D) - 1 /\ IsFiniteSet(D \ {i})
      BY <1>1, <2>2, FS_RemoveElement
    <3>2. Cardinality(D \ {i}) # 0
      BY <1>1, <3>1, FS_EmptySet
    <3> QED
      BY <2>2, <3>1, <3>2
  <2>4. f.levels[l].order_count = b.levels[l].order_count - 1
    BY <1>6, <1>7, <1>8
  <2> HIDE DEF D, f
  <2> QED
    BY <2>1, <2>2, <2>3, <2>4
<1>10. c = f
  BY <1>5, <1>9 DEF DeleteOrderInternal, f, u
<1> HIDE DEF f
<1>11. c.orders[next].order_id # kInvalid
  BY <1>2, <1>6, <1>7, <1>8, <1>10 DEF Live
<1> HIDE DEF next
<1>12. c.orders[next] # NoOrder
  BY <1>11 DEF NoOrder
<1>13. c.sides[s].bbo = l /\ c.levels[l].head_order_idx = next
  <2>1. c.sides = b.sides
    BY <1>6, <1>7, <1>8, <1>10
  <2> QED
    BY <1>8, <1>10, <2>1
<1> QED
  BY <1>2, <1>12, <1>13 DEF SecondLeads, c, next
-----------------------------------------------------------------------------
(* The sum TradedQty makes of the trades.                                  *)

IsTally(tr, N, f) == f = [n \in 0..N |-> IF n = 0 THEN 0 ELSE f[n - 1] + tr[n].quantity]

\* TradedQty, of any trades.
Tally(tr) == LET sum[n \in 0..Len(tr)] == IF n = 0 THEN 0 ELSE sum[n - 1] + tr[n].quantity
             IN  sum[Len(tr)]

\* The partial sums are defined, for every length: induction on the length.
LEMMA TallyExists ==
    ASSUME NEW tr, NEW N \in Nat
    PROVE  \E f : IsTally(tr, N, f)
<1> DEFINE bad == {M \in Nat : ~ \E f : IsTally(tr, M, f)}
<1> SUFFICES ASSUME bad # {}
             PROVE  FALSE
  OBVIOUS
<1>1. PICK M \in bad : \A K \in bad : M <= K
  BY LeastNatural
<1>2. CASE M = 0
  <2> DEFINE f == [n \in 0..0 |-> 0]
  <2>1. f = [n \in 0..0 |-> IF n = 0 THEN 0 ELSE f[n - 1] + tr[n].quantity]
    OBVIOUS
  <2>2. IsTally(tr, 0, f)
    BY <2>1 DEF IsTally
  <2> QED
    BY <1>1, <1>2, <2>2
<1>3. CASE M # 0
  <2>1. M - 1 \in Nat /\ M - 1 \notin bad
    BY <1>1, <1>3
  <2>2. PICK g : IsTally(tr, M - 1, g)
    BY <2>1
  <2> DEFINE f == [n \in 0..M |-> IF n = 0 THEN 0 ELSE g[n - 1] + tr[n].quantity]
  <2>3. \A n \in 0..(M - 1) : f[n] = g[n]
    <3> SUFFICES ASSUME NEW n \in 0..(M - 1)
                 PROVE  f[n] = g[n]
      OBVIOUS
    <3>1. g[n] = IF n = 0 THEN 0 ELSE g[n - 1] + tr[n].quantity
      BY <2>2 DEF IsTally
    <3>2. n \in 0..M
      BY <1>1
    <3> QED
      BY <3>1, <3>2
  <2>4. f = [n \in 0..M |-> IF n = 0 THEN 0 ELSE f[n - 1] + tr[n].quantity]
    <3>1. \A n \in 0..M : n # 0 => g[n - 1] = f[n - 1]
      <4> SUFFICES ASSUME NEW n \in 0..M, n # 0
                   PROVE  g[n - 1] = f[n - 1]
        OBVIOUS
      <4>1. n - 1 \in 0..(M - 1)
        BY <1>1
      <4> HIDE DEF f
      <4> QED
        BY <2>3, <4>1
    <3> QED
      BY <3>1
  <2>5. IsTally(tr, M, f)
    BY <2>4 DEF IsTally
  <2> QED
    BY <1>1, <2>5
<1> QED
  BY <1>2, <1>3

\* They depend on the trades summed up only: induction on their number.
LEMMA TalliesAgree ==
    ASSUME NEW tr, NEW tw, NEW N \in Nat, NEW M \in Nat, N <= M, NEW f, NEW g,
           IsTally(tr, N, f), IsTally(tw, M, g), \A k \in 1..N : tr[k] = tw[k]
    PROVE  f[N] = g[N]
<1> DEFINE bad == {n \in Nat : n <= N /\ f[n] # g[n]}
<1>1. bad = {}
  <2> SUFFICES ASSUME bad # {}
               PROVE  FALSE
    OBVIOUS
  <2>1. PICK n \in bad : \A k \in bad : n <= k
    BY LeastNatural
  <2>2. n \in 0..N /\ n \in 0..M
    BY <2>1
  <2>3. /\ f[n] = IF n = 0 THEN 0 ELSE f[n - 1] + tr[n].quantity
        /\ g[n] = IF n = 0 THEN 0 ELSE g[n - 1] + tw[n].quantity
    BY <2>2 DEF IsTally
  <2>4. n # 0
    BY <2>1, <2>3
  <2>5. f[n - 1] = g[n - 1]
    <3>1. n - 1 \in Nat /\ n - 1 <= N /\ ~(n <= n - 1)
      BY <2>2, <2>4
    <3> QED
      BY <2>1, <3>1
  <2>6. tr[n] = tw[n]
    BY <2>2, <2>4
  <2> QED
    BY <2>1, <2>3, <2>4, <2>5, <2>6
<1> QED
  BY <1>1

\* No trades, no quantity; and a further trade adds its own.
LEMMA TallyIs ==
    ASSUME NEW tr, Len(tr) \in Nat
    PROVE  \E f : IsTally(tr, Len(tr), f) /\ Tally(tr) = f[Len(tr)]
<1> DEFINE f == CHOOSE f : IsTally(tr, Len(tr), f)
<1>1. IsTally(tr, Len(tr), f)
  BY TallyExists
<1>2. Tally(tr) = f[Len(tr)]
  BY DEF Tally, IsTally
<1> QED
  BY <1>1, <1>2

\* A call that has not traded yet has traded nothing.
LEMMA TallyEmpty == Tally(<< >>) = 0
<1>1. Len(<< >>) = 0
  OBVIOUS
<1>2. PICK f : IsTally(<< >>, 0, f) /\ Tally(<< >>) = f[0]
  BY <1>1, TallyIs
<1> QED
  BY <1>2 DEF IsTally

\* result.trades.push_back adds the quantity of the new trade.
LEMMA TallyAppend ==
    ASSUME NEW T, NEW tr \in Seq(T), NEW t \in T
    PROVE  Tally(Append(tr, t)) = Tally(tr) + t.quantity
<1> DEFINE tw == Append(tr, t)
           N == Len(tr)
<1>1. N \in Nat /\ Len(tw) = N + 1 /\ tw[N + 1] = t /\ \A k \in 1..N : tr[k] = tw[k]
  BY AppendProperties, LenProperties
<1>2. PICK f : IsTally(tr, N, f) /\ Tally(tr) = f[N]
  BY <1>1, TallyIs
<1>3. PICK g : IsTally(tw, N + 1, g) /\ Tally(tw) = g[N + 1]
  <2>1. N + 1 \in Nat
    BY <1>1
  <2> HIDE DEF tw
  <2> QED
    BY <1>1, <2>1, TallyIs
<1> HIDE DEF tw, N
<1>4. f[N] = g[N]
  BY <1>1, <1>2, <1>3, TalliesAgree
<1>5. g[N + 1] = g[N] + tw[N + 1].quantity
  <2>1. N + 1 \in 0..(N + 1) /\ N + 1 # 0 /\ (N + 1) - 1 = N
    BY <1>1
  <2> QED
    BY <1>3, <2>1 DEF IsTally
<1> QED
  BY <1>1, <1>2, <1>3, <1>4, <1>5 DEF tw
-----------------------------------------------------------------------------
(* The inductive invariant.                                                *)

\* Between calls the engine holds nothing; during the matching loop, what has traded and
\* what is left of the incoming order make up the order.
Locals ==
    /\ pc = "idle" => trades = << >>
    /\ pc \in {"level", "sweep", "finish"} =>
            /\ incoming \in Actions /\ TradedQty \in Int
            /\ TradedQty + incoming.qty = before.action.qty

\* When the matching loop is left with quantity to fill, nothing is in reach.
Exhausted ==
    pc = "finish" /\ incoming.qty > 0 =>
        LET bbo == book.sides[Opposite(incoming)].bbo
        IN  bbo = kInvalid \/ ~Reaches(incoming, book.levels[bbo].price)

EngineInv ==
    /\ EngineTypeOK /\ Good(book) /\ Locals
    /\ Running => Uncrossed(book) /\ IteratorAtBestHead /\ Exhausted

\* What an engine step does to the book: a request of its own, or a failed push_back.
Overrun == Fill /\ BufferFull /\ book' = Fail(book, "TradeBuffer")
BookStep == [Next]_book \/ Overrun

\* Whatever an engine step does to the book, the book stays good.
LEMMA BookStepGood ==
    ASSUME Good(book), BookStep
    PROVE  Good(book')
BY RequestGood, FailGood DEF BookStep, Overrun, Faults

\* The incoming order.
LEMMA ActionType ==
    ASSUME NEW a \in Actions
    PROVE  /\ a.order_id \in OrderIds /\ a.side \in Sides /\ Opposite(a) \in Sides
           /\ a.qty \in Qtys /\ a.qty \in Nat /\ a.price \in Nat
           /\ a.type \in OrderTypes /\ a.price \in Prices \cup {0}
           /\ \A n \in Qtys : LET c == [a EXCEPT !.qty = n]
                              IN  /\ c \in Actions /\ c.qty = n /\ c.side = a.side
                                  /\ c.type = a.type /\ c.price = a.price
                                  /\ c.order_id = a.order_id
<1>1. a \in [order_id : OrderIds, price : Prices \cup {0}, qty : Qtys,
             side : Sides, type : OrderTypes]
  BY DEF Actions
<1>2. /\ a.order_id \in OrderIds /\ a.side \in Sides /\ a.qty \in Qtys
      /\ a.price \in Prices \cup {0} /\ a.type \in OrderTypes
  BY <1>1
<1>3. Opposite(a) \in Sides
  BY <1>2 DEF Opposite, Sides
<1>4. a.qty \in Nat /\ a.price \in Nat
  <2>1. Qtys \subseteq Nat /\ Prices \cup {0} \subseteq Nat
    BY RequestAssumption DEF Qtys
  <2> QED
    BY <1>2, <2>1
<1>5. ASSUME NEW n \in Qtys
      PROVE  LET c == [a EXCEPT !.qty = n]
             IN  /\ c \in Actions /\ c.qty = n /\ c.side = a.side
                 /\ c.type = a.type /\ c.price = a.price /\ c.order_id = a.order_id
  BY <1>1 DEF Actions
<1> QED
  BY <1>1, <1>2, <1>3, <1>4, <1>5

\* What one pass of the inner loop trades, and what the book makes of the execution.
FillServed(o, fill, c) ==
    /\ o # NoOrder /\ MatchVerified(o, fill)
    /\ o.order_id \in OrderIds /\ o.price \in Prices /\ fill \in 1..MaxQty /\ fill \in Qtys
    /\ incoming.qty - fill \in Qtys
    /\ o.next_in_level \in OrderSlots \cup {kInvalid}
    /\ c.fault = "None" /\ Uncrossed(c)
    /\ incoming.qty - fill > 0 /\ o.next_in_level # kInvalid =>
            LET bbo == c.sides[Opposite(incoming)].bbo
            IN  /\ c.orders[o.next_in_level] # NoOrder
                /\ bbo # kInvalid /\ c.levels[bbo].head_order_idx = o.next_in_level

\* The iterator of the inner loop stands on a live order.
LEMMA IteratorLive ==
    ASSUME EngineInv, Running, pc = "sweep", curr_idx # kInvalid, incoming.qty > 0
    PROVE  curr_idx \in Live(book)
<1> DEFINE s == Opposite(incoming)
           l == book.sides[s].bbo
<1>1. Whole(book) /\ s \in Sides
  BY GoodWhole, ActionType DEF EngineInv, Running, Locals
<1>2. l # kInvalid /\ book.levels[l].head_order_idx = curr_idx
  BY DEF EngineInv, IteratorAtBestHead
<1>3. l \in book.sides[s].tree
  BY <1>1, <1>2, BestBounds
<1> QED
  BY <1>1, <1>2, <1>3, HeadQueued DEF On, OrdersAt

\* The execution of the order under the iterator is served by the book, fills the
\* incoming or the resting order, and leaves the iterator's next order at the head.
LEMMA FillDetails ==
    ASSUME EngineInv, Running, pc = "sweep", curr_idx # kInvalid, incoming.qty > 0
    PROVE  LET o == book.orders[curr_idx]
               fill == FillQty(o)
           IN  FillServed(o, fill, CancelOrder(book, o.order_id, fill))
<1> DEFINE o == book.orders[curr_idx]
           fill == FillQty(o)
           c == CancelOrder(book, o.order_id, fill)
           s == Opposite(incoming)
           l == book.sides[s].bbo
<1>1. /\ Whole(book) /\ Asked(book) /\ Uncrossed(book) /\ book \in Book
      /\ incoming \in Actions /\ incoming.qty \in Qtys /\ incoming.qty \in Nat /\ s \in Sides
  BY GoodWhole, ActionType DEF EngineInv, Running, Locals, Good
<1>2. l # kInvalid /\ book.levels[l].head_order_idx = curr_idx
  BY DEF EngineInv, IteratorAtBestHead
<1>3. l \in book.sides[s].tree /\ l \in LevelSlots
  BY <1>1, <1>2, BestBounds
<1>4. curr_idx \in OrderSlots /\ curr_idx \in Live(book)
  BY <1>1, <1>2, <1>3, HeadQueued DEF On, OrdersAt
<1>5. /\ o.order_id \in DOMAIN book.order_map /\ o.order_id \in OrderIds
      /\ book.order_map[o.order_id] = curr_idx
  BY <1>1, <1>4, LiveMapped
<1>6. /\ o.price \in Prices /\ o.remaining_qty \in Qtys /\ o.remaining_qty \in Nat
      /\ o.remaining_qty > 0 /\ o # NoOrder /\ o.next_in_level \in OrderSlots \cup {kInvalid}
  <2>1. o \in Order
    BY <1>1, <1>4 DEF Book
  <2>2. o.order_id # kInvalid
    BY <1>4 DEF Live
  <2>3. o # NoOrder
    BY <2>2 DEF NoOrder
  <2>4. o.price \in Prices /\ o.remaining_qty > 0
    BY <1>1, <1>4 DEF Asked, Whole, HeldBut, PositiveBut
  <2> QED
    BY <2>1, <2>3, <2>4, RequestAssumption DEF Order, OrderIdx, Qtys
<1>7. /\ fill \in 1..MaxQty /\ fill \in Qtys /\ incoming.qty - fill \in Qtys
      /\ MatchVerified(o, fill) /\ fill <= o.remaining_qty
      /\ incoming.qty - fill > 0 => fill = o.remaining_qty
  <2> HIDE DEF o
  <2> QED
    BY <1>1, <1>6, RequestAssumption DEF FillQty, MatchVerified, Qtys
<1>8. c.fault = "None" /\ Uncrossed(c)
  <2>1. fill <= book.orders[book.order_map[o.order_id]].remaining_qty
    BY <1>5, <1>7
  <2> HIDE DEF fill
  <2>2. c.fault = "None" /\ Within(book, c)
    BY <1>1, <1>5, <1>7, <2>1, CancelServed
  <2> QED
    BY <1>1, <2>2, WithinUncrossed
<1>9. ASSUME incoming.qty - fill > 0, o.next_in_level # kInvalid
      PROVE  LET bbo == c.sides[s].bbo
             IN  /\ c.orders[o.next_in_level] # NoOrder
                 /\ bbo # kInvalid /\ c.levels[bbo].head_order_idx = o.next_in_level
  <2> DEFINE i == book.levels[l].head_order_idx
             e == CancelOrder(book, book.orders[i].order_id, book.orders[i].remaining_qty)
  <2>1. i = curr_idx /\ fill = o.remaining_qty
    BY <1>2, <1>7, <1>9
  <2>2. book.orders[i].next_in_level # kInvalid
    BY <1>9, <2>1
  <2>3. /\ e.sides[s].bbo = l /\ e.levels[l].head_order_idx = book.orders[i].next_in_level
        /\ e.orders[book.orders[i].next_in_level] # NoOrder
    <3>1. /\ Whole(book) /\ Asked(book) /\ s \in Sides /\ l \in book.sides[s].tree
          /\ book.sides[s].bbo = l
      BY <1>1, <1>3
    <3> HIDE DEF s, l, o, fill, c
    <3>2. SecondLeads(book, s, l)
      <4>1. HasSecond(book, l)
        BY <2>2 DEF HasSecond
      <4> HIDE DEF i, e
      <4> QED
        BY <3>1, <4>1, HeadExecuted
    <3> QED
      BY <3>2 DEF SecondLeads
  <2>4. e = c
    BY <2>1
  <2> HIDE DEF e, c, i, fill
  <2> QED
    BY <1>2, <2>1, <2>3, <2>4
<1> HIDE DEF o, fill, c
<1>10. FillServed(o, fill, c)
  BY <1>5, <1>6, <1>7, <1>8, <1>9 DEF FillServed, o
<1> QED
  BY <1>10 DEF o, fill, c
-----------------------------------------------------------------------------
(* Every action keeps the invariant, and is a step of the book or none.    *)

\* A book that a step leaves alone.
LEMMA SameBook ==
    ASSUME UNCHANGED book
    PROVE  /\ (Good(book) => Good(book)') /\ (Uncrossed(book) => Uncrossed(book)')
           /\ BookStep /\ (Running' <=> Running)
BY DEF Good, Uncrossed, BookStep, Running

\* TradedQty in both states of a step.
LEMMA TradedIs == TradedQty = Tally(trades) /\ TradedQty' = Tally(trades')
BY DEF TradedQty, Tally

\* The call of match(): risk check and pre-scan touch neither book nor iterator.
LEMMA SubmitStep ==
    ASSUME EngineInv, NEW a \in Actions, Submit(a)
    PROVE  EngineInv' /\ BookStep
<1>1. /\ Running /\ pc = "idle" /\ trades = << >> /\ UNCHANGED <<book, curr_idx>>
      /\ incoming' = a /\ before'.action = a
  BY DEF Submit, EngineInv, Locals
<1>2. Good(book)' /\ BookStep /\ Uncrossed(book)' /\ pc' \in {"return", "level"}
  BY <1>1, SameBook DEF EngineInv, Submit, Return
<1>3. EngineTypeOK'
  <2>1. trades' = << >>
    BY <1>1 DEF Submit, Return
  <2>2. /\ trades' \in Seq([resting_order_id : OrderIds, price : Prices, quantity : 1..MaxQty])
        /\ Len(trades') <= MaxTrades
    BY <2>1, EngineAssumption
  <2>3. status' \in {"None", "Accepted", "RejectedRisk", "RejectedInvalid", "Filled",
                     "PartiallyFilled"}
    BY DEF Submit, Return, EngineInv, EngineTypeOK
  <2> QED
    BY <1>1, <1>2, <2>2, <2>3 DEF EngineInv, EngineTypeOK
<1>4. Locals'
  <2>1. pc' = "level" => trades' = << >>
    BY <1>1 DEF Submit, Return
  <2>2. pc' = "level" => TradedQty' = 0
    BY <2>1, TradedIs, TallyEmpty
  <2>3. a.qty \in Nat
    BY ActionType
  <2> QED
    BY <1>1, <1>2, <2>2, <2>3 DEF Locals
<1>5. IteratorAtBestHead' /\ Exhausted'
  BY <1>2 DEF IteratorAtBestHead, Exhausted
<1> QED
  BY <1>2, <1>3, <1>4, <1>5 DEF EngineInv

\* The outer loop puts the iterator on the head of the best level, or finds that no
\* level on the other side is within the order's price.
LEMMA BestLevelStep ==
    ASSUME EngineInv, BestLevel
    PROVE  EngineInv' /\ BookStep
<1> DEFINE s == Opposite(incoming)
           bbo == book.sides[s].bbo
           sweeps == /\ incoming.qty > 0 /\ bbo # kInvalid
                     /\ Reaches(incoming, book.levels[bbo].price)
<1>1. /\ Running /\ pc = "level" /\ UNCHANGED <<book, incoming, trades, status, before>>
      /\ Whole(book) /\ incoming \in Actions /\ s \in Sides
  BY GoodWhole, ActionType DEF BestLevel, EngineInv, Running, Locals
<1>2. Good(book)' /\ BookStep /\ Uncrossed(book)'
  BY <1>1, SameBook DEF EngineInv
<1>3. Locals'
  <2>1. TradedQty' = TradedQty
    BY <1>1, TradedIs
  <2>2. pc' # "idle"
    BY DEF BestLevel
  <2> QED
    BY <1>1, <2>1, <2>2 DEF EngineInv, Locals
<1>4. CASE sweeps
  <2>1. pc' = "sweep" /\ curr_idx' = book.levels[bbo].head_order_idx
    BY <1>4 DEF BestLevel
  <2>2. curr_idx' \in OrderSlots /\ book.orders[curr_idx'] # NoOrder
    <3>1. bbo \in book.sides[s].tree
      BY <1>1, <1>4, BestBounds
    <3>2. curr_idx' \in OrderSlots /\ curr_idx' \in Live(book)
      BY <1>1, <2>1, <3>1, HeadQueued DEF On, OrdersAt
    <3> QED
      BY <3>2 DEF Live, NoOrder
  <2>3. EngineTypeOK'
    BY <1>1, <2>1, <2>2 DEF EngineInv, EngineTypeOK
  <2>4. IteratorAtBestHead' /\ Exhausted'
    BY <1>1, <1>4, <2>1, <2>2 DEF IteratorAtBestHead, Exhausted, Opposite
  <2> QED
    BY <1>2, <1>3, <2>3, <2>4 DEF EngineInv
<1>5. CASE ~sweeps
  <2>1. pc' = "finish" /\ curr_idx' = curr_idx
    BY <1>5 DEF BestLevel
  <2>2. EngineTypeOK'
    BY <1>1, <2>1 DEF EngineInv, EngineTypeOK
  <2>3. IteratorAtBestHead' /\ Exhausted'
    BY <1>1, <1>5, <2>1 DEF IteratorAtBestHead, Exhausted, Opposite, Reaches
  <2> QED
    BY <1>2, <1>3, <2>2, <2>3 DEF EngineInv
<1> QED
  BY <1>4, <1>5

\* The inner loop: what is traded and what is left still make up the order, and the
\* iterator stands on the new head.
LEMMA FillStep ==
    ASSUME EngineInv, Fill
    PROVE  EngineInv' /\ BookStep
<1> DEFINE o == book.orders[curr_idx]
           fill == FillQty(o)
           c == CancelOrder(book, o.order_id, fill)
           T == [resting_order_id : OrderIds, price : Prices, quantity : 1..MaxQty]
           trade == [resting_order_id |-> o.order_id, price |-> o.price, quantity |-> fill]
<1>1. /\ Running /\ pc = "sweep" /\ curr_idx # kInvalid /\ incoming.qty > 0
      /\ UNCHANGED <<pc, status, before>> /\ Good(book)
      /\ incoming \in Actions /\ trades \in Seq(T) /\ Len(trades) \in Nat
  BY LenProperties DEF Fill, EngineInv, Locals, EngineTypeOK
<1>2. FillServed(o, fill, c)
  BY <1>1, FillDetails
<1>3. CASE BufferFull
  <2>1. /\ book' = Fail(book, "TradeBuffer")
        /\ UNCHANGED <<incoming, curr_idx, trades>>
    BY <1>2, <1>3 DEF Fill, FillServed
  <2>2. Good(book') /\ ~Running'
    BY <1>1, <2>1, FailGood DEF Faults, Running
  <2>3. EngineTypeOK'
    BY <1>1, <2>1 DEF EngineInv, EngineTypeOK
  <2>4. Locals'
    <3>1. TradedQty' = TradedQty
      BY <2>1, TradedIs
    <3> QED
      BY <1>1, <2>1, <3>1 DEF EngineInv, Locals
  <2> QED
    BY <1>3, <2>1, <2>2, <2>3, <2>4 DEF EngineInv, BookStep, Overrun
<1>4. CASE ~BufferFull
  <2> HIDE DEF o, fill, c
  <2>1. /\ trades' = Append(trades, trade)
        /\ incoming' = [incoming EXCEPT !.qty = @ - fill]
        /\ curr_idx' = o.next_in_level
        /\ book' = OwnCall(c)
    BY <1>2, <1>4 DEF Fill, FillServed, ExecuteOrder, o, fill, c
  <2>2. book' = c
    BY <1>2, <2>1 DEF OwnCall, FillServed
  <2>3. Next
    <3>1. Execute
      BY <1>1, <1>2, <2>2 DEF Execute, ExecuteOrder, FillServed, c
    <3> QED
      BY <3>1 DEF Next
  <2>4. Good(book') /\ Uncrossed(book') /\ BookStep
    BY <1>1, <1>2, <2>2, <2>3, BookStepGood DEF BookStep, FillServed
  <2>5. /\ incoming' \in Actions /\ incoming'.qty = incoming.qty - fill
        /\ incoming'.side = incoming.side
    <3>1. incoming.qty - fill \in Qtys
      BY <1>2 DEF FillServed
    <3>2. incoming' = [incoming EXCEPT !.qty = incoming.qty - fill]
      BY <2>1
    <3> QED
      BY <1>1, <3>1, <3>2, ActionType
  <2>6. trade \in T /\ trade.quantity = fill /\ fill \in Int
    <3>1. fill \in 1..MaxQty
      BY <1>2 DEF FillServed
    <3> QED
      BY <1>2, <3>1 DEF FillServed
  <2> HIDE DEF T, trade
  <2>7. trades' \in Seq(T) /\ Len(trades') <= MaxTrades
    <3>1. Len(trades') = Len(trades) + 1 /\ trades' \in Seq(T)
      BY <1>1, <2>1, <2>6, AppendProperties
    <3> QED
      BY <1>1, <1>4, <3>1, EngineAssumption DEF BufferFull
  <2>8. EngineTypeOK'
    BY <1>1, <1>2, <2>1, <2>5, <2>7 DEF EngineInv, EngineTypeOK, FillServed, T
  <2>9. Locals'
    <3>1. TradedQty' = TradedQty + fill
      BY <1>1, <2>1, <2>6, TradedIs, TallyAppend
    <3>2. /\ TradedQty \in Int /\ TradedQty + incoming.qty = before.action.qty
          /\ incoming.qty \in Int
      BY <1>1, ActionType DEF EngineInv, Locals
    <3> QED
      BY <1>1, <2>5, <2>6, <3>1, <3>2 DEF Locals
  <2>10. IteratorAtBestHead' /\ Exhausted'
    <3>1. Opposite(incoming') = Opposite(incoming)
      BY <2>5 DEF Opposite
    <3> QED
      BY <1>1, <1>2, <2>1, <2>2, <2>5, <3>1 DEF IteratorAtBestHead, Exhausted, FillServed
  <2> QED
    BY <2>4, <2>8, <2>9, <2>10 DEF EngineInv
<1> QED
  BY <1>3, <1>4

\* A swept level: the iterator is invalid, or the incoming order has nothing left.
LEMMA LevelSweptStep ==
    ASSUME EngineInv, LevelSwept
    PROVE  EngineInv' /\ BookStep
<1>1. /\ Running /\ pc = "sweep" /\ pc' = "level"
      /\ UNCHANGED <<book, incoming, curr_idx, trades, status, before>>
  BY DEF LevelSwept
<1>2. Good(book)' /\ BookStep /\ Uncrossed(book)'
  BY <1>1, SameBook DEF EngineInv
<1>3. EngineTypeOK'
  BY <1>1 DEF EngineInv, EngineTypeOK
<1>4. Locals'
  <2>1. TradedQty' = TradedQty
    BY <1>1, TradedIs
  <2> QED
    BY <1>1, <2>1 DEF EngineInv, Locals
<1>5. IteratorAtBestHead' /\ Exhausted'
  BY <1>1 DEF IteratorAtBestHead, Exhausted
<1> QED
  BY <1>2, <1>3, <1>4, <1>5 DEF EngineInv

\* A refusal without an effect is what some request of the book's own meets: the
\* deletion of an order that does not rest, or another addition of one that does.
LEMMA RefusedRequest ==
    ASSUME Running, Asked(book), NEW id \in OrderIds, OrdersAccountedIn(book),
           book \in Book, book' = Fail(book, "Request")
    PROVE  Next
<1>1. CASE id \notin DOMAIN book.order_map
  <2>1. book' = DeleteOrder(book, id)
    BY <1>1 DEF DeleteOrder
  <2> QED
    BY <2>1 DEF Next, Delete
<1>2. CASE id \in DOMAIN book.order_map
  <2> DEFINE i == book.order_map[id]
  <2>1. i \in OrderSlots /\ book.orders[i].order_id = id
    BY <1>2 DEF Book, OrdersAccountedIn
  <2>2. i \in Live(book)
    BY <2>1, RequestAssumption DEF Live, kInvalid
  <2>3. PICK p \in Prices : TRUE
    BY <2>2 DEF Asked
  <2>4. book' = AddOrder(book, id, 0, p, 0)
    BY DEF AddOrder
  <2>5. 0 \in Sides /\ 0 \in Qtys
    BY RequestAssumption DEF Sides, Qtys
  <2> QED
    BY <2>4, <2>5 DEF Next, Add
<1> QED
  BY <1>1, <1>2

\* What match() makes of the book after its loop, its own assertions included; a
\* residual of price 0 is refused.
LEMMA ResidualRests ==
    ASSUME EngineInv, Running, pc = "finish"
    PROVE  LET b == RestResidual(book)
           IN  /\ \/ b = book \/ b = Fail(book, "Request")
                  \/ \E id \in OrderIds, s \in Sides, p \in Prices, q \in Qtys :
                            b = AddOrder(book, id, s, p, q)
               /\ b.fault = "None" => ExecutionVerified(b) /\ Uncrossed(b)
<1> DEFINE a == incoming
           rests == a.qty > 0 /\ a.type = "Limit"
           b == AddOrder(book, a.order_id, a.side, a.price, a.qty)
<1>1. /\ Whole(book) /\ Asked(book) /\ Uncrossed(book) /\ a \in Actions
      /\ TradedQty + a.qty = before.action.qty /\ Exhausted
  BY GoodWhole DEF EngineInv, Running, Locals
<1>2. CASE ~rests
  <2>1. RestResidual(book) = book
    BY <1>2 DEF RestResidual
  <2>2. ExecutionVerified(book)
    BY <1>1, <1>2 DEF ExecutionVerified
  <2> QED
    BY <1>1, <2>1, <2>2
<1>3. CASE rests
  <2>1. RestResidual(book) = b
    BY <1>3 DEF RestResidual
  <2>2. /\ a.order_id \in OrderIds /\ a.side \in Sides /\ a.qty \in Qtys
        /\ a.price \in Prices \cup {0} /\ a.price \in Nat
    BY <1>1, <1>3, ActionType
  <2>3. ASSUME b.fault = "None"
        PROVE  ExecutionVerified(b) /\ Uncrossed(b)
    <3>1. WithinBut(book, b, a.side, a.price) /\ \E i \in Live(b) : b.orders[i].side = a.side
      BY <1>1, <2>2, <2>3, AddWithin
    <3>2. Whole(b)
      BY <1>1, <2>2, <2>3, AddType, AddAccounted, AddSound, AddSettled, AddHeld
         DEF Whole, Settled, Held
    <3> HIDE DEF b
    <3>3. b.sides[a.side].bbo # kInvalid
      BY <2>2, <3>1, <3>2, BestBounds
    <3>4. ExecutionVerified(b)
      BY <1>1, <2>2, <3>3 DEF ExecutionVerified
    <3>5. LET bbo == book.sides[1 - a.side].bbo
          IN  \/ bbo = kInvalid
              \/ ~(IF a.side = 0 THEN book.levels[bbo].price <= a.price
                   ELSE book.levels[bbo].price >= a.price)
      BY <1>1, <1>3 DEF EngineInv, Exhausted, Opposite, Reaches
    <3>6. Uncrossed(b)
      BY <1>1, <2>2, <3>1, <3>5, JoinsUncrossed
    <3> QED
      BY <3>4, <3>6
  <2> HIDE DEF b
  <2>4. \/ b = Fail(book, "Request")
        \/ \E id \in OrderIds, s \in Sides, p \in Prices, q \in Qtys :
                b = AddOrder(book, id, s, p, q)
    <3>1. a.price = 0 => b = Fail(book, "Request")
      BY DEF b, AddOrder
    <3> QED
      BY <2>2, <3>1 DEF b
  <2> QED
    BY <2>1, <2>3, <2>4
<1> QED
  BY <1>2, <1>3

\* The residual rests only when the other side is exhausted, so that it crosses
\* nothing; the code's own verification of the result then holds.
LEMMA FinishStep ==
    ASSUME EngineInv, Finish
    PROVE  EngineInv' /\ BookStep
<1> DEFINE b == RestResidual(book)
<1>1. /\ Running /\ pc = "finish" /\ UNCHANGED <<incoming, curr_idx, before>>
      /\ book' = Then(b, IF ExecutionVerified(b) THEN b ELSE Fail(b, "Internal"))
  BY DEF Finish
<1>2. /\ \/ b = book \/ b = Fail(book, "Request")
         \/ \E id \in OrderIds, s \in Sides, p \in Prices, q \in Qtys :
                b = AddOrder(book, id, s, p, q)
      /\ b.fault = "None" => ExecutionVerified(b) /\ Uncrossed(b)
  BY <1>1, ResidualRests
<1> HIDE DEF b
<1>3. book' = b
  BY <1>1, <1>2 DEF Then
<1>4. BookStep /\ Good(book')
  <2>1. CASE b = book
    BY <1>3, <2>1, SameBook DEF EngineInv
  <2>2. CASE b # book
    <3>1. Next
      <4>1. CASE b = Fail(book, "Request")
        <5>1. /\ Asked(book) /\ OrdersAccountedIn(book) /\ book \in Book
              /\ incoming.order_id \in OrderIds
          BY <1>1, GoodWhole, ActionType DEF EngineInv, Running, Locals, Whole
        <5> QED
          BY <1>1, <1>3, <4>1, <5>1, RefusedRequest
      <4>2. CASE b # Fail(book, "Request")
        BY <1>1, <1>2, <1>3, <2>2, <4>2 DEF Add, Next
      <4> QED
        BY <4>1, <4>2
    <3>2. BookStep
      BY <3>1 DEF BookStep
    <3> QED
      BY <3>2, BookStepGood DEF EngineInv
  <2> QED
    BY <2>1, <2>2
<1>5. TradedQty' = TradedQty /\ trades' = trades
  <2>1. trades' = trades
    BY DEF Finish, Return
  <2> QED
    BY <2>1, TradedIs
<1>6. CASE book'.fault = "None"
  <2>1. pc' = "return" /\ status' = FinalStatus
    BY <1>6 DEF Finish, Return
  <2>2. EngineTypeOK' /\ Locals'
    BY <1>1, <1>5, <2>1 DEF EngineInv, EngineTypeOK, FinalStatus, Locals
  <2>3. Uncrossed(book') /\ IteratorAtBestHead' /\ Exhausted'
    BY <1>2, <1>3, <1>6, <2>1 DEF IteratorAtBestHead, Exhausted
  <2> QED
    BY <1>4, <2>2, <2>3 DEF EngineInv
<1>7. CASE book'.fault # "None"
  <2>1. UNCHANGED <<pc, status>> /\ ~Running'
    BY <1>7 DEF Finish, Running
  <2>2. EngineTypeOK' /\ Locals'
    BY <1>1, <1>5, <2>1 DEF EngineInv, EngineTypeOK, Locals
  <2> QED
    BY <1>4, <2>1, <2>2 DEF EngineInv
<1> QED
  BY <1>6, <1>7

\* The caller takes the result; the locals of the call are gone.
LEMMA HandBackStep ==
    ASSUME EngineInv, HandBack
    PROVE  EngineInv' /\ BookStep
<1>1. /\ Running /\ pc' = "idle" /\ incoming' = NoAction /\ curr_idx' = kInvalid
      /\ trades' = << >> /\ status' = "None" /\ UNCHANGED book
  BY DEF HandBack
<1>2. Good(book)' /\ BookStep /\ Uncrossed(book)'
  BY <1>1, SameBook DEF EngineInv
<1>3. EngineTypeOK'
  <2>1. /\ trades' \in Seq([resting_order_id : OrderIds, price : Prices, quantity : 1..MaxQty])
        /\ Len(trades') <= MaxTrades
    BY <1>1, EngineAssumption
  <2> QED
    BY <1>1, <2>1 DEF EngineTypeOK
<1>4. Locals' /\ IteratorAtBestHead' /\ Exhausted'
  BY <1>1 DEF Locals, IteratorAtBestHead, Exhausted
<1> QED
  BY <1>2, <1>3, <1>4 DEF EngineInv

\* A direct update of the replay engine between matches adds no order at a price of
\* its own: it cancels, executes, deletes or modifies an order in its place.
LEMMA DispatchedStep ==
    ASSUME EngineInv, Dispatched
    PROVE  EngineInv' /\ BookStep
<1>1. /\ pc = "idle" /\ UNCHANGED <<pc, incoming, curr_idx, trades, status, before>>
      /\ Running /\ (Cancel \/ Execute \/ Delete \/ Modify)
  BY DEF Dispatched, engine, Cancel, Execute, Delete, Modify
<1>2. BookStep /\ Good(book')
  <2>1. BookStep
    BY <1>1 DEF BookStep, Next
  <2> QED
    BY <2>1, BookStepGood DEF EngineInv
<1>3. EngineTypeOK' /\ Locals'
  <2>1. TradedQty' = TradedQty
    BY <1>1, TradedIs
  <2> QED
    BY <1>1, <2>1 DEF EngineInv, EngineTypeOK, Locals
<1>4. ASSUME Running'
      PROVE  Uncrossed(book')
  <2>1. /\ Whole(book) /\ Asked(book) /\ Uncrossed(book) /\ book'.fault = "None"
    BY <1>1, <1>4, GoodWhole DEF EngineInv, Running
  <2>2. Within(book, book')
    BY <1>1, <2>1, CancelWithin, DeleteWithin, ModifyWithin
       DEF Cancel, Execute, ExecuteOrder, Delete, Modify
  <2> QED
    BY <2>1, <2>2, WithinUncrossed
<1>5. IteratorAtBestHead' /\ Exhausted'
  BY <1>1 DEF IteratorAtBestHead, Exhausted
<1> QED
  BY <1>2, <1>3, <1>4, <1>5 DEF EngineInv

\* Every step of the engine keeps EngineInv and is a request to the book, a failed
\* push_back, or none of the book's business.
LEMMA EngineStep ==
    ASSUME EngineInv, [MatchNext]_matchVars
    PROVE  EngineInv' /\ BookStep
<1>1. CASE UNCHANGED matchVars
  <2>1. /\ UNCHANGED <<book, pc, incoming, curr_idx, trades, status, before>>
        /\ TradedQty' = TradedQty
    BY <1>1, TradedIs DEF matchVars
  <2>2. Good(book)' /\ BookStep /\ (Running' => Running) /\ (Uncrossed(book) => Uncrossed(book)')
    BY <2>1, SameBook DEF EngineInv
  <2>3. EngineTypeOK' /\ Locals'
    BY <2>1 DEF EngineInv, EngineTypeOK, Locals
  <2>4. /\ IteratorAtBestHead => IteratorAtBestHead'
        /\ Exhausted => Exhausted'
    BY <2>1 DEF IteratorAtBestHead, Running, Exhausted, Opposite, Reaches
  <2> QED
    BY <2>2, <2>3, <2>4 DEF EngineInv
<1>2. CASE \E a \in Actions : Submit(a)
  BY <1>2, SubmitStep
<1>3. CASE MatchStep
  BY <1>3, BestLevelStep, FillStep, LevelSweptStep, FinishStep, HandBackStep DEF MatchStep
<1>4. CASE Dispatched
  BY <1>4, DispatchedStep
<1> QED
  BY <1>1, <1>2, <1>3, <1>4 DEF MatchNext

\* The engine starts idle over an empty book.
LEMMA EngineStart ==
    ASSUME MatchInit
    PROVE  EngineInv
<1>1. /\ book = InitialBook /\ pc = "idle" /\ incoming = NoAction /\ curr_idx = kInvalid
      /\ trades = << >> /\ status = "None"
  BY DEF MatchInit, Init
<1>2. Live(book) = {}
  BY <1>1 DEF InitialBook, Live, NoOrder
<1>3. EngineTypeOK
  <2>1. /\ trades \in Seq([resting_order_id : OrderIds, price : Prices, quantity : 1..MaxQty])
        /\ Len(trades) <= MaxTrades
    BY <1>1, EngineAssumption
  <2> QED
    BY <1>1, <2>1 DEF EngineTypeOK
<1> QED
  BY <1>1, <1>2, <1>3, InitGood DEF EngineInv, Locals, Uncrossed, IteratorAtBestHead, Exhausted
-----------------------------------------------------------------------------
(* Price-time priority, said of queues: turns, and what a match leaves.    *)

TypedQueues(q) == q \in [Promise!Queues -> Seq(Promise!Entry)]

\* The book's side and the prices of an incoming order.
LEMMA OppositeSide ==
    ASSUME NEW a \in Actions
    PROVE  /\ Opposite(a) \in Sides /\ a.side \in Sides /\ InReach(a) \subseteq Prices
           /\ Opposite(a) # a.side
           /\ \A p \in Prices : <<Opposite(a), p>> \in Promise!Queues
BY DEF Actions, Opposite, Sides, InReach, Promise!Queues, Promise!Sides

\* A waiting order is a place of the queue of a price in reach.
LEMMA WaitingIs ==
    ASSUME NEW q, TypedQueues(q), NEW a \in Actions
    PROVE  /\ \A p \in InReach(a) : \A i \in 1..Len(q[<<Opposite(a), p>>]) :
                    <<p, i>> \in Waiting(q, a)
           /\ \A x \in Waiting(q, a) :
                    /\ x = <<x[1], x[2]>> /\ x[1] \in InReach(a) /\ x[1] \in Nat
                    /\ x[2] \in 1..Len(q[<<Opposite(a), x[1]>>]) /\ x[2] \in Nat
                    /\ At(q, a, x) \in Promise!Entry
<1> DEFINE s == Opposite(a)
<1>1. InReach(a) \subseteq Prices /\ Prices \subseteq Nat
  BY OppositeSide, RequestAssumption
<1>2. ASSUME NEW p \in InReach(a)
      PROVE  /\ q[<<s, p>>] \in Seq(Promise!Entry) /\ Len(q[<<s, p>>]) \in Nat
             /\ DOMAIN q[<<s, p>>] = 1..Len(q[<<s, p>>])
  <2>1. <<s, p>> \in Promise!Queues
    BY <1>1, OppositeSide
  <2>2. q[<<s, p>>] \in Seq(Promise!Entry)
    BY <2>1 DEF TypedQueues
  <2> QED
    BY <2>2, LenProperties
<1>3. ASSUME NEW p \in InReach(a), NEW i \in 1..Len(q[<<s, p>>])
      PROVE  <<p, i>> \in Waiting(q, a)
  <2>1. <<p, i>> \in {p} \X DOMAIN q[<<s, p>>]
    BY <1>2, <1>3
  <2> QED
    BY <2>1 DEF Waiting
<1>4. ASSUME NEW x \in Waiting(q, a)
      PROVE  /\ x = <<x[1], x[2]>> /\ x[1] \in InReach(a) /\ x[1] \in Nat
             /\ x[2] \in 1..Len(q[<<s, x[1]>>]) /\ x[2] \in Nat
             /\ At(q, a, x) \in Promise!Entry
  <2>1. PICK p \in InReach(a) : x \in {p} \X DOMAIN q[<<s, p>>]
    BY <1>4 DEF Waiting
  <2>2. x = <<x[1], x[2]>> /\ x[1] = p /\ x[2] \in DOMAIN q[<<s, p>>]
    BY <2>1
  <2>3. x[2] \in 1..Len(q[<<s, x[1]>>])
    BY <1>2, <2>2
  <2>4. x[2] \in Nat /\ q[<<s, x[1]>>][x[2]] \in Promise!Entry
    <3> DEFINE w == q[<<s, p>>]
    <3>1. w \in Seq(Promise!Entry) /\ Len(w) \in Nat /\ x[2] \in 1..Len(w)
      BY <1>2, <2>2
    <3>2. w[x[2]] \in Promise!Entry
      <4> HIDE DEF w
      <4> QED
        BY <3>1, ElementOfSeq
    <3> QED
      BY <2>2, <3>1, <3>2
  <2> QED
    BY <1>1, <2>2, <2>3, <2>4 DEF At
<1> QED
  BY <1>3, <1>4

\* Among those who wait, x stands before y.
Before(a, x, y) == \/ Better(Opposite(a), x[1], y[1])
                   \/ x[1] = y[1] /\ x[2] < y[2]

\* The orders that wait form a line: turns count along it.
LEMMA TurnsInLine ==
    ASSUME NEW q, TypedQueues(q), NEW a \in Actions, IsFiniteSet(Waiting(q, a))
    PROVE  /\ \A x \in Waiting(q, a) : Turn(q, a, x) \in Nat /\ Turn(q, a, x) > 0
           /\ \A x, y \in Waiting(q, a) :
                    /\ Before(a, x, y) => Turn(q, a, x) < Turn(q, a, y)
                    /\ x = y \/ Before(a, x, y) \/ Before(a, y, x)
                    /\ ~Before(a, x, x)
<1> DEFINE W == Waiting(q, a)
<1>1. \A x \in W : x = <<x[1], x[2]>> /\ x[1] \in Nat /\ x[2] \in Nat
  BY WaitingIs
<1>2. \A x \in W : Ahead(q, a, x) = {y \in W : Before(a, y, x)}
  BY DEF Ahead, Before
<1>3. ASSUME NEW x \in W
      PROVE  /\ IsFiniteSet(Ahead(q, a, x)) /\ Cardinality(Ahead(q, a, x)) \in Nat
             /\ Turn(q, a, x) \in Nat /\ Turn(q, a, x) > 0
  <2>1. Ahead(q, a, x) \in SUBSET W
    BY <1>2, <1>3
  <2>2. IsFiniteSet(Ahead(q, a, x))
    BY <2>1, FS_Subset
  <2>3. Cardinality(Ahead(q, a, x)) \in Nat
    BY <2>2, FS_CardinalityType
  <2> QED
    BY <2>2, <2>3 DEF Turn
<1>4. ASSUME NEW x \in W, NEW y \in W
      PROVE  /\ x = y \/ Before(a, x, y) \/ Before(a, y, x)
             /\ ~Before(a, x, x)
  BY <1>1, <1>4 DEF Before, Better
<1>5. ASSUME NEW x \in W, NEW y \in W, NEW z \in W, Before(a, x, y), Before(a, y, z)
      PROVE  Before(a, x, z)
  <2>1. x[1] \in Nat /\ x[2] \in Nat /\ y[1] \in Nat /\ y[2] \in Nat /\ z[1] \in Nat /\ z[2] \in Nat
    BY <1>1
  <2> QED
    BY <1>5, <2>1 DEF Before, Better
<1>6. ASSUME NEW x \in W, NEW y \in W, Before(a, x, y)
      PROVE  Turn(q, a, x) < Turn(q, a, y)
  <2> DEFINE A == Ahead(q, a, x)
  <2>1. x \notin A /\ A \cup {x} \in SUBSET Ahead(q, a, y)
    BY <1>2, <1>4, <1>5, <1>6
  <2>2. Cardinality(A \cup {x}) = Cardinality(A) + 1
    BY <1>3, <2>1, FS_AddElement
  <2>3. Cardinality(A \cup {x}) <= Cardinality(Ahead(q, a, y))
    BY <1>3, <2>1, FS_Subset
  <2>4. Cardinality(A) \in Nat /\ Cardinality(Ahead(q, a, y)) \in Nat
    BY <1>3
  <2> HIDE DEF A
  <2>5. Turn(q, a, x) = Cardinality(A) + 1
    BY DEF A, Turn
  <2> QED
    BY <2>2, <2>3, <2>4, <2>5 DEF Turn
<1> QED
  BY <1>3, <1>4, <1>6

\* The first c[k] orders of each queue k of q have left it, and R is the rest.  Only
\* queues in reach of action a have lost any.
Left(q, a, R, c) ==
    /\ c \in [Promise!Queues -> Nat]
    /\ R \in [Promise!Queues -> Seq(Promise!Entry)]
    /\ \A k \in Promise!Queues :
            /\ c[k] <= Len(q[k]) /\ Len(R[k]) = Len(q[k]) - c[k]
            /\ \A i \in 1..Len(R[k]) : R[k][i] = q[k][c[k] + i]
            /\ c[k] > 0 => k[1] = Opposite(a) /\ k[2] \in InReach(a)

\* Who has left, among those who waited.
Gone(q, a, c) == {x \in Waiting(q, a) : x[2] <= c[<<Opposite(a), x[1]>>]}

WholeTrade(e, p) == [resting_order_id |-> e.id, price |-> p, quantity |-> e.qty]

\* The trades tr are with those who have left, each in its turn and for all it had.
InFull(q, a, tr, c) ==
    /\ Len(tr) \in Nat /\ Cardinality(Gone(q, a, c)) = Len(tr)
    /\ \A x \in Waiting(q, a) :
            /\ Turn(q, a, x) <= Len(tr) <=> x \in Gone(q, a, c)
            /\ x \in Gone(q, a, c) => tr[Turn(q, a, x)] = WholeTrade(At(q, a, x), x[1])

\* The match so far: trades tr have emptied the queues q from the front and left R.
CleanBy(q, a, tr, R, c) == Left(q, a, R, c) /\ InFull(q, a, tr, c)

\* Nobody in reach is better placed in R than the head of the queue at price p.
Foremost(a, R, p) ==
    /\ p \in InReach(a) /\ R[<<Opposite(a), p>>] # << >>
    /\ \A t \in InReach(a) : Better(Opposite(a), t, p) => R[<<Opposite(a), t>>] = << >>

Front(R, k) == R[k][1]

\* What is left of a queue in reach has lost as many places as have gone.
LEMMA LeftIs ==
    ASSUME NEW q, TypedQueues(q), NEW a \in Actions, NEW R, NEW c, Left(q, a, R, c),
           NEW p \in InReach(a), NEW k, k = <<Opposite(a), p>>
    PROVE  /\ k \in Promise!Queues /\ c[k] \in Nat /\ Len(R[k]) \in Nat /\ Len(q[k]) \in Nat
           /\ Len(R[k]) = Len(q[k]) - c[k]
           /\ R[k] = << >> <=> Len(R[k]) = 0
<1>1. k \in Promise!Queues
  BY OppositeSide
<1>2. /\ c[k] \in Nat /\ R[k] \in Seq(Promise!Entry) /\ q[k] \in Seq(Promise!Entry)
      /\ Len(R[k]) = Len(q[k]) - c[k]
  BY <1>1 DEF Left, TypedQueues
<1>3. Len(R[k]) \in Nat /\ Len(q[k]) \in Nat /\ (R[k] = << >> <=> Len(R[k]) = 0)
  BY <1>2, LenProperties, EmptySeq
<1> QED
  BY <1>1, <1>2, <1>3

\* The head of what is left is the first that has not gone.
LEMMA LeftHead ==
    ASSUME NEW q, TypedQueues(q), NEW a \in Actions, NEW R, NEW c, Left(q, a, R, c),
           NEW p \in InReach(a), NEW k, k = <<Opposite(a), p>>, R[k] # << >>,
           NEW x, x = <<p, c[k] + 1>>
    PROVE  Front(R, k) = At(q, a, x) /\ x \in Waiting(q, a)
<1>1. /\ k \in Promise!Queues /\ c[k] \in Nat /\ Len(R[k]) \in Nat /\ Len(q[k]) \in Nat
      /\ Len(R[k]) = Len(q[k]) - c[k] /\ Len(R[k]) # 0
  BY LeftIs
<1>2. \A i \in 1..Len(R[k]) : R[k][i] = q[k][c[k] + i]
  BY <1>1 DEF Left
<1>3. 1 \in 1..Len(R[k]) /\ c[k] + 1 \in 1..Len(q[k])
  BY <1>1
<1>4. R[k][1] = q[k][c[k] + 1]
  BY <1>2, <1>3
<1>5. x \in Waiting(q, a)
  BY <1>3, WaitingIs
<1>6. At(q, a, x) = q[k][c[k] + 1]
  BY DEF At
<1> QED
  BY <1>4, <1>5, <1>6 DEF Front

\* The head of the best queue in reach is the next to trade.
LEMMA NextInLine ==
    ASSUME NEW q, TypedQueues(q), NEW a \in Actions, IsFiniteSet(Waiting(q, a)), NEW tr, NEW R,
           NEW c, CleanBy(q, a, tr, R, c), NEW p, Foremost(a, R, p)
    PROVE  LET x == <<p, c[<<Opposite(a), p>>] + 1>>
           IN  /\ x \in Waiting(q, a) /\ Turn(q, a, x) = Len(tr) + 1 /\ x \notin Gone(q, a, c)
               /\ \A y \in Waiting(q, a) \ {x} :
                        Turn(q, a, y) <= Len(tr) + 1 <=> Turn(q, a, y) <= Len(tr)
<1> DEFINE s == Opposite(a)
           W == Waiting(q, a)
           D == Gone(q, a, c)
           n == c[<<s, p>>]
           x == <<p, n + 1>>
<1>1. p \in InReach(a) /\ R[<<s, p>>] # << >>
  BY DEF Foremost
<1>2. x \in W /\ n \in Nat
  BY <1>1, LeftIs, LeftHead DEF CleanBy
<1>3. x[1] = p /\ x[2] = n + 1 /\ x \notin D
  BY <1>2 DEF Gone
<1>0. ASSUME NEW t \in InReach(a), R[<<s, t>>] = << >>
      PROVE  c[<<s, t>>] \in Nat /\ Len(q[<<s, t>>]) = c[<<s, t>>]
  <2> DEFINE k == <<s, t>>
  <2>1. Left(q, a, R, c) /\ k = <<Opposite(a), t>>
    BY DEF CleanBy
  <2>2. R[k] = << >>
    BY <1>0
  <2> HIDE DEF k
  <2>3. /\ c[k] \in Nat /\ Len(R[k]) \in Nat /\ Len(q[k]) \in Nat
        /\ Len(R[k]) = Len(q[k]) - c[k] /\ Len(R[k]) = 0
    BY <2>1, <2>2, LeftIs
  <2>4. c[k] \in Nat /\ Len(q[k]) = c[k]
    BY <2>3
  <2> QED
    BY <2>4 DEF k
<1>4. ASSUME NEW y \in W, Before(a, y, x)
      PROVE  y \in D
  <2>1. y[1] \in InReach(a) /\ y[2] \in 1..Len(q[<<s, y[1]>>]) /\ y[2] \in Nat
    BY <1>4, WaitingIs
  <2>2. CASE Better(s, y[1], p)
    <3>1. R[<<s, y[1]>>] = << >>
      BY <2>1, <2>2 DEF Foremost
    <3>2. /\ c[<<s, y[1]>>] \in Nat
          /\ Len(q[<<s, y[1]>>]) = c[<<s, y[1]>>]
      BY <1>0, <2>1, <3>1
    <3>3. y[2] <= c[<<s, y[1]>>]
      BY <2>1, <3>2
    <3> QED
      BY <1>4, <3>3 DEF Gone
  <2>3. CASE y[1] = p /\ y[2] < n + 1
    <3>1. y[2] <= c[<<s, y[1]>>]
      BY <1>2, <2>1, <2>3
    <3> QED
      BY <1>4, <3>1 DEF Gone
  <2> QED
    BY <1>3, <1>4, <2>2, <2>3 DEF Before
<1>5. \A y \in W : Turn(q, a, y) \in Nat /\ Turn(q, a, y) > 0
  BY TurnsInLine
<1>6. Len(tr) \in Nat /\ Cardinality(D) = Len(tr)
      /\ \A y \in W : Turn(q, a, y) <= Len(tr) <=> y \in D
  BY DEF CleanBy, InFull
<1>7. ASSUME NEW y \in D
      PROVE  Before(a, y, x)
  <2>1. y \in W
    BY <1>7 DEF Gone
  <2>2. y # x
    BY <1>3, <1>7
  <2>3. ~Before(a, x, y)
    <3>1. SUFFICES ASSUME Before(a, x, y) PROVE FALSE
      OBVIOUS
    <3>2. Turn(q, a, x) < Turn(q, a, y)
      BY <1>2, <2>1, <3>1, TurnsInLine
    <3>3. Turn(q, a, y) <= Len(tr) /\ ~(Turn(q, a, x) <= Len(tr))
      BY <1>2, <1>3, <1>6, <1>7, <2>1
    <3>4. Turn(q, a, x) \in Nat /\ Turn(q, a, y) \in Nat
      BY <1>2, <1>5, <2>1
    <3> HIDE DEF x
    <3> QED
      BY <1>6, <3>2, <3>3, <3>4
  <2> QED
    BY <1>2, <2>1, <2>2, <2>3, TurnsInLine
<1>8. Ahead(q, a, x) = D
  <2>1. Ahead(q, a, x) = {y \in W : Before(a, y, x)}
    BY DEF Ahead, Before
  <2>2. D \subseteq W
    BY DEF Gone
  <2> HIDE DEF D, W, x
  <2> QED
    BY <1>4, <1>7, <2>1, <2>2
<1>9. Turn(q, a, x) = Len(tr) + 1
  <2> HIDE DEF x
  <2> QED
    BY <1>6, <1>8 DEF Turn
<1>10. ASSUME NEW y \in W \ {x}
       PROVE  Turn(q, a, y) # Len(tr) + 1
  <2>1. Before(a, x, y) \/ Before(a, y, x)
    BY <1>2, <1>10, TurnsInLine
  <2>2. Turn(q, a, x) < Turn(q, a, y) \/ Turn(q, a, y) < Turn(q, a, x)
    BY <1>2, <1>10, <2>1, TurnsInLine
  <2>3. Turn(q, a, x) \in Nat /\ Turn(q, a, y) \in Nat
    BY <1>2, <1>5, <1>10
  <2> HIDE DEF x
  <2> QED
    BY <1>9, <2>2, <2>3
<1>11. ASSUME NEW y \in W \ {x}
       PROVE  Turn(q, a, y) <= Len(tr) + 1 <=> Turn(q, a, y) <= Len(tr)
  <2>1. Turn(q, a, y) \in Nat
    BY <1>5, <1>11
  <2> QED
    BY <1>6, <1>10, <1>11, <2>1
<1> HIDE DEF x
<1> QED
  BY <1>2, <1>3, <1>9, <1>11 DEF x

Trade == [resting_order_id : OrderIds, price : Prices, quantity : 1..MaxQty]

\* The head of queue k has left R, and S is what remains.
Popped(R, S, k) ==
    /\ S \in [Promise!Queues -> Seq(Promise!Entry)]
    /\ \A h \in Promise!Queues \ {k} : S[h] = R[h]
    /\ Len(S[k]) = Len(R[k]) - 1
    /\ \A i \in 1..Len(S[k]) : S[k][i] = R[k][i + 1]

\* When the foremost order gives all it has and leaves, the match stays clean: the
\* queues.
LEMMA PoppedLeft ==
    ASSUME NEW q, TypedQueues(q), NEW a \in Actions, NEW R, NEW c, Left(q, a, R, c),
           NEW p \in InReach(a), NEW k, k = <<Opposite(a), p>>, R[k] # << >>,
           NEW S, Popped(R, S, k)
    PROVE  Left(q, a, S, [c EXCEPT ![k] = @ + 1])
<1> DEFINE d == [c EXCEPT ![k] = @ + 1]
<1>1. /\ k \in Promise!Queues /\ c[k] \in Nat /\ Len(R[k]) \in Nat /\ Len(q[k]) \in Nat
      /\ Len(R[k]) = Len(q[k]) - c[k] /\ Len(R[k]) # 0
  BY LeftIs
<1>2. c \in [Promise!Queues -> Nat] /\ S \in [Promise!Queues -> Seq(Promise!Entry)]
  BY DEF Left, Popped
<1>3. /\ d \in [Promise!Queues -> Nat]
      /\ d[k] = c[k] + 1
      /\ \A h \in Promise!Queues \ {k} : d[h] = c[h]
  BY <1>1, <1>2
<1> HIDE DEF d
<1>4. k[1] = Opposite(a) /\ k[2] \in InReach(a)
  OBVIOUS
<1>5. ASSUME NEW h \in Promise!Queues, h # k
      PROVE  /\ d[h] <= Len(q[h]) /\ Len(S[h]) = Len(q[h]) - d[h]
             /\ \A i \in 1..Len(S[h]) : S[h][i] = q[h][d[h] + i]
             /\ d[h] > 0 => h[1] = Opposite(a) /\ h[2] \in InReach(a)
  <2>1. S[h] = R[h] /\ d[h] = c[h]
    BY <1>3, <1>5 DEF Popped
  <2> QED
    BY <2>1 DEF Left
<1>6. d[k] <= Len(q[k]) /\ Len(S[k]) = Len(q[k]) - d[k]
  <2>1. Len(S[k]) = Len(R[k]) - 1
    BY DEF Popped
  <2> QED
    BY <1>1, <1>3, <2>1
<1>7. ASSUME NEW i \in 1..Len(S[k])
      PROVE  S[k][i] = q[k][d[k] + i]
  <2>1. i + 1 \in 1..Len(R[k]) /\ i \in Int
    BY <1>1, <1>3, <1>6
  <2>2. S[k][i] = R[k][i + 1]
    BY DEF Popped
  <2>3. R[k][i + 1] = q[k][c[k] + (i + 1)]
    BY <1>1, <2>1 DEF Left
  <2>4. c[k] + (i + 1) = d[k] + i
    <3>1. c[k] \in Nat /\ d[k] = c[k] + 1
      BY <1>1, <1>3
    <3> QED
      BY <2>1, <3>1
  <2> QED
    BY <2>2, <2>3, <2>4
<1>8. ASSUME NEW h \in Promise!Queues
      PROVE  /\ d[h] <= Len(q[h]) /\ Len(S[h]) = Len(q[h]) - d[h]
             /\ \A i \in 1..Len(S[h]) : S[h][i] = q[h][d[h] + i]
             /\ d[h] > 0 => h[1] = Opposite(a) /\ h[2] \in InReach(a)
  <2>1. CASE h = k
    BY <1>4, <1>6, <1>7, <2>1
  <2>2. CASE h # k
    BY <1>5, <2>2
  <2> QED
    BY <2>1, <2>2
<1>9. Left(q, a, S, d)
  BY <1>2, <1>3, <1>8 DEF Left
<1> QED
  BY <1>9 DEF d

\* The same of the trades.
LEMMA PoppedInFull ==
    ASSUME NEW q, TypedQueues(q), NEW a \in Actions, IsFiniteSet(Waiting(q, a)),
           NEW tr \in Seq(Trade), NEW R, NEW c, CleanBy(q, a, tr, R, c), NEW p, Foremost(a, R, p),
           NEW k, k = <<Opposite(a), p>>, NEW e \in Trade, e = WholeTrade(Front(R, k), p)
    PROVE  InFull(q, a, Append(tr, e), [c EXCEPT ![k] = @ + 1])
<1> DEFINE s == Opposite(a)
           W == Waiting(q, a)
           d == [c EXCEPT ![k] = @ + 1]
           x == <<p, c[k] + 1>>
           G == Gone(q, a, c)
           tr2 == Append(tr, e)
<1>1. p \in InReach(a) /\ R[k] # << >> /\ Left(q, a, R, c) /\ InFull(q, a, tr, c)
  BY DEF Foremost, CleanBy
<1>2. k \in Promise!Queues /\ c[k] \in Nat
  BY <1>1, LeftIs
<1>3. /\ x \in W /\ Turn(q, a, x) = Len(tr) + 1 /\ x \notin G
      /\ \A y \in W \ {x} : Turn(q, a, y) <= Len(tr) + 1 <=> Turn(q, a, y) <= Len(tr)
  BY NextInLine
<1>4. At(q, a, x) = Front(R, k) /\ x[1] = p /\ x[2] = c[k] + 1
  <2>1. x = <<p, c[k] + 1>> /\ x[1] = p /\ x[2] = c[k] + 1
    OBVIOUS
  <2> HIDE DEF x
  <2> QED
    BY <1>1, <2>1, LeftHead
<1>5. \A t \in InReach(a) : d[<<s, t>>] = IF t = p THEN c[k] + 1 ELSE c[<<s, t>>]
  <2>1. c \in [Promise!Queues -> Nat]
    BY <1>1 DEF Left
  <2>2. ASSUME NEW h \in Promise!Queues
        PROVE  d[h] = IF h = k THEN c[k] + 1 ELSE c[h]
    BY <1>2, <2>1
  <2> HIDE DEF d
  <2>3. ASSUME NEW t \in InReach(a)
        PROVE  <<s, t>> \in Promise!Queues /\ (<<s, t>> = k <=> t = p)
    BY OppositeSide
  <2> QED
    BY <2>2, <2>3
<1>6. \A y \in W : y = <<y[1], y[2]>> /\ y[1] \in InReach(a) /\ y[2] \in Nat
  BY WaitingIs
<1> HIDE DEF d
<1>7. Gone(q, a, d) = G \cup {x}
  <2>1. ASSUME NEW y \in W
        PROVE  y[2] <= d[<<s, y[1]>>] <=> y[2] <= c[<<s, y[1]>>] \/ y = x
    <3>1. CASE y[1] = p
      <4>1. d[<<s, y[1]>>] = c[k] + 1 /\ c[<<s, y[1]>>] = c[k]
        BY <1>5, <1>6, <3>1
      <4>2. y = x <=> y[2] = c[k] + 1
        BY <1>4, <1>6, <3>1
      <4>3. y[2] \in Nat
        BY <1>6
      <4> HIDE DEF x
      <4> QED
        BY <1>2, <4>1, <4>2, <4>3
    <3>2. CASE y[1] # p
      BY <1>4, <1>5, <1>6, <3>2
    <3> QED
      BY <3>1, <3>2
  <2>2. x \in W
    BY <1>3
  <2> HIDE DEF x, W
  <2>3. Gone(q, a, d) = {y \in W : y[2] <= d[<<s, y[1]>>]} /\ G = {y \in W : y[2] <= c[<<s, y[1]>>]}
    BY DEF Gone, W
  <2> HIDE DEF G
  <2> QED
    BY <2>1, <2>2, <2>3
<1>8. Len(tr) \in Nat /\ Cardinality(G) = Len(tr) /\ IsFiniteSet(G)
  <2>1. G \in SUBSET W
    BY DEF Gone
  <2> QED
    BY <1>1, <2>1, FS_Subset DEF InFull
<1>9. Cardinality(Gone(q, a, d)) = Len(tr) + 1
  <2> HIDE DEF x, G
  <2> QED
    BY <1>3, <1>7, <1>8, FS_AddElement
<1>10. Len(tr2) = Len(tr) + 1 /\ tr2[Len(tr) + 1] = e /\ \A n \in 1..Len(tr) : tr2[n] = tr[n]
  BY AppendProperties
<1> HIDE DEF tr2
<1>11. ASSUME NEW y \in W
       PROVE  /\ Turn(q, a, y) <= Len(tr2) <=> y \in Gone(q, a, d)
              /\ y \in Gone(q, a, d) => tr2[Turn(q, a, y)] = WholeTrade(At(q, a, y), y[1])
  <2>1. CASE y = x
    <3>1. tr2[Turn(q, a, y)] = WholeTrade(At(q, a, y), y[1])
      BY <1>3, <1>4, <1>10, <2>1
    <3>2. Turn(q, a, y) <= Len(tr2)
      BY <1>3, <1>8, <1>10, <2>1
    <3> QED
      BY <1>7, <2>1, <3>1, <3>2
  <2>2. CASE y # x
    <3>1. Turn(q, a, y) \in Nat /\ Turn(q, a, y) > 0
      BY TurnsInLine
    <3>2. Turn(q, a, y) <= Len(tr2) <=> y \in G
      BY <1>1, <1>3, <1>10, <2>2 DEF InFull
    <3>3. y \in G => /\ Turn(q, a, y) \in 1..Len(tr)
                     /\ tr[Turn(q, a, y)] = WholeTrade(At(q, a, y), y[1])
      BY <1>1, <1>8, <3>1 DEF InFull
    <3> HIDE DEF x, G
    <3> QED
      BY <1>7, <1>10, <2>2, <3>2, <3>3
  <2> QED
    BY <2>1, <2>2
<1> HIDE DEF x, G, W
<1>12. InFull(q, a, tr2, d)
  BY <1>8, <1>9, <1>10, <1>11 DEF InFull, W
<1> QED
  BY <1>12 DEF tr2, d

\* What is left of a queue whose first n orders have given all they had.
LEMMA RestIs ==
    ASSUME NEW q, TypedQueues(q), NEW a, NEW tr, NEW k \in Promise!Queues, NEW n \in Nat,
           n <= Len(q[k]),
           \A i \in 1..Len(q[k]) : i <= n <=> Share(q, a, tr, k, i) = q[k][i].qty
    PROVE  Rest(q, a, tr, k) =
                [i \in 1..(Len(q[k]) - n) |->
                    [id  |-> q[k][n + i].id,
                     qty |-> q[k][n + i].qty - Share(q, a, tr, k, n + i)]]
<1>1. Len(q[k]) \in Nat /\ DOMAIN q[k] = 1..Len(q[k])
  <2>1. q[k] \in Seq(Promise!Entry)
    BY DEF TypedQueues
  <2> QED
    BY <2>1, LenProperties
<1>2. Spent(q, a, tr, k) = 1..n
  <2>1. \A i : i \in 1..Len(q[k]) /\ i <= n <=> i \in 1..n
    BY <1>1
  <2>2. Spent(q, a, tr, k) = {i \in 1..Len(q[k]) : Share(q, a, tr, k, i) = q[k][i].qty}
    BY <1>1 DEF Spent
  <2> QED
    BY <2>1, <2>2
<1>3. Cardinality(1..n) = n
  <2>1. 1 \in Int /\ n \in Int
    OBVIOUS
  <2>2. Cardinality(1..n) = IF 1 > n THEN 0 ELSE n - 1 + 1
    BY <2>1, FS_Interval
  <2> QED
    BY <2>2
<1> QED
  BY <1>2, <1>3 DEF Rest

\* Who has given what, after a clean match.
LEMMA CleanShares ==
    ASSUME NEW q, TypedQueues(q), NEW a \in Actions, NEW tr, NEW R, NEW c,
           CleanBy(q, a, tr, R, c), NEW k \in Promise!Queues, NEW i \in 1..Len(q[k])
    PROVE  Share(q, a, tr, k, i) = IF i <= c[k] THEN q[k][i].qty ELSE 0
<1> DEFINE x == <<k[2], i>>
           h == <<Opposite(a), k[2]>>
<1>1. Left(q, a, R, c) /\ InFull(q, a, tr, c)
  BY DEF CleanBy
<1>2. c[k] \in Nat /\ (c[k] > 0 => k[1] = Opposite(a) /\ k[2] \in InReach(a))
  BY <1>1 DEF Left
<1>3. k = <<k[1], k[2]>>
  BY DEF Promise!Queues
<1>4. CASE k[1] = Opposite(a) /\ k[2] \in InReach(a)
  <2>1. h = k
    BY <1>3, <1>4
  <2>2. x \in Waiting(q, a)
    BY <1>4, <2>1, WaitingIs
  <2>3. x[1] = k[2] /\ x[2] = i /\ At(q, a, x) = q[k][i]
    BY <2>1 DEF At
  <2>4. x \in Gone(q, a, c) <=> i <= c[k]
    BY <2>1, <2>2, <2>3 DEF Gone
  <2>5. Share(q, a, tr, k, i) = IF Turn(q, a, x) <= Len(tr) THEN tr[Turn(q, a, x)].quantity ELSE 0
    BY <1>4 DEF Share
  <2> HIDE DEF x
  <2>6. /\ Turn(q, a, x) <= Len(tr) <=> i <= c[k]
        /\ i <= c[k] => tr[Turn(q, a, x)] = WholeTrade(q[k][i], k[2])
    BY <1>1, <2>2, <2>3, <2>4 DEF InFull
  <2> QED
    BY <2>5, <2>6 DEF WholeTrade
<1>5. CASE ~(k[1] = Opposite(a) /\ k[2] \in InReach(a))
  <2>1. Share(q, a, tr, k, i) = 0
    BY <1>5 DEF Share
  <2>2. ~(i <= c[k])
    BY <1>2, <1>5
  <2> QED
    BY <2>1, <2>2
<1> QED
  BY <1>4, <1>5

\* The place of a queue holds an order of one lot or more.
LEMMA PlacesHold ==
    ASSUME NEW q, TypedQueues(q), NEW k \in Promise!Queues
    PROVE  /\ q[k] \in Seq(Promise!Entry) /\ Len(q[k]) \in Nat /\ DOMAIN q[k] = 1..Len(q[k])
           /\ \A i \in 1..Len(q[k]) : q[k][i] \in Promise!Entry /\ q[k][i].qty \in Nat \ {0}
<1>1. q[k] \in Seq(Promise!Entry)
  BY DEF TypedQueues
<1>2. \A i \in 1..Len(q[k]) : q[k][i] \in Promise!Entry
  BY <1>1, ElementOfSeq
<1>3. \A e \in Promise!Entry : e.qty \in Nat \ {0}
  BY RequestAssumption DEF Promise!Entry
<1> QED
  BY <1>1, <1>2, <1>3, LenProperties

\* What trades tr leave of the queues.
Remains(q, a, tr) == [k \in Promise!Queues |-> Rest(q, a, tr, k)]

\* A clean match leaves of every queue what its trades say.
LEMMA CleanRest ==
    ASSUME NEW q, TypedQueues(q), NEW a \in Actions, NEW tr, NEW R, NEW c,
           CleanBy(q, a, tr, R, c)
    PROVE  R = Remains(q, a, tr)
<1>1. Left(q, a, R, c)
  BY DEF CleanBy
<1>2. ASSUME NEW k \in Promise!Queues
      PROVE  R[k] = Rest(q, a, tr, k)
  <2> DEFINE n == c[k]
             m == Len(q[k]) - n
  <2>1. /\ n \in Nat /\ n <= Len(q[k]) /\ R[k] \in Seq(Promise!Entry) /\ Len(R[k]) = m
        /\ \A i \in 1..Len(R[k]) : R[k][i] = q[k][n + i]
    BY <1>1 DEF Left
  <2>2. Len(q[k]) \in Nat
        /\ \A i \in 1..Len(q[k]) : q[k][i] \in Promise!Entry /\ q[k][i].qty \in Nat \ {0}
    BY PlacesHold
  <2>3. \A i \in 1..Len(q[k]) : Share(q, a, tr, k, i) = IF i <= n THEN q[k][i].qty ELSE 0
    BY CleanShares
  <2> HIDE DEF n
  <2>4. \A i \in 1..Len(q[k]) : i <= n <=> Share(q, a, tr, k, i) = q[k][i].qty
    BY <2>2, <2>3
  <2>5. Rest(q, a, tr, k) = [i \in 1..m |-> [id  |-> q[k][n + i].id,
                                             qty |-> q[k][n + i].qty - Share(q, a, tr, k, n + i)]]
    BY <2>1, <2>4, RestIs
  <2>6. ASSUME NEW i \in 1..m
        PROVE  R[k][i] = [id  |-> q[k][n + i].id,
                          qty |-> q[k][n + i].qty - Share(q, a, tr, k, n + i)]
    <3> DEFINE e == q[k][n + i]
    <3>1. n + i \in 1..Len(q[k]) /\ ~(n + i <= n)
      BY <2>1, <2>2
    <3>2. e \in Promise!Entry /\ Share(q, a, tr, k, n + i) = 0 /\ e.qty \in Nat
      BY <2>2, <2>3, <3>1
    <3>3. R[k][i] = e
      BY <2>1
    <3> HIDE DEF e
    <3>4. e = [id |-> e.id, qty |-> e.qty] /\ e.qty - 0 = e.qty
      BY <3>2 DEF Promise!Entry
    <3>5. R[k][i] = [id |-> e.id, qty |-> e.qty - Share(q, a, tr, k, n + i)]
      BY <3>2, <3>3, <3>4
    <3> QED
      BY <3>5 DEF e
  <2>7. R[k] = [i \in 1..m |-> R[k][i]]
    <3> DEFINE w == R[k]
    <3>1. w \in Seq(Promise!Entry) /\ Len(w) = m
      BY <2>1
    <3> HIDE DEF w, m
    <3>2. w = [i \in 1..m |-> w[i]]
      BY <3>1, LenProperties
    <3> QED
      BY <3>2 DEF w
  <2> HIDE DEF m
  <2> QED
    BY <2>5, <2>6, <2>7
<1>3. R = [k \in Promise!Queues |-> R[k]]
  BY <1>1 DEF Left
<1> QED
  BY <1>2, <1>3 DEF Remains

\* What a finished match must be: PriceTimePriority of the trades and the queues.
FilledBy(q, a, tr, R, left) ==
    /\ \A x \in Waiting(q, a) : InTurn(q, a, tr, left, x)
    /\ Len(tr) <= Cardinality(Waiting(q, a))
    /\ R = Remains(q, a, tr)

\* A clean match may stop here, with or without quantity to fill.
LEMMA CleanFilled ==
    ASSUME NEW q, TypedQueues(q), NEW a \in Actions, IsFiniteSet(Waiting(q, a)),
           NEW tr, NEW R, NEW c, CleanBy(q, a, tr, R, c), NEW left
    PROVE  FilledBy(q, a, tr, R, left)
<1>1. InFull(q, a, tr, c)
  BY DEF CleanBy
<1>2. ASSUME NEW x \in Waiting(q, a)
      PROVE  InTurn(q, a, tr, left, x)
  <2> DEFINE n == Turn(q, a, x)
             e == At(q, a, x)
  <2>1. SUFFICES ASSUME n <= Len(tr)
                 PROVE  /\ tr[n].resting_order_id = e.id /\ tr[n].price = x[1]
                        /\ tr[n].quantity \in 1..e.qty
                        /\ n < Len(tr) \/ left > 0 => tr[n].quantity = e.qty
    BY DEF InTurn
  <2>2. tr[n] = WholeTrade(e, x[1])
    BY <1>1, <2>1 DEF InFull
  <2>3. e \in Promise!Entry
    BY WaitingIs
  <2> HIDE DEF e, n
  <2>4. e.qty \in 1..e.qty
    BY <2>3, RequestAssumption DEF Promise!Entry
  <2> QED
    BY <2>2, <2>4 DEF WholeTrade
<1>3. Len(tr) <= Cardinality(Waiting(q, a))
  <2>1. Gone(q, a, c) \in SUBSET Waiting(q, a)
    BY DEF Gone
  <2>2. Cardinality(Gone(q, a, c)) <= Cardinality(Waiting(q, a))
    BY <2>1, FS_Subset
  <2> QED
    BY <1>1, <2>2 DEF InFull
<1> QED
  BY <1>2, <1>3, CleanRest DEF FilledBy

\* When nothing in reach is left, the match has traded with everyone who waited.
LEMMA AllGone ==
    ASSUME NEW q, TypedQueues(q), NEW a \in Actions, NEW tr, NEW R, NEW c,
           CleanBy(q, a, tr, R, c), \A p \in InReach(a) : R[<<Opposite(a), p>>] = << >>
    PROVE  Len(tr) = Cardinality(Waiting(q, a))
<1>1. Left(q, a, R, c) /\ InFull(q, a, tr, c)
  BY DEF CleanBy
<1>2. ASSUME NEW x \in Waiting(q, a)
      PROVE  x \in Gone(q, a, c)
  <2> DEFINE p == x[1]
             k == <<Opposite(a), p>>
  <2>1. p \in InReach(a) /\ x[2] \in 1..Len(q[k]) /\ x[2] \in Nat
    BY WaitingIs
  <2>2. R[k] = << >>
    BY <2>1
  <2> HIDE DEF p
  <2>3. k = <<Opposite(a), p>>
    OBVIOUS
  <2> HIDE DEF k
  <2>4. /\ c[k] \in Nat /\ Len(R[k]) \in Nat /\ Len(q[k]) \in Nat
        /\ Len(R[k]) = Len(q[k]) - c[k] /\ Len(R[k]) = 0
    BY <1>1, <2>1, <2>2, <2>3, LeftIs
  <2>5. x[2] <= c[k]
    BY <2>1, <2>4
  <2> QED
    BY <2>5 DEF Gone, k, p
<1>3. Gone(q, a, c) = Waiting(q, a)
  BY <1>2 DEF Gone
<1> QED
  BY <1>1, <1>3 DEF InFull

\* Before its first trade a match is clean.
LEMMA CleanStart ==
    ASSUME NEW q, TypedQueues(q), NEW a \in Actions, IsFiniteSet(Waiting(q, a))
    PROVE  CleanBy(q, a, << >>, q, [k \in Promise!Queues |-> 0])
<1> DEFINE c == [k \in Promise!Queues |-> 0]
<1>1. c \in [Promise!Queues -> Nat] /\ \A k \in Promise!Queues : c[k] = 0
  OBVIOUS
<1> HIDE DEF c
<1>2. Left(q, a, q, c)
  <2>1. ASSUME NEW k \in Promise!Queues
        PROVE  /\ c[k] <= Len(q[k]) /\ Len(q[k]) = Len(q[k]) - c[k]
               /\ \A i \in 1..Len(q[k]) : q[k][i] = q[k][c[k] + i]
               /\ c[k] > 0 => k[1] = Opposite(a) /\ k[2] \in InReach(a)
    <3>1. c[k] = 0 /\ Len(q[k]) \in Nat
      BY <1>1, PlacesHold
    <3>2. \A i \in 1..Len(q[k]) : 0 + i = i
      BY <3>1
    <3> QED
      BY <3>1, <3>2
  <2> QED
    BY <1>1, <2>1 DEF Left, TypedQueues
<1>3. Gone(q, a, c) = {}
  <2>1. ASSUME NEW x \in Waiting(q, a)
        PROVE  ~(x[2] <= c[<<Opposite(a), x[1]>>])
    <3>1. x[1] \in InReach(a) /\ x[2] \in 1..Len(q[<<Opposite(a), x[1]>>])
      BY WaitingIs
    <3>2. <<Opposite(a), x[1]>> \in Promise!Queues
      BY <3>1, OppositeSide
    <3>3. c[<<Opposite(a), x[1]>>] = 0
      BY <1>1, <3>2
    <3> QED
      BY <3>1, <3>3
  <2> QED
    BY <2>1 DEF Gone
<1>4. Len(<< >>) = 0 /\ Cardinality(Gone(q, a, c)) = 0
  BY <1>3, FS_EmptySet
<1>5. \A x \in Waiting(q, a) : ~(Turn(q, a, x) <= 0)
  BY TurnsInLine
<1>6. InFull(q, a, << >>, c)
  BY <1>3, <1>4, <1>5 DEF InFull
<1>7. CleanBy(q, a, << >>, q, c)
  BY <1>2, <1>6 DEF CleanBy
<1> QED
  BY <1>7 DEF c

\* The head of queue k has given the quantity of trade e, and S is what remains.
Lowered(R, S, k, e) ==
    /\ S \in [Promise!Queues -> Seq(Promise!Entry)]
    /\ \A h \in Promise!Queues \ {k} : S[h] = R[h]
    /\ Len(S[k]) = Len(R[k])
    /\ \A i \in 1..Len(R[k]) :
            S[k][i] = IF i = 1 THEN [id |-> R[k][1].id, qty |-> R[k][1].qty - e.quantity] ELSE R[k][i]

\* A trade at price p that leaves order o some of its quantity.
PartTrade(e, o, p) == e.resting_order_id = o.id /\ e.price = p /\ e.quantity < o.qty

\* One more trade, with the head of the foremost queue, changes no other share.
LEMMA LastShare ==
    ASSUME NEW q, TypedQueues(q), NEW a \in Actions, IsFiniteSet(Waiting(q, a)),
           NEW tr \in Seq(Trade), NEW R, NEW c, CleanBy(q, a, tr, R, c), NEW p, Foremost(a, R, p),
           NEW k, k = <<Opposite(a), p>>, NEW e \in Trade,
           NEW h \in Promise!Queues, NEW i \in 1..Len(q[h])
    PROVE  Share(q, a, Append(tr, e), h, i) =
                IF h = k /\ i = c[k] + 1 THEN e.quantity ELSE Share(q, a, tr, h, i)
<1> DEFINE x == <<p, c[k] + 1>>
           y == <<h[2], i>>
           tr2 == Append(tr, e)
<1>1. p \in InReach(a) /\ R[k] # << >> /\ Left(q, a, R, c)
  BY DEF Foremost, CleanBy
<1>2. k \in Promise!Queues /\ c[k] \in Nat
  BY <1>1, LeftIs
<1>3. /\ x \in Waiting(q, a) /\ Turn(q, a, x) = Len(tr) + 1
      /\ \A z \in Waiting(q, a) \ {x} : Turn(q, a, z) <= Len(tr) + 1 <=> Turn(q, a, z) <= Len(tr)
  BY NextInLine
<1>4. Len(tr2) = Len(tr) + 1 /\ tr2[Len(tr) + 1] = e /\ Len(tr) \in Nat
      /\ \A n \in 1..Len(tr) : tr2[n] = tr[n]
  BY AppendProperties, LenProperties
<1>5. h = <<h[1], h[2]>> /\ (h = k /\ i = c[k] + 1 <=> h[1] = Opposite(a) /\ y = x)
  BY DEF Promise!Queues
<1> HIDE DEF x, tr2
<1>6. CASE h[1] = Opposite(a) /\ h[2] \in InReach(a)
  <2>1. y \in Waiting(q, a)
    <3>1. h = <<Opposite(a), h[2]>>
      BY <1>5, <1>6
    <3>2. i \in 1..Len(q[<<Opposite(a), h[2]>>])
      BY <3>1
    <3> QED
      BY <1>6, <3>2, WaitingIs
  <2>2. Share(q, a, tr2, h, i) = IF Turn(q, a, y) <= Len(tr2) THEN tr2[Turn(q, a, y)].quantity ELSE 0
    BY <1>6 DEF Share
  <2>3. Share(q, a, tr, h, i) = IF Turn(q, a, y) <= Len(tr) THEN tr[Turn(q, a, y)].quantity ELSE 0
    BY <1>6 DEF Share
  <2> HIDE DEF y
  <2>4. CASE y = x
    <3>1. Turn(q, a, y) <= Len(tr2) /\ tr2[Turn(q, a, y)] = e
      BY <1>3, <1>4, <2>4
    <3> QED
      BY <1>5, <1>6, <2>2, <2>4, <3>1 DEF tr2
  <2>5. CASE y # x
    <3>1. Turn(q, a, y) <= Len(tr2) <=> Turn(q, a, y) <= Len(tr)
      BY <1>3, <1>4, <2>1, <2>5
    <3>2. Turn(q, a, y) <= Len(tr) => tr2[Turn(q, a, y)] = tr[Turn(q, a, y)]
      <4>1. Turn(q, a, y) \in Nat /\ Turn(q, a, y) > 0
        BY <2>1, TurnsInLine
      <4> QED
        BY <1>4, <4>1
    <3> QED
      BY <1>5, <2>2, <2>3, <2>5, <3>1, <3>2 DEF tr2
  <2> QED
    BY <2>4, <2>5
<1>7. CASE ~(h[1] = Opposite(a) /\ h[2] \in InReach(a))
  <2>1. h # k
    BY <1>1, <1>7
  <2>2. Share(q, a, tr2, h, i) = 0 /\ Share(q, a, tr, h, i) = 0
    BY <1>7 DEF Share
  <2> QED
    BY <2>1, <2>2 DEF tr2
<1> QED
  BY <1>6, <1>7

\* A trade that leaves the foremost order some of its quantity: the queues.
LEMMA LoweredRest ==
    ASSUME NEW q, TypedQueues(q), NEW a \in Actions, IsFiniteSet(Waiting(q, a)),
           NEW tr \in Seq(Trade), NEW R, NEW c, CleanBy(q, a, tr, R, c), NEW p, Foremost(a, R, p),
           NEW k, k = <<Opposite(a), p>>, NEW e \in Trade, PartTrade(e, Front(R, k), p),
           NEW S, Lowered(R, S, k, e)
    PROVE  S = Remains(q, a, Append(tr, e))
<1> DEFINE tr2 == Append(tr, e)
<1>1. Left(q, a, R, c) /\ p \in InReach(a) /\ R[k] # << >>
  BY DEF CleanBy, Foremost
<1>2. /\ k \in Promise!Queues /\ c[k] \in Nat /\ Len(R[k]) \in Nat /\ Len(R[k]) # 0
      /\ Len(R[k]) = Len(q[k]) - c[k] /\ Len(q[k]) \in Nat
  BY <1>1, LeftIs
<1>3. e.quantity \in Nat \ {0} /\ e.quantity < R[k][1].qty
  BY RequestAssumption DEF Trade, PartTrade, Front
<1>4. R[k][1] = q[k][c[k] + 1]
  <2>1. 1 \in 1..Len(R[k])
    BY <1>2
  <2> QED
    BY <1>1, <1>2, <2>1 DEF Left
<1> HIDE DEF tr2
<1>5. ASSUME NEW h \in Promise!Queues
      PROVE  S[h] = Rest(q, a, tr2, h)
  <2> DEFINE n == c[h]
             m == Len(q[h]) - n
             Sh(i) == Share(q, a, tr2, h, i)
  <2>1. /\ n \in Nat /\ n <= Len(q[h]) /\ Len(R[h]) = m
        /\ \A i \in 1..Len(R[h]) : R[h][i] = q[h][n + i]
    BY <1>1 DEF Left
  <2>2. Len(q[h]) \in Nat
        /\ \A i \in 1..Len(q[h]) : q[h][i] \in Promise!Entry /\ q[h][i].qty \in Nat \ {0}
    BY PlacesHold
  <2>3. \A i \in 1..Len(q[h]) : Share(q, a, tr, h, i) = IF i <= n THEN q[h][i].qty ELSE 0
    BY CleanShares
  <2>4. \A i \in 1..Len(q[h]) : Sh(i) = IF h = k /\ i = n + 1 THEN e.quantity
                                        ELSE IF i <= n THEN q[h][i].qty ELSE 0
    <3>1. \A i \in 1..Len(q[h]) : Sh(i) = IF h = k /\ i = c[k] + 1 THEN e.quantity
                                          ELSE Share(q, a, tr, h, i)
      BY LastShare DEF tr2
    <3> QED
      BY <2>3, <3>1
  <2>5. h = k => q[h][n + 1].qty = R[k][1].qty
    BY <1>4
  <2> HIDE DEF n, Sh
  <2>6. \A i \in 1..Len(q[h]) : i <= n <=> Sh(i) = q[h][i].qty
    <3> SUFFICES ASSUME NEW i \in 1..Len(q[h])
                 PROVE  i <= n <=> Sh(i) = q[h][i].qty
      OBVIOUS
    <3>1. CASE h = k /\ i = n + 1
      <4>1. Sh(i) = e.quantity
        BY <2>4, <3>1
      <4>2. q[h][i].qty = R[k][1].qty
        BY <2>5, <3>1
      <4>3. ~(i <= n)
        BY <2>1, <3>1
      <4> QED
        BY <1>3, <4>1, <4>2, <4>3
    <3>2. CASE ~(h = k /\ i = n + 1)
      BY <2>1, <2>2, <2>4, <3>2
    <3> QED
      BY <3>1, <3>2
  <2>7. Rest(q, a, tr2, h) = [i \in 1..m |-> [id |-> q[h][n + i].id,
                                              qty |-> q[h][n + i].qty - Sh(n + i)]]
    BY <2>1, <2>6, RestIs DEF Sh
  <2>8. S[h] \in Seq(Promise!Entry) /\ Len(S[h]) = m
    <3>1. S \in [Promise!Queues -> Seq(Promise!Entry)]
      BY DEF Lowered
    <3>2. Len(S[h]) = Len(R[h])
      <4>1. CASE h = k
        BY <4>1 DEF Lowered
      <4>2. CASE h # k
        BY <4>2 DEF Lowered
      <4> QED
        BY <4>1, <4>2
    <3> QED
      BY <2>1, <3>1, <3>2
  <2>9. ASSUME NEW i \in 1..m
        PROVE  S[h][i] = [id |-> q[h][n + i].id, qty |-> q[h][n + i].qty - Sh(n + i)]
    <3> DEFINE o == q[h][n + i]
    <3>1. n + i \in 1..Len(q[h]) /\ ~(n + i <= n) /\ (n + i = n + 1 <=> i = 1)
          /\ i \in 1..Len(R[h])
      BY <2>1, <2>2
    <3>2. o \in Promise!Entry /\ o.qty \in Nat /\ R[h][i] = o
      BY <2>1, <2>2, <3>1
    <3>3. Sh(n + i) = IF h = k /\ i = 1 THEN e.quantity ELSE 0
      BY <2>4, <3>1
    <3> HIDE DEF o
    <3>4. CASE h = k /\ i = 1
      <4>1. S[h][i] = [id |-> o.id, qty |-> o.qty - e.quantity]
        BY <3>1, <3>2, <3>4 DEF Lowered
      <4> QED
        BY <3>3, <3>4, <4>1 DEF o
    <3>5. CASE ~(h = k /\ i = 1)
      <4>1. S[h][i] = o
        BY <3>1, <3>2, <3>5 DEF Lowered
      <4>2. o = [id |-> o.id, qty |-> o.qty] /\ o.qty - 0 = o.qty
        BY <3>2 DEF Promise!Entry
      <4>3. S[h][i] = [id |-> o.id, qty |-> o.qty - Sh(n + i)]
        BY <3>3, <3>5, <4>1, <4>2
      <4> QED
        BY <4>3 DEF o
    <3> QED
      BY <3>4, <3>5
  <2>10. S[h] = [i \in 1..m |-> S[h][i]]
    <3> DEFINE w == S[h]
    <3>1. w \in Seq(Promise!Entry) /\ Len(w) = m
      BY <2>8
    <3> HIDE DEF w, m
    <3>2. w = [i \in 1..m |-> w[i]]
      BY <3>1, LenProperties
    <3> QED
      BY <3>2 DEF w
  <2> HIDE DEF m
  <2> QED
    BY <2>7, <2>9, <2>10
<1>6. S = [h \in Promise!Queues |-> S[h]]
  BY DEF Lowered
<1> QED
  BY <1>5, <1>6 DEF tr2, Remains

\* A trade that leaves the foremost order some of its quantity is the last.
LEMMA PartFilled ==
    ASSUME NEW q, TypedQueues(q), NEW a \in Actions, IsFiniteSet(Waiting(q, a)),
           NEW tr \in Seq(Trade), NEW R, NEW c, CleanBy(q, a, tr, R, c), NEW p, Foremost(a, R, p),
           NEW k, k = <<Opposite(a), p>>, NEW e \in Trade, PartTrade(e, Front(R, k), p),
           NEW S, Lowered(R, S, k, e)
    PROVE  FilledBy(q, a, Append(tr, e), S, 0)
<1> DEFINE W == Waiting(q, a)
           x == <<p, c[k] + 1>>
           tr2 == Append(tr, e)
<1>1. Left(q, a, R, c) /\ p \in InReach(a) /\ R[k] # << >> /\ InFull(q, a, tr, c)
  BY DEF CleanBy, Foremost
<1>2. /\ x \in W /\ Turn(q, a, x) = Len(tr) + 1 /\ x \notin Gone(q, a, c)
      /\ \A z \in W \ {x} : Turn(q, a, z) <= Len(tr) + 1 <=> Turn(q, a, z) <= Len(tr)
  BY NextInLine
<1>3. Front(R, k) = At(q, a, x) /\ x[1] = p
  <2>1. x = <<p, c[k] + 1>> /\ x[1] = p
    OBVIOUS
  <2> HIDE DEF x
  <2> QED
    BY <1>1, <2>1, LeftHead
<1>4. Len(tr2) = Len(tr) + 1 /\ tr2[Len(tr) + 1] = e /\ Len(tr) \in Nat
      /\ \A n \in 1..Len(tr) : tr2[n] = tr[n]
  BY AppendProperties, LenProperties
<1>5. \A z \in W : Turn(q, a, z) \in Nat /\ Turn(q, a, z) > 0 /\ At(q, a, z) \in Promise!Entry
  BY TurnsInLine, WaitingIs
<1>6. \A z \in Promise!Entry : z.qty \in Nat \ {0}
  BY RequestAssumption DEF Promise!Entry
<1> HIDE DEF x, tr2
<1>7. ASSUME NEW z \in W
      PROVE  InTurn(q, a, tr2, 0, z)
  <2> DEFINE n == Turn(q, a, z)
             o == At(q, a, z)
  <2>0. n \in Nat /\ n > 0 /\ o \in Promise!Entry /\ o.qty \in Nat \ {0}
    BY <1>5, <1>6
  <2>1. SUFFICES ASSUME n <= Len(tr2)
                 PROVE  /\ tr2[n].resting_order_id = o.id /\ tr2[n].price = z[1]
                        /\ tr2[n].quantity \in 1..o.qty
                        /\ n < Len(tr2) => tr2[n].quantity = o.qty
    BY DEF InTurn
  <2>2. CASE z = x
    <3>1. tr2[n] = e /\ n = Len(tr2) /\ o = Front(R, k) /\ z[1] = p
      BY <1>2, <1>3, <1>4, <2>2
    <3>2. e.quantity \in Nat \ {0} /\ PartTrade(e, o, p)
      BY <3>1, RequestAssumption DEF Trade
    <3> HIDE DEF n, o
    <3> QED
      BY <1>4, <2>0, <3>1, <3>2 DEF PartTrade
  <2>3. CASE z # x
    <3>1. n <= Len(tr) /\ tr2[n] = tr[n]
      BY <1>2, <1>4, <2>0, <2>1, <2>3
    <3>2. tr[n] = WholeTrade(o, z[1])
      BY <1>1, <3>1 DEF InFull
    <3> HIDE DEF n, o
    <3> QED
      BY <2>0, <3>1, <3>2 DEF WholeTrade
  <2> QED
    BY <2>2, <2>3
<1>8. Len(tr2) <= Cardinality(W)
  <2> DEFINE G == Gone(q, a, c)
  <2>1. x \notin G /\ G \cup {x} \in SUBSET W /\ IsFiniteSet(G) /\ Cardinality(G) = Len(tr)
    <3>1. G \in SUBSET W
      BY DEF Gone
    <3> QED
      BY <1>1, <1>2, <3>1, FS_Subset DEF InFull
  <2> HIDE DEF G
  <2>2. Cardinality(G \cup {x}) = Len(tr) + 1 /\ Cardinality(G \cup {x}) <= Cardinality(W)
    BY <2>1, FS_AddElement, FS_Subset
  <2> QED
    BY <1>4, <2>2
<1>9. S = Remains(q, a, tr2)
  BY LoweredRest DEF tr2
<1>10. FilledBy(q, a, tr2, S, 0)
  BY <1>7, <1>8, <1>9 DEF FilledBy
<1> QED
  BY <1>10 DEF tr2

-----------------------------------------------------------------------------
(* Price-time priority, said of the book.                                  *)

\* The head of the best level is the front of the best queue of its side.
HeadFront(b, s, i) ==
    LET o == b.orders[i]
        R == RestingIn(b)
        k == <<s, o.price>>
    IN  /\ k \in Promise!Queues /\ R[k] # << >> /\ Len(R[k]) \in Nat /\ 1 \in 1..Len(R[k])
        /\ Slot(b, k, 1) = i /\ R[k][1] = [id |-> o.order_id, qty |-> o.remaining_qty]
        /\ \A t \in Prices : Better(s, t, o.price) => R[<<s, t>>] = << >>

\* A queue is empty when no order of its side and price is live.
LEMMA NobodyRests ==
    ASSUME NEW b, Whole(b), NEW k \in Promise!Queues
    PROVE  RestingIn(b)[k] = << >> <=> OrdersAt(b, k[1], k[2]) = {}
<1> DEFINE r == RestingIn(b)[k]
<1>1. /\ Len(r) \in Nat /\ (r = << >> <=> Len(r) = 0)
      /\ \A m \in 1..Len(r) : Slot(b, k, m) \in OrdersAt(b, k[1], k[2])
      /\ \A i \in OrdersAt(b, k[1], k[2]) : \E m \in 1..Len(r) : Slot(b, k, m) = i
  BY QueuesPlaced DEF Placed, Shown
<1> HIDE DEF r
<1>2. r # << >> => 1 \in 1..Len(r)
  BY <1>1
<1>3. r = << >> => 1..Len(r) = {}
  BY <1>1
<1>4. r = << >> <=> OrdersAt(b, k[1], k[2]) = {}
  BY <1>1, <1>2, <1>3
<1> QED
  BY <1>4 DEF r

\* The head of the best level of the resting side is the order whose turn it is: the first
\* of the orders in reach that still wait.
LEMMA HeadInFront ==
    ASSUME NEW b, Whole(b), Asked(b), NEW s \in Sides, NEW l \in b.sides[s].tree,
           b.sides[s].bbo = l, NEW i, i = b.levels[l].head_order_idx
    PROVE  HeadFront(b, s, i)
<1> DEFINE o == b.orders[i]
           R == RestingIn(b)
           p == o.price
           k == <<s, p>>
<1>1. i \in OrderSlots /\ i \in On(b, s, l) /\ l \in LevelSlots /\ l # kInvalid
  <2>1. l \in LevelSlots
    BY TreeLevels DEF Whole
  <2> QED
    BY <2>1, HeadQueued DEF LevelSlots, kInvalid
<1>2. i \in Live(b) /\ p = b.levels[l].price /\ p \in Prices /\ k \in Promise!Queues
      /\ i \in OrdersAt(b, s, p)
  BY <1>1, QueuesAre DEF On, OrdersAt, Asked
<1>3. PICK n \in Nat : \E q \in [1..n -> OrderSlots] : FullList(b, s, p, n, q)
  BY <1>2, ListsExist
<1>4. PICK q \in [1..n -> OrderSlots] : FullList(b, s, p, n, q)
  BY <1>3
<1>5. Chain(b, l, n, q)
  <2>1. \A m \in b.sides[s].tree : b.levels[m].price = b.levels[l].price => m = l
    BY TreeLevels DEF Whole
  <2> QED
    BY <1>2, <1>4, <2>1 DEF FullList, Lists
<1>6. n # 0 /\ 1 \in 1..n
  <2>1. \E m \in 1..n : q[m] = i
    BY <1>2, <1>4 DEF FullList, Entries
  <2> QED
    BY <2>1
<1>7. q[1] = i
  BY <1>5, <1>6 DEF Chain
<1>8. SlotsAre(b, k, n, q)
  BY <1>2, <1>4, SlotsListed
<1>9. /\ Slot(b, k, 1) = i /\ R[k][1] = [id |-> o.order_id, qty |-> o.remaining_qty]
      /\ Len(R[k]) = n
  BY <1>6, <1>7, <1>8 DEF SlotsAre
<1>10. R[k] # << >>
  BY <1>2, NobodyRests
<1>11. ASSUME NEW t \in Prices, Better(s, t, p)
       PROVE  R[<<s, t>>] = << >>
  <2>1. \A j \in Live(b) : b.orders[j].side = s => ~Better(s, b.orders[j].price, p)
    BY <1>1, <1>2, BestBounds
  <2>2. OrdersAt(b, s, t) = {}
    BY <1>11, <2>1 DEF OrdersAt
  <2>3. <<s, t>> \in Promise!Queues
    BY QueuesAre
  <2> QED
    BY <2>2, <2>3, NobodyRests
<1> HIDE DEF R
<1>12. Len(R[k]) \in Nat /\ 1 \in 1..Len(R[k])
  BY <1>6, <1>9
<1> QED
  BY <1>2, <1>9, <1>10, <1>11, <1>12 DEF HeadFront, R

\* Executing the head of the best level to its last unit takes the front out of its
\* queue.
LEMMA ExecutedPopped ==
    ASSUME NEW b, Whole(b), Asked(b), NEW s \in Sides, NEW i \in Live(b), HeadFront(b, s, i),
           b.orders[i].side = s, NEW c, Whole(c), Asked(c), NEW k, k = <<s, b.orders[i].price>>,
           RestingIn(c) = Promise!Without(RestingIn(b), b.orders[i].order_id)
    PROVE  Popped(RestingIn(b), RestingIn(c), k)
<1> DEFINE R == RestingIn(b)
           S == RestingIn(c)
           id == b.orders[i].order_id
<1>1. /\ k \in Promise!Queues /\ Len(R[k]) \in Nat /\ 1 \in 1..Len(R[k])
      /\ Slot(b, k, 1) = i /\ R[k][1].id = id
  BY DEF HeadFront
<1>2. b.order_map[id] = i
  BY LiveMapped
<1>3. S \in [Promise!Queues -> Seq(Promise!Entry)] /\ R \in [Promise!Queues -> Seq(Promise!Entry)]
  BY RestingType
<1>4. ASSUME NEW h \in Promise!Queues, id \in Promise!Ids(R[h])
      PROVE  h = k /\ \A m \in DOMAIN R[h] : R[h][m].id = id => m = 1
  <2>1. PICK m \in DOMAIN R[h] : R[h][m].id = id
    BY <1>4 DEF Promise!Ids
  <2>2. Placed(b, h) /\ Placed(b, k)
    BY <1>1, QueuesPlaced
  <2>3. Slot(b, h, m) = i /\ Slot(b, h, m) \in OrdersAt(b, h[1], h[2])
    <3>1. Slot(b, h, m) = i
      BY <1>2, <2>1 DEF Slot
    <3>2. m \in 1..Len(R[h])
      BY <2>1, <2>2 DEF Placed
    <3> QED
      BY <2>2, <3>1, <3>2 DEF Placed, Shown
  <2>4. h = k
    <3>1. h[1] = s /\ h[2] = b.orders[i].price
      BY <2>3 DEF OrdersAt
    <3> QED
      BY <3>1, QueuesAre
  <2>5. ASSUME NEW j \in DOMAIN R[h], R[h][j].id = id
        PROVE  j = 1
    <3>1. Slot(b, k, j) = i
      BY <1>2, <2>4, <2>5 DEF Slot
    <3>2. j \in 1..Len(R[k])
      BY <2>2, <2>4 DEF Placed
    <3> QED
      BY <1>1, <2>2, <3>1, <3>2 DEF Placed
  <2> QED
    BY <2>4, <2>5
<1>5. id \in Promise!Ids(R[k]) /\ Promise!Place(R[k], id) = 1
  <2>1. DOMAIN R[k] = 1..Len(R[k])
    BY <1>1, QueuesPlaced DEF Placed
  <2>2. 1 \in DOMAIN R[k] /\ R[k][1].id = id
    BY <1>1, <2>1
  <2>3. id \in Promise!Ids(R[k])
    BY <2>2 DEF Promise!Ids
  <2> QED
    BY <1>1, <1>4, <2>2, <2>3 DEF Promise!Place
<1>6. \A h \in Promise!Queues : S[h] = IF id \in Promise!Ids(R[h])
                                      THEN Promise!Leave(R[h], Promise!Place(R[h], id)) ELSE R[h]
  <2>1. S = Promise!Without(R, id)
    OBVIOUS
  <2> HIDE DEF S, R, id
  <2> QED
    BY <2>1 DEF Promise!Without
<1>7. \A h \in Promise!Queues \ {k} : S[h] = R[h]
  BY <1>4, <1>6
<1>8. S[k] = Promise!Leave(R[k], 1)
  BY <1>1, <1>5, <1>6
<1>9. Len(S[k]) = Len(R[k]) - 1 /\ \A m \in 1..Len(S[k]) : S[k][m] = R[k][m + 1]
  <2> DEFINE u == R[k]
             v == S[k]
             n == Len(u) - 1
  <2>1. n \in Nat /\ v = [m \in 1..n |-> IF m < 1 THEN u[m] ELSE u[m + 1]]
    BY <1>1, <1>8 DEF Promise!Leave
  <2>2. v \in Seq(Promise!Entry)
    BY <1>1, <1>3
  <2> HIDE DEF u, v, n
  <2>3. DOMAIN v = 1..n
    BY <2>1
  <2>4. Len(v) = n
    BY <2>1, <2>2, <2>3, LenProperties
  <2>5. \A m \in 1..n : v[m] = u[m + 1]
    BY <2>1
  <2> QED
    BY <2>4, <2>5 DEF u, v, n
<1> HIDE DEF R, S
<1>10. Popped(R, S, k)
  BY <1>3, <1>7, <1>9 DEF Popped
<1> QED
  BY <1>10 DEF R, S

\* Executing part of it takes the quantity from the front.
LEMMA ExecutedLowered ==
    ASSUME NEW b, Whole(b), Asked(b), NEW s \in Sides, NEW i \in Live(b), HeadFront(b, s, i),
           b.orders[i].side = s, NEW c, Whole(c), Asked(c), NEW k, k = <<s, b.orders[i].price>>,
           NEW e, e.quantity # b.orders[i].remaining_qty,
           Took(b, c, b.orders[i].order_id, e.quantity)
    PROVE  Lowered(RestingIn(b), RestingIn(c), k, e)
<1> DEFINE R == RestingIn(b)
           S == RestingIn(c)
           id == b.orders[i].order_id
           o == b.orders[i]
           x == o.remaining_qty - e.quantity
<1>1. /\ k \in Promise!Queues /\ Len(R[k]) \in Nat /\ 1 \in 1..Len(R[k])
      /\ Slot(b, k, 1) = i /\ R[k][1] = [id |-> id, qty |-> o.remaining_qty]
  BY DEF HeadFront
<1>2. b.order_map[id] = i
  BY LiveMapped
<1>3. S \in [Promise!Queues -> Seq(Promise!Entry)] /\ R \in [Promise!Queues -> Seq(Promise!Entry)]
  BY RestingType
<1>4. PICK h \in Promise!Queues : \E m \in 1..Len(R[h]) :
            Slot(b, h, m) = i /\ S = [R EXCEPT ![h][m].qty = x]
  BY <1>2 DEF Took
<1>5. PICK m \in 1..Len(R[h]) : Slot(b, h, m) = i /\ S = [R EXCEPT ![h][m].qty = x]
  BY <1>4
<1>6. Placed(b, h) /\ Placed(b, k)
  BY <1>1, QueuesPlaced
<1>7. h = k
  <2>1. i \in OrdersAt(b, h[1], h[2])
    BY <1>5, <1>6 DEF Placed, Shown
  <2>2. h[1] = s /\ h[2] = b.orders[i].price
    BY <2>1 DEF OrdersAt
  <2> QED
    BY <2>2, QueuesAre
<1>8. m = 1
  <2>1. m \in 1..Len(R[k]) /\ Slot(b, k, m) = Slot(b, k, 1)
    BY <1>1, <1>5, <1>7
  <2>2. \A g, j \in 1..Len(R[k]) : Slot(b, k, g) = Slot(b, k, j) => g = j
    BY <1>6 DEF Placed
  <2> HIDE DEF R
  <2> QED
    BY <1>1, <2>1, <2>2
<1>9. S = [R EXCEPT ![k][1].qty = x]
  BY <1>5, <1>7, <1>8
<1>10. R[k] \in Seq(Promise!Entry) /\ DOMAIN R[k] = 1..Len(R[k]) /\ S[k] \in Seq(Promise!Entry)
  <2>1. k \in Promise!Queues
    BY <1>1
  <2> HIDE DEF R, S
  <2> QED
    BY <1>3, <2>1, LenProperties
<1> HIDE DEF R, S, x, o, id
<1>11. S[k] = [R[k] EXCEPT ![1].qty = x] /\ \A g \in Promise!Queues \ {k} : S[g] = R[g]
  BY <1>1, <1>3, <1>9
<1>12. Len(S[k]) = Len(R[k])
  <2>1. DOMAIN S[k] = 1..Len(R[k])
    BY <1>10, <1>11
  <2> QED
    BY <1>1, <1>10, <2>1, LenProperties
<1>13. ASSUME NEW j \in 1..Len(R[k])
       PROVE  S[k][j] = IF j = 1 THEN [id |-> R[k][1].id, qty |-> R[k][1].qty - e.quantity]
                        ELSE R[k][j]
  <2>1. CASE j = 1
    <3>1. S[k][1] = [R[k][1] EXCEPT !.qty = x]
      BY <1>1, <1>10, <1>11
    <3>2. S[k][1] = [id |-> id, qty |-> x]
      BY <1>1, <3>1
    <3>3. R[k][1].id = id /\ R[k][1].qty = o.remaining_qty
      BY <1>1
    <3> QED
      BY <2>1, <3>2, <3>3 DEF x
  <2>2. CASE j # 1
    BY <1>10, <1>11, <2>2
  <2> QED
    BY <2>1, <2>2
<1>14. Lowered(R, S, k, e)
  BY <1>3, <1>11, <1>12, <1>13 DEF Lowered
<1> QED
  BY <1>14 DEF R, S

\* Finitely many orders wait for an action.
LEMMA WaitingFinite ==
    ASSUME NEW b, Whole(b), Asked(b), NEW a \in Actions
    PROVE  TypedQueues(RestingIn(b)) /\ IsFiniteSet(Waiting(RestingIn(b), a))
<1> DEFINE R == RestingIn(b)
           W == Waiting(R, a)
           f == [x \in W |-> Slot(b, <<Opposite(a), x[1]>>, x[2])]
<1>1. TypedQueues(R)
  BY RestingType DEF TypedQueues
<1>2. IsFiniteSet(Live(b))
  BY LiveCounted DEF Whole
<1> HIDE DEF R
<1>3. \A x \in W : x = <<x[1], x[2]>> /\ x[1] \in InReach(a)
                   /\ x[2] \in 1..Len(R[<<Opposite(a), x[1]>>])
  BY <1>1, WaitingIs
<1>4. ASSUME NEW x \in W
      PROVE  /\ <<Opposite(a), x[1]>> \in Promise!Queues /\ f[x] \in OrdersAt(b, Opposite(a), x[1])
             /\ f[x] = Slot(b, <<Opposite(a), x[1]>>, x[2])
  <2> DEFINE k == <<Opposite(a), x[1]>>
  <2>1. k \in Promise!Queues /\ k[1] = Opposite(a) /\ k[2] = x[1]
    BY <1>3, OppositeSide
  <2>2. Slot(b, k, x[2]) \in OrdersAt(b, k[1], k[2])
    BY <1>3, <2>1, QueuesPlaced DEF Placed, Shown, R
  <2> QED
    BY <2>1, <2>2
<1> HIDE DEF W
<1>5. ASSUME NEW x \in W, NEW y \in W, f[x] = f[y]
      PROVE  x = y
  <2>1. x[1] = y[1]
    BY <1>4, <1>5 DEF OrdersAt
  <2>2. x[2] = y[2]
    <3> DEFINE k == <<Opposite(a), x[1]>>
    <3>1. k \in Promise!Queues /\ Slot(b, k, x[2]) = Slot(b, k, y[2])
      BY <1>4, <1>5, <2>1
    <3>2. x[2] \in 1..Len(R[k]) /\ y[2] \in 1..Len(R[k])
      BY <1>3, <2>1
    <3> HIDE DEF k
    <3> QED
      BY <3>1, <3>2, QueuesPlaced DEF Placed, R
  <2> QED
    BY <1>3, <2>1, <2>2
<1>6. f \in Injection(W, Live(b))
  <2>1. f \in [W -> Live(b)]
    BY <1>4 DEF OrdersAt
  <2> QED
    BY <1>5, <2>1 DEF Injection, IsInjective
<1>7. IsFiniteSet(W)
  BY <1>2, <1>6, FS_Injection
<1> QED
  BY <1>1, <1>7 DEF W, R

\* When the best level of a side is out of an action's reach, so is everyone of that side.
LEMMA NobodyInReach ==
    ASSUME NEW b, Whole(b), Asked(b), NEW a \in Actions,
           LET bbo == b.sides[Opposite(a)].bbo
           IN  bbo = kInvalid \/ ~Reaches(a, b.levels[bbo].price),
           NEW p \in InReach(a), NEW k, k = <<Opposite(a), p>>
    PROVE  RestingIn(b)[k] = << >>
<1> DEFINE s == Opposite(a)
           bbo == b.sides[s].bbo
<1>1. k \in Promise!Queues /\ p \in Prices /\ p \in Nat /\ Reaches(a, p) /\ s \in Sides
  BY OppositeSide, RequestAssumption DEF InReach
<1>2. ASSUME NEW j \in OrdersAt(b, s, p)
      PROVE  FALSE
  <2>1. j \in Live(b) /\ b.orders[j].side = s /\ b.orders[j].price = p
    BY <1>2 DEF OrdersAt
  <2>2. bbo # kInvalid /\ b.levels[bbo].price \in Nat /\ ~Better(s, p, b.levels[bbo].price)
    BY <1>1, <2>1, BestBounds
  <2>3. ~Reaches(a, b.levels[bbo].price)
    BY <2>2
  <2> DEFINE best == b.levels[bbo].price
  <2> HIDE DEF best
  <2>4. /\ best \in Nat /\ ~Better(Opposite(a), p, best) /\ ~Reaches(a, best)
        /\ a.price \in Nat /\ a.side \in {0, 1}
    BY <2>2, <2>3, ActionType DEF best, Sides
  <2> QED
    BY <1>1, <2>4 DEF Reaches, Better, Opposite
<1>3. OrdersAt(b, k[1], k[2]) = {}
  BY <1>2
<1> QED
  BY <1>1, <1>3, NobodyRests

-----------------------------------------------------------------------------
(* Price-time priority, said of the engine.                                *)

\* The trades tr of action a have left R of the queues q, and left is still to fill.
Clean(q, a, tr, R) == \E c : CleanBy(q, a, tr, R, c)
SoFar(q, a, tr, R, left) ==
    /\ a \in Actions /\ TypedQueues(q) /\ IsFiniteSet(Waiting(q, a))
    /\ IF left > 0 THEN Clean(q, a, tr, R) ELSE FilledBy(q, a, tr, R, 0)

\* A call of match() starts so ...
LEMMA StartSoFar ==
    ASSUME NEW b, Whole(b), Asked(b), NEW a \in Actions, NEW left
    PROVE  SoFar(RestingIn(b), a, << >>, RestingIn(b), left)
<1> DEFINE q == RestingIn(b)
<1>1. TypedQueues(q) /\ IsFiniteSet(Waiting(q, a))
  BY WaitingFinite
<1> HIDE DEF q
<1>2. CleanBy(q, a, << >>, q, [k \in Promise!Queues |-> 0])
  BY <1>1, CleanStart
<1>3. Clean(q, a, << >>, q) /\ FilledBy(q, a, << >>, q, 0)
  BY <1>1, <1>2, CleanFilled DEF Clean
<1>4. SoFar(q, a, << >>, q, left)
  BY <1>1, <1>3 DEF SoFar
<1> QED
  BY <1>4 DEF q

\* The trade of one pass of the inner loop.
TradeWith(e, o) == e.resting_order_id = o.order_id /\ e.price = o.price

\* ... and goes on so with every trade with the head of the best level in reach.
LEMMA TradeSoFar ==
    ASSUME NEW q, NEW a, NEW tr \in Seq(Trade), NEW b, Whole(b), Asked(b),
           SoFar(q, a, tr, RestingIn(b), 1), NEW s, s = Opposite(a),
           NEW i \in Live(b), HeadFront(b, s, i), b.orders[i].side = s,
           Reaches(a, b.orders[i].price), NEW c, Whole(c), Asked(c),
           NEW e \in Trade, TradeWith(e, b.orders[i]), e.quantity <= b.orders[i].remaining_qty,
           Took(b, c, b.orders[i].order_id, e.quantity),
           NEW left, left > 0 => e.quantity = b.orders[i].remaining_qty
    PROVE  SoFar(q, a, Append(tr, e), RestingIn(c), left)
<1> DEFINE R == RestingIn(b)
           S == RestingIn(c)
           o == b.orders[i]
           p == o.price
           k == <<s, p>>
<1>1. a \in Actions /\ TypedQueues(q) /\ IsFiniteSet(Waiting(q, a)) /\ s \in Sides
  BY OppositeSide DEF SoFar
<1>2. PICK d : CleanBy(q, a, tr, R, d)
  BY DEF SoFar, Clean
<1>3. p \in Prices /\ o.remaining_qty \in Nat /\ e.quantity \in Nat
  BY RequestAssumption DEF Asked, Whole, Book, Order, Live, Qtys, Trade
<1>4. Foremost(a, R, p)
  <2>1. p \in InReach(a)
    BY <1>3 DEF InReach
  <2>2. R[<<s, p>>] # << >> /\ \A t \in Prices : Better(s, t, p) => R[<<s, t>>] = << >>
    BY DEF HeadFront
  <2> QED
    BY <1>1, <2>1, <2>2, OppositeSide DEF Foremost
<1>5. Front(R, k) = [id |-> o.order_id, qty |-> o.remaining_qty]
  BY DEF HeadFront, Front
<1>6. CASE e.quantity = o.remaining_qty
  <2>1. S = Promise!Without(R, o.order_id)
    <3>1. b.order_map[o.order_id] = i
      BY LiveMapped
    <3> QED
      BY <1>6, <3>1 DEF Took
  <2>2. Popped(R, S, k)
    BY <1>1, <2>1, ExecutedPopped
  <2>3. e = WholeTrade(Front(R, k), p)
    BY <1>5, <1>6 DEF WholeTrade, Trade, TradeWith
  <2>4. k = <<Opposite(a), p>> /\ R[k] # << >> /\ Left(q, a, R, d) /\ p \in InReach(a)
    BY <1>2, <1>4 DEF Foremost, CleanBy
  <2> HIDE DEF R, S, o, p, k
  <2>5. Left(q, a, S, [d EXCEPT ![k] = @ + 1])
    BY <1>1, <2>2, <2>4, PoppedLeft
  <2>6. InFull(q, a, Append(tr, e), [d EXCEPT ![k] = @ + 1])
    BY <1>1, <1>2, <1>4, <2>3, <2>4, PoppedInFull
  <2>7. CleanBy(q, a, Append(tr, e), S, [d EXCEPT ![k] = @ + 1])
    BY <2>5, <2>6 DEF CleanBy
  <2>8. Clean(q, a, Append(tr, e), S) /\ FilledBy(q, a, Append(tr, e), S, 0)
    BY <1>1, <2>7, CleanFilled DEF Clean
  <2>9. SoFar(q, a, Append(tr, e), S, left)
    BY <1>1, <2>8 DEF SoFar
  <2> QED
    BY <2>9 DEF S
<1>7. CASE e.quantity # o.remaining_qty
  <2>1. Lowered(R, S, k, e)
    BY <1>1, <1>7, ExecutedLowered
  <2>2. PartTrade(e, Front(R, k), p)
    BY <1>3, <1>5, <1>7 DEF PartTrade, TradeWith
  <2>3. k = <<Opposite(a), p>> /\ ~(left > 0)
    BY <1>7
  <2> HIDE DEF R, S, o, p, k
  <2>4. FilledBy(q, a, Append(tr, e), S, 0)
    BY <1>1, <1>2, <1>4, <2>1, <2>2, <2>3, PartFilled
  <2>5. SoFar(q, a, Append(tr, e), S, left)
    BY <1>1, <2>3, <2>4 DEF SoFar
  <2> QED
    BY <2>5 DEF S
<1> QED
  BY <1>6, <1>7

\* The incoming order is the action match() was called with, but for the quantity, and
\* its match has gone in order so far.
InCourse ==
    Running /\ pc \in {"level", "sweep", "finish"} =>
        /\ incoming.order_id = before.action.order_id /\ incoming.side = before.action.side
        /\ incoming.price = before.action.price /\ incoming.type = before.action.type
        /\ SoFar(before.queues, before.action, trades, RestingQueues, incoming.qty)

\* The level the inner loop sweeps stays in reach to its last order.
WithinReach ==
    Running /\ pc = "sweep" /\ curr_idx # kInvalid /\ incoming.qty > 0 =>
        Reaches(incoming, book.orders[curr_idx].price)

PriorityInv == EngineInv /\ InCourse /\ WithinReach /\ PriceTimePriority

\* An action that leaves alone what a call of match() has.
LEMMA SameCourse ==
    ASSUME InCourse, UNCHANGED <<book, incoming, trades, before>>,
           pc' \in {"level", "sweep", "finish"} => pc \in {"level", "sweep", "finish"}
    PROVE  InCourse'
BY DEF InCourse, Running, RestingQueues

\* While match() runs, it has returned nothing.
LEMMA NotReturned ==
    ASSUME pc' # "return"
    PROVE  PriceTimePriority'
BY DEF PriceTimePriority

\* The call of match(): no trade yet, and the queues are those it found.
LEMMA SubmitPriority ==
    ASSUME PriorityInv, EngineInv', NEW a \in Actions, Submit(a)
    PROVE  PriorityInv'
<1>1. /\ Running /\ pc = "idle" /\ trades = << >> /\ UNCHANGED <<book, curr_idx>>
      /\ incoming' = a /\ before' = [queues |-> RestingQueues, action |-> a]
      /\ pc' \in {"return", "level"} /\ trades' = << >>
      /\ pc' = "return" => status' = "RejectedRisk"
                           \/ (status' = "RejectedInvalid" /\ a.type = "FOK")
  BY DEF Submit, PriorityInv, EngineInv, Locals, Return
<1>2. Whole(book) /\ Asked(book)
  BY <1>1, GoodWhole DEF PriorityInv, EngineInv, Running
<1>3. before'.queues = RestingQueues /\ before'.action = a /\ RestingQueues' = RestingQueues
  BY <1>1 DEF RestingQueues
<1>4. SoFar(RestingQueues, a, << >>, RestingQueues, a.qty)
  BY <1>2, StartSoFar DEF RestingQueues
<1>5. InCourse'
  BY <1>1, <1>3, <1>4 DEF InCourse
<1>6. WithinReach'
  BY <1>1 DEF WithinReach
<1>7. PriceTimePriority'
  BY <1>1, <1>3 DEF PriceTimePriority, Rejected
<1> QED
  BY <1>5, <1>6, <1>7 DEF PriorityInv

\* The outer loop of match(): a level is entered within the action's reach, or the loop
\* ends with what the trades so far have left.
LEMMA BestLevelPriority ==
    ASSUME PriorityInv, EngineInv', BestLevel
    PROVE  PriorityInv'
<1> DEFINE s == Opposite(incoming)
           bbo == book.sides[s].bbo
<1>1. /\ Running /\ pc = "level" /\ UNCHANGED <<book, incoming, trades, status, before>>
      /\ Whole(book) /\ incoming \in Actions /\ s \in Sides /\ pc' \in {"sweep", "finish"}
  BY GoodWhole, ActionType DEF BestLevel, PriorityInv, EngineInv, Running, Locals
<1>2. InCourse'
  BY <1>1, SameCourse DEF PriorityInv
<1>3. WithinReach'
  <2>1. SUFFICES ASSUME pc' = "sweep"
                 PROVE  Reaches(incoming', book'.orders[curr_idx'].price)
    BY DEF WithinReach
  <2>2. /\ bbo # kInvalid /\ Reaches(incoming, book.levels[bbo].price)
        /\ curr_idx' = book.levels[bbo].head_order_idx
    BY <2>1 DEF BestLevel
  <2>3. bbo \in book.sides[s].tree
    BY <1>1, <2>2, BestBounds
  <2>4. book.orders[book.levels[bbo].head_order_idx].price = book.levels[bbo].price
    BY <1>1, <2>3, HeadQueued DEF On, OrdersAt
  <2> QED
    BY <1>1, <2>2, <2>4
<1>4. PriceTimePriority'
  BY <1>1, NotReturned
<1> QED
  BY <1>2, <1>3, <1>4 DEF PriorityInv

\* One pass of the inner loop, when the trade buffer has room.
LEMMA FillMoves ==
    ASSUME EngineInv, Fill, Running'
    PROVE  LET o == book.orders[curr_idx]
               fill == FillQty(o)
           IN  /\ Running /\ pc = "sweep" /\ curr_idx # kInvalid /\ incoming.qty > 0
               /\ UNCHANGED <<pc, status, before>>
               /\ FillServed(o, fill, CancelOrder(book, o.order_id, fill))
               /\ trades' = Append(trades, [resting_order_id |-> o.order_id,
                                            price |-> o.price, quantity |-> fill])
               /\ incoming' = [incoming EXCEPT !.qty = @ - fill]
               /\ curr_idx' = o.next_in_level
               /\ book' = CancelOrder(book, o.order_id, fill)
<1> DEFINE o == book.orders[curr_idx]
           fill == FillQty(o)
           c == CancelOrder(book, o.order_id, fill)
           trade == [resting_order_id |-> o.order_id, price |-> o.price, quantity |-> fill]
<1>1. /\ Running /\ pc = "sweep" /\ curr_idx # kInvalid /\ incoming.qty > 0
      /\ UNCHANGED <<pc, status, before>>
  BY DEF Fill
<1>2. FillServed(o, fill, c)
  BY <1>1, FillDetails
<1>3. ~BufferFull
  <2> SUFFICES ASSUME BufferFull PROVE FALSE
    OBVIOUS
  <2>1. book' = Fail(book, "TradeBuffer")
    BY <1>2 DEF Fill, FillServed
  <2> QED
    BY <2>1, FailGood DEF EngineInv, Faults, Running
<1> HIDE DEF o, fill, c
<1>4. /\ trades' = Append(trades, trade)
      /\ incoming' = [incoming EXCEPT !.qty = @ - fill]
      /\ curr_idx' = o.next_in_level
      /\ book' = OwnCall(c)
  BY <1>2, <1>3 DEF Fill, FillServed, ExecuteOrder, o, fill, c
<1>5. book' = c
  BY <1>2, <1>4 DEF OwnCall, FillServed
<1> QED
  BY <1>1, <1>2, <1>4, <1>5 DEF o, fill, c

\* One trade: with the order whose turn it is, for all it has or for all the incoming
\* order still wants; a buffer that runs over ends the process.
LEMMA FillPriority ==
    ASSUME PriorityInv, EngineInv', Fill
    PROVE  PriorityInv'
<1>1. pc = "sweep" /\ pc' = "sweep"
  BY DEF Fill
<1>2. PriceTimePriority'
  BY <1>1, NotReturned
<1>3. CASE ~Running'
  BY <1>2, <1>3 DEF PriorityInv, InCourse, WithinReach
<1>4. CASE Running'
  <2> DEFINE o == book.orders[curr_idx]
             fill == FillQty(o)
             s == Opposite(incoming)
             l == book.sides[s].bbo
             e == [resting_order_id |-> o.order_id, price |-> o.price, quantity |-> fill]
             a == before.action
             q == before.queues
             next == o.next_in_level
  <2>1. /\ Running /\ curr_idx # kInvalid /\ incoming.qty > 0 /\ UNCHANGED <<pc, status, before>>
        /\ FillServed(o, fill, CancelOrder(book, o.order_id, fill))
        /\ trades' = Append(trades, e) /\ incoming' = [incoming EXCEPT !.qty = @ - fill]
        /\ curr_idx' = next /\ book' = CancelOrder(book, o.order_id, fill)
    BY <1>4, FillMoves DEF PriorityInv
  <2>2. /\ Whole(book) /\ Asked(book) /\ Whole(book') /\ Asked(book')
        /\ incoming \in Actions /\ s \in Sides /\ trades \in Seq(Trade)
    BY <1>1, <1>4, <2>1, GoodWhole, ActionType
       DEF PriorityInv, EngineInv, Running, Locals, EngineTypeOK, Trade
  <2>3. /\ o.order_id \in OrderIds /\ o.price \in Prices /\ fill \in 1..MaxQty /\ fill \in Qtys
        /\ incoming.qty - fill \in Qtys /\ fill <= o.remaining_qty
    BY <2>1 DEF FillServed, MatchVerified
  <2>4. incoming' = [incoming EXCEPT !.qty = incoming.qty - fill]
    BY <2>1
  <2>5. /\ incoming'.qty = incoming.qty - fill /\ incoming'.side = incoming.side
        /\ incoming'.price = incoming.price /\ incoming'.type = incoming.type
        /\ incoming'.order_id = incoming.order_id
    BY <2>2, <2>3, <2>4, ActionType
  <2>6. l # kInvalid /\ book.levels[l].head_order_idx = curr_idx /\ l \in book.sides[s].tree
    <3>1. l # kInvalid /\ book.levels[l].head_order_idx = curr_idx
      BY <1>1, <2>1 DEF PriorityInv, EngineInv, IteratorAtBestHead
    <3> QED
      BY <2>2, <3>1, BestBounds
  <2>7. HeadFront(book, s, curr_idx)
    BY <2>2, <2>6, HeadInFront
  <2>8. /\ curr_idx \in Live(book) /\ o.side = s /\ o.price = book.levels[l].price
        /\ next = kInvalid \/ (next \in Live(book) /\ book.orders[next].price = o.price)
    BY <2>2, <2>6, HeadQueued DEF On, OrdersAt
  <2>9. Reaches(incoming, o.price)
    BY <1>1, <2>1 DEF PriorityInv, WithinReach
  <2>10. /\ SoFar(q, a, trades, RestingIn(book), 1) /\ s = Opposite(a) /\ Reaches(a, o.price)
         /\ incoming.side = a.side /\ incoming.price = a.price /\ incoming.type = a.type
         /\ incoming.order_id = a.order_id
    <3>1. /\ SoFar(q, a, trades, RestingIn(book), incoming.qty)
          /\ incoming.side = a.side /\ incoming.price = a.price /\ incoming.type = a.type
          /\ incoming.order_id = a.order_id
      BY <1>1, <2>1 DEF PriorityInv, InCourse, RestingQueues
    <3> HIDE DEF a, q, o
    <3> QED
      BY <2>1, <2>9, <3>1 DEF SoFar, Opposite, Reaches
  <2>11. Took(book, book', o.order_id, fill)
    <3>1. CancelOrder(book, o.order_id, fill).fault = "None"
      BY <1>4, <2>1 DEF Running
    <3> HIDE DEF o, fill
    <3> QED
      BY <2>1, <2>2, <2>3, <3>1, CancelStep
  <2>12. incoming'.qty > 0 => fill = o.remaining_qty
    <3>1. incoming.qty \in Nat /\ o.remaining_qty \in Nat
      <4>1. o.remaining_qty \in Qtys
        BY <2>2, <2>8 DEF Whole, Book, Order, Live
      <4> QED
        BY <2>2, <4>1, ActionType, RequestAssumption DEF Qtys
    <3> HIDE DEF o
    <3> QED
      BY <2>3, <2>5, <3>1 DEF FillQty
  <2>13. e \in Trade /\ TradeWith(e, o) /\ e.quantity = fill
    BY <2>3 DEF Trade, TradeWith
  <2>14. SoFar(q, a, trades', RestingIn(book'), incoming'.qty)
    <3> DEFINE tr2 == trades'
               c == book'
               left == incoming'.qty
               i == curr_idx
    <3>1. /\ tr2 = Append(trades, e) /\ Took(book, c, book.orders[i].order_id, e.quantity)
          /\ e.quantity <= book.orders[i].remaining_qty /\ TradeWith(e, book.orders[i])
          /\ left > 0 => e.quantity = book.orders[i].remaining_qty
          /\ Reaches(a, book.orders[i].price) /\ book.orders[i].side = s
      BY <2>1, <2>3, <2>8, <2>10, <2>11, <2>12, <2>13
    <3>2. /\ Whole(c) /\ Asked(c) /\ i \in Live(book) /\ HeadFront(book, s, i)
          /\ e \in Trade /\ s = Opposite(a) /\ SoFar(q, a, trades, RestingIn(book), 1)
      BY <2>2, <2>7, <2>8, <2>10, <2>13
    <3> HIDE DEF tr2, c, left, i, e, s, q, a
    <3>3. SoFar(q, a, Append(trades, e), RestingIn(c), left)
      BY <2>2, <3>1, <3>2, TradeSoFar
    <3>4. SoFar(q, a, tr2, RestingIn(c), left)
      BY <3>1, <3>3
    <3> QED
      BY <3>4 DEF tr2, c, left
  <2>15. InCourse'
    BY <2>1, <2>5, <2>10, <2>14 DEF InCourse, RestingQueues
  <2>16. WithinReach'
    <3>1. SUFFICES ASSUME curr_idx' # kInvalid, incoming'.qty > 0
                   PROVE  Reaches(incoming', book'.orders[curr_idx'].price)
      BY DEF WithinReach
    <3>2. next # kInvalid /\ book'.orders[next].price = book.orders[next].price
      <4> DEFINE r == Opposite(incoming')
                 c == book'
                 m == c.sides[r].bbo
      <4>1. m # kInvalid /\ c.levels[m].head_order_idx = next /\ r \in Sides
        <5>1. m # kInvalid /\ c.levels[m].head_order_idx = curr_idx'
          BY <1>1, <1>4, <3>1 DEF EngineInv, IteratorAtBestHead
        <5> QED
          BY <2>1, <2>2, <2>5, <5>1 DEF Opposite
      <4>2. m \in c.sides[r].tree
        BY <2>2, <4>1, BestBounds
      <4>3. next \in Live(c)
        <5> HIDE DEF c, m, next, r
        <5>1. c.levels[m].head_order_idx \in On(c, r, m)
          BY <2>2, <4>1, <4>2, HeadQueued DEF c
        <5> QED
          BY <4>1, <5>1 DEF On, OrdersAt
      <4>4. o.order_id \in DOMAIN book.order_map /\ book.order_map[o.order_id] = curr_idx
        BY <2>2, <2>8, LiveMapped
      <4>5. c = CancelOrder(book, o.order_id, o.remaining_qty) /\ o.remaining_qty \in Qtys
        BY <2>1, <2>3, <2>12, <3>1
      <4>6. c.orders[next].price = book.orders[next].price
        <5> HIDE DEF c, next
        <5> QED
          BY <2>2, <4>3, <4>4, <4>5, CancelFrees
      <4> QED
        BY <2>1, <3>1, <4>6
    <3>3. Reaches(incoming, book.orders[next].price)
      BY <2>8, <2>9, <3>2
    <3> QED
      BY <2>1, <2>5, <3>2, <3>3 DEF Reaches
  <2> QED
    BY <1>2, <2>15, <2>16 DEF PriorityInv
<1> QED
  BY <1>3, <1>4

\* What the queues are when a match with the queues R left rests what is left of action a.
Rested(a, R, left) ==
    IF left > 0 /\ a.type = "Limit"
    THEN [R EXCEPT ![<<a.side, a.price>>] = Append(R[<<a.side, a.price>>],
                                                   [id |-> a.order_id, qty |-> left])]
    ELSE R

\* A match that stops with nobody in reach, or nothing to fill, has kept the priority.
LEMMA EndsInTurn ==
    ASSUME NEW q, NEW a, NEW tr, NEW R, NEW left \in Nat, SoFar(q, a, tr, R, left),
           left > 0 => \A p \in InReach(a) : R[<<Opposite(a), p>>] = << >>
    PROVE  /\ \A x \in Waiting(q, a) : InTurn(q, a, tr, left, x)
           /\ Len(tr) <= Cardinality(Waiting(q, a))
           /\ left > 0 => Len(tr) = Cardinality(Waiting(q, a))
           /\ R = Remains(q, a, tr) /\ a \in Actions
           /\ Rested(a, R, left) = QueuesAfter(q, a, tr, left)
<1>1. a \in Actions /\ TypedQueues(q) /\ IsFiniteSet(Waiting(q, a))
  BY DEF SoFar
<1>2. CASE left > 0
  <2>1. PICK c : CleanBy(q, a, tr, R, c)
    BY <1>2 DEF SoFar, Clean
  <2>2. FilledBy(q, a, tr, R, left)
    BY <1>1, <2>1, CleanFilled
  <2>3. Len(tr) = Cardinality(Waiting(q, a))
    BY <1>1, <1>2, <2>1, AllGone
  <2>4. R = Remains(q, a, tr)
    BY <2>2 DEF FilledBy
  <2>5. Rested(a, R, left) = QueuesAfter(q, a, tr, left)
    <3> DEFINE k == <<a.side, a.price>>
               n == [id |-> a.order_id, qty |-> left]
    <3>1. R = [h \in Sides \X Prices |-> Rest(q, a, tr, h)]
      BY <2>4, QueuesAre DEF Remains
    <3>2. CASE a.type = "Limit"
      <4>2. Rested(a, R, left) = [R EXCEPT ![k] = Append(R[k], n)]
        BY <1>2, <3>2 DEF Rested
      <4>3. QueuesAfter(q, a, tr, left) = [h \in Sides \X Prices |->
                IF h = k THEN Append(Rest(q, a, tr, h), n) ELSE Rest(q, a, tr, h)]
        BY <1>2, <3>2 DEF QueuesAfter
      <4> HIDE DEF k, n
      <4>4. [R EXCEPT ![k] = Append(R[k], n)] = [h \in Sides \X Prices |->
                IF h = k THEN Append(R[k], n) ELSE R[h]]
        BY <3>1
      <4>5. \A h \in Sides \X Prices : R[h] = Rest(q, a, tr, h)
        BY <3>1
      <4> QED
        BY <4>2, <4>3, <4>4, <4>5
    <3>3. CASE a.type # "Limit"
      BY <3>1, <3>3 DEF Rested, QueuesAfter
    <3> QED
      BY <3>2, <3>3
  <2> QED
    BY <1>1, <2>2, <2>3, <2>4, <2>5 DEF FilledBy
<1>3. CASE left = 0
  <2>1. FilledBy(q, a, tr, R, 0)
    BY <1>3 DEF SoFar
  <2>2. R = [h \in Sides \X Prices |-> Rest(q, a, tr, h)]
    BY <2>1, QueuesAre DEF FilledBy, Remains
  <2>3. Rested(a, R, left) = QueuesAfter(q, a, tr, left)
    BY <1>3, <2>2 DEF Rested, QueuesAfter
  <2> QED
    BY <1>1, <1>3, <2>1, <2>3 DEF FilledBy
<1> QED
  BY <1>2, <1>3

\* A match without a trade leaves the queues as they were.
LEMMA NothingTraded ==
    ASSUME NEW q, NEW a \in Actions, TypedQueues(q), IsFiniteSet(Waiting(q, a))
    PROVE  Remains(q, a, << >>) = q
<1>1. CleanBy(q, a, << >>, q, [k \in Promise!Queues |-> 0])
  BY CleanStart
<1> QED
  BY <1>1, CleanRest

\* What match() makes of the queues after its loop.
LEMMA ResidualQueued ==
    ASSUME EngineInv, Finish, Running', NEW a, a = before.action,
           incoming.order_id = a.order_id, incoming.side = a.side,
           incoming.price = a.price, incoming.type = a.type, NEW left, left = incoming.qty
    PROVE  RestingQueues' = Rested(a, RestingQueues, left)
<1> DEFINE b == RestResidual(book)
<1>1. Running /\ pc = "finish" /\ Whole(book) /\ Asked(book) /\ incoming \in Actions
  BY GoodWhole DEF Finish, EngineInv, Running, Locals
<1>2. book' = b
  <2>1. b.fault = "None" => ExecutionVerified(b)
    BY <1>1, ResidualRests
  <2> HIDE DEF b
  <2> QED
    BY <2>1 DEF Finish, Then, b
<1>3. book'.fault = "None"
  BY DEF Running
<1>4. CASE left > 0 /\ a.type = "Limit"
  <2>2. book' = AddOrder(book, incoming.order_id, incoming.side, incoming.price, incoming.qty)
    BY <1>2, <1>4 DEF RestResidual
  <2>4. incoming.price # 0
    BY <1>3, <2>2 DEF AddOrder, Fail
  <2>1. /\ incoming.order_id \in OrderIds /\ incoming.side \in Sides /\ incoming.qty \in Qtys
        /\ incoming.price \in Prices
    BY <1>1, <2>4, ActionType
  <2>3. Entered(book, book', incoming.order_id, incoming.side, incoming.price, incoming.qty)
    BY <1>1, <2>1, <2>2, AddStep
  <2> QED
    BY <1>3, <1>4, <2>3 DEF Entered, LastOf, Rested, RestingQueues
<1>5. CASE ~(left > 0 /\ a.type = "Limit")
  <2>1. book' = book
    BY <1>2, <1>5 DEF RestResidual
  <2> QED
    BY <1>5, <2>1 DEF Rested, RestingQueues
<1> QED
  BY <1>4, <1>5

\* When the matching loop is left, what it has traded and what is left make up the
\* action, and nobody waits in reach if anything is left.
LEMMA SweepEnds ==
    ASSUME PriorityInv, Finish, NEW a, a = before.action, NEW left, left = incoming.qty
    PROVE  /\ left \in Nat /\ TradedQty \in Int /\ TradedQty + left = a.qty /\ a \in Actions
           /\ SoFar(before.queues, a, trades, RestingQueues, left)
           /\ left > 0 => \A p \in InReach(a) : RestingQueues[<<Opposite(a), p>>] = << >>
<1>1. Running /\ pc = "finish"
  BY DEF Finish
<1>2. /\ Whole(book) /\ Asked(book) /\ incoming \in Actions /\ left \in Nat
      /\ TradedQty \in Int /\ TradedQty + left = a.qty
  BY <1>1, GoodWhole, ActionType DEF PriorityInv, EngineInv, Running, Locals
<1>3. /\ incoming.side = a.side /\ incoming.price = a.price /\ incoming.type = a.type
      /\ SoFar(before.queues, a, trades, RestingQueues, left)
  BY <1>1 DEF PriorityInv, InCourse
<1>4. a \in Actions
  BY <1>3 DEF SoFar
<1>5. ASSUME left > 0, NEW p \in InReach(a)
      PROVE  RestingQueues[<<Opposite(a), p>>] = << >>
  <2>1. LET bbo == book.sides[Opposite(incoming)].bbo
        IN  bbo = kInvalid \/ ~Reaches(incoming, book.levels[bbo].price)
    BY <1>1, <1>5 DEF PriorityInv, EngineInv, Exhausted
  <2>2. LET bbo == book.sides[Opposite(a)].bbo
        IN  bbo = kInvalid \/ ~Reaches(a, book.levels[bbo].price)
    BY <1>3, <2>1 DEF Opposite, Reaches
  <2> QED
    BY <1>2, <1>4, <1>5, <2>2, NobodyInReach DEF RestingQueues
<1> QED
  BY <1>2, <1>3, <1>4, <1>5

\* The result is assembled: a residual that rests joins the incoming side's own queues,
\* and every order out of its turn has kept what it had.
LEMMA FinishPriority ==
    ASSUME PriorityInv, EngineInv', Finish
    PROVE  PriorityInv'
<1>1. Running /\ pc = "finish" /\ UNCHANGED <<incoming, curr_idx, before, trades>>
  BY DEF Finish, Return
<1>2. CASE ~Running'
  BY <1>2 DEF PriorityInv, InCourse, WithinReach, PriceTimePriority
<1>3. CASE Running'
  <2> DEFINE q == before.queues
             a == before.action
             left == incoming.qty
             R == RestingQueues
             tr == trades
  <2>1. pc' = "return" /\ status' = FinalStatus
    BY <1>3 DEF Finish, Return, Running
  <2>2. /\ Whole(book) /\ Asked(book) /\ incoming \in Actions /\ left \in Nat
        /\ TradedQty \in Int /\ TradedQty + left = a.qty
    BY <1>1, GoodWhole, ActionType DEF PriorityInv, EngineInv, Running, Locals
  <2>3. /\ incoming.order_id = a.order_id /\ incoming.side = a.side
        /\ incoming.price = a.price /\ incoming.type = a.type
        /\ SoFar(q, a, tr, R, left)
    BY <1>1 DEF PriorityInv, InCourse
  <2>4. a \in Actions /\ TypedQueues(q) /\ IsFiniteSet(Waiting(q, a))
    BY <2>3 DEF SoFar
  <2>5. left > 0 => \A p \in InReach(a) : R[<<Opposite(a), p>>] = << >>
    BY SweepEnds
  <2>6. RestingQueues' = Rested(a, R, left)
    <3> DEFINE c == a
               m == left
    <3>1. c = before.action /\ incoming.order_id = c.order_id /\ incoming.side = c.side
          /\ incoming.price = c.price /\ incoming.type = c.type /\ m = incoming.qty /\ EngineInv
      BY <2>3 DEF PriorityInv
    <3> HIDE DEF c, m
    <3>2. RestingQueues' = Rested(c, RestingQueues, m)
      BY <1>3, <3>1, ResidualQueued
    <3> QED
      BY <3>2 DEF c, m
  <2>7. TradedQty' = TradedQty
    BY <1>1, TradedIs
  <2> HIDE DEF q, a, R, tr, left
  <2>8. /\ \A x \in Waiting(q, a) : InTurn(q, a, tr, left, x)
        /\ Len(tr) <= Cardinality(Waiting(q, a))
        /\ left > 0 => Len(tr) = Cardinality(Waiting(q, a))
        /\ R = Remains(q, a, tr)
        /\ RestingQueues' = QueuesAfter(q, a, tr, left)
    BY <2>2, <2>3, <2>5, <2>6, EndsInTurn
  <2>9. left = a.qty - TradedQty' /\ left >= 0
    <3>1. a.qty \in Int
      BY <2>4, ActionType
    <3> QED
      BY <2>2, <2>7, <3>1
  <2>10. ASSUME status' = "RejectedRisk" \/ (status' = "RejectedInvalid" /\ a.type = "FOK")
         PROVE  trades' = << >> /\ RestingQueues' = q
    <3>1. status' = "RejectedInvalid" /\ a.type = "FOK"
      BY <2>1, <2>10 DEF FinalStatus
    <3>2. trades = << >>
      BY <2>1, <3>1 DEF FinalStatus
    <3>3. R = q
      BY <2>4, <2>8, <3>2, NothingTraded DEF tr
    <3> QED
      BY <1>1, <2>6, <3>1, <3>2, <3>3 DEF Rested
  <2>11. PriceTimePriority'
    <3>1. before'.queues = q /\ before'.action = a /\ trades' = tr
      BY <1>1 DEF q, a, tr
    <3> DEFINE t == TradedQty'
    <3>2. left = a.qty - t /\ left >= 0
      BY <2>9
    <3> QED
      BY <2>8, <2>10, <3>1, <3>2 DEF PriceTimePriority, Rejected
  <2> QED
    BY <2>1, <2>11 DEF PriorityInv, InCourse, WithinReach
<1> QED
  BY <1>2, <1>3

\* No step of the engine, or past it, breaks the order of the trades.
LEMMA PriorityStep ==
    ASSUME PriorityInv, [MatchNext]_matchVars
    PROVE  PriorityInv'
<1>1. EngineInv'
  BY EngineStep DEF PriorityInv
<1>2. CASE UNCHANGED matchVars
  <2>1. UNCHANGED <<book, pc, incoming, curr_idx, trades, status, before>>
        /\ TradedQty' = TradedQty
    BY <1>2, TradedIs DEF matchVars
  <2>2. InCourse'
    BY <2>1, SameCourse DEF PriorityInv
  <2>3. WithinReach' /\ PriceTimePriority'
    BY <2>1 DEF PriorityInv, WithinReach, PriceTimePriority, Running, RestingQueues, Rejected, Reaches
  <2> QED
    BY <1>1, <2>2, <2>3 DEF PriorityInv
<1>3. CASE \E a \in Actions : Submit(a)
  BY <1>1, <1>3, SubmitPriority
<1>4. CASE LevelSwept
  <2>1. /\ pc = "sweep" /\ pc' = "level"
        /\ UNCHANGED <<book, incoming, curr_idx, trades, status, before>>
    BY <1>4 DEF LevelSwept
  <2> QED
    BY <1>1, <2>1, SameCourse, NotReturned DEF PriorityInv, WithinReach
<1>5. CASE HandBack \/ Dispatched
  <2>1. pc' = "idle"
    BY <1>5 DEF HandBack, Dispatched, engine
  <2> QED
    BY <1>1, <2>1, NotReturned DEF PriorityInv, InCourse, WithinReach
<1> QED
  BY <1>1, <1>2, <1>3, <1>4, <1>5, BestLevelPriority, FillPriority, FinishPriority
     DEF MatchNext, MatchStep
-----------------------------------------------------------------------------
(* The FOK pre-scan.  Sums over sets of orders, renamed, joined and grouped; the     *)
(* sum over the levels of a side covers whoever waits in reach.                     *)

\* The pre-scan adds the totals of the levels.
LEMMA ScanTotals ==
    ASSUME NEW b, NEW S, IsFiniteSet(S)
    PROVE  MapThenSumSet(LAMBDA l : b.levels[l].total_qty, S)
              = Total([l \in S |-> [remaining_qty |-> b.levels[l].total_qty]], S)
<1> DEFINE w == [l \in S |-> [remaining_qty |-> b.levels[l].total_qty]]
           Sums(h) == h = [s \in SUBSET S |->
                             IF s = {} THEN 0
                             ELSE LET l == CHOOSE l \in s : TRUE
                                  IN  b.levels[l].total_qty + h[s \ {l}]]
           f == CHOOSE h : Sums(h)
<1>1. PICK g : IsSum(w, SUBSET S, g) /\ Total(w, S) = g[S]
  BY TotalIsSum
<1>2. \A l \in S : w[l].remaining_qty = b.levels[l].total_qty
  OBVIOUS
<1> HIDE DEF w
<1>3. ASSUME NEW h
      PROVE  IsSum(w, SUBSET S, h) <=> Sums(h)
  <2>1. \A s \in SUBSET S : s # {} => (CHOOSE l \in s : TRUE) \in S
    OBVIOUS
  <2> QED
    BY <1>2, <2>1 DEF IsSum
<1>4. MapThenSumSet(LAMBDA l : b.levels[l].total_qty, S) = f[S]
  BY DEF MapThenSumSet, MapThenFoldSet
<1> HIDE DEF Sums
<1>5. IsSum(w, SUBSET S, f)
  BY <1>1, <1>3
<1> HIDE DEF f
<1>6. f[S] = Total(w, S)
  BY <1>1, <1>5, SumsAgree
<1> QED
  BY <1>4, <1>6 DEF w

\* The reference adds the quantities of the orders that wait.
LEMMA WaitingTotals ==
    ASSUME NEW q, NEW a, IsFiniteSet(Waiting(q, a))
    PROVE  WaitingQty(q, a) = Total([x \in Waiting(q, a) |-> [remaining_qty |-> At(q, a, x).qty]],
                                    Waiting(q, a))
<1> DEFINE S == Waiting(q, a)
           w == [x \in S |-> [remaining_qty |-> At(q, a, x).qty]]
           Sums(h) == h = [s \in SUBSET S |->
                             IF s = {} THEN 0
                             ELSE LET x == CHOOSE x \in s : TRUE
                                  IN  At(q, a, x).qty + h[s \ {x}]]
           f == CHOOSE h : Sums(h)
<1>1. PICK g : IsSum(w, SUBSET S, g) /\ Total(w, S) = g[S]
  BY TotalIsSum
<1>2. \A x \in S : w[x].remaining_qty = At(q, a, x).qty
  OBVIOUS
<1> HIDE DEF w
<1>3. ASSUME NEW h
      PROVE  IsSum(w, SUBSET S, h) <=> Sums(h)
  <2>1. \A s \in SUBSET S : s # {} => (CHOOSE x \in s : TRUE) \in S
    OBVIOUS
  <2> QED
    BY <1>2, <2>1 DEF IsSum
<1>4. WaitingQty(q, a) = f[S]
  BY DEF WaitingQty, MapThenSumSet, MapThenFoldSet
<1> HIDE DEF Sums
<1>5. IsSum(w, SUBSET S, f)
  BY <1>1, <1>3
<1> HIDE DEF f
<1>6. f[S] = Total(w, S)
  BY <1>1, <1>5, SumsAgree
<1> QED
  BY <1>4, <1>6 DEF w

\* A sum of quantities is a natural number.
LEMMA TotalType ==
    ASSUME NEW w, NEW S, IsFiniteSet(S), Quantified(w, S)
    PROVE  Total(w, S) \in Nat
<1>1. PICK f : IsSum(w, SUBSET S, f) /\ Total(w, S) = f[S]
  BY TotalIsSum
<1>2. \A R \in SUBSET S : f[R] \in Nat
  BY <1>1, SumType
<1> QED
  BY <1>1, <1>2

\* Two sets without a common order are summed up apart: induction on the second.
LEMMA TotalUnion ==
    ASSUME NEW w, NEW A, NEW B, IsFiniteSet(A), IsFiniteSet(B), Quantified(w, A),
           Quantified(w, B), A \cap B = {}
    PROVE  Total(w, A \cup B) = Total(w, A) + Total(w, B)
<1> DEFINE bad == {S \in SUBSET B : Total(w, A \cup S) # Total(w, A) + Total(w, S)}
<1> SUFFICES ASSUME bad # {}
             PROVE  FALSE
  BY DEF Quantified
<1>1. PICK S \in bad : \A x \in S : S \ {x} \notin bad
  BY MinimalSet
<1>2. IsFiniteSet(S) /\ S \subseteq B /\ Total(w, A \cup S) # Total(w, A) + Total(w, S)
  BY <1>1, FS_Subset
<1>3. Total(w, A) \in Nat
  BY TotalType
<1>4. CASE S = {}
  <2>1. A \cup S = A /\ Total(w, S) = 0
    BY <1>4, TotalEmpty
  <2> QED
    BY <1>2, <1>3, <2>1
<1>5. CASE S # {}
  <2>1. PICK x \in S : TRUE
    BY <1>5
  <2> DEFINE R == S \ {x}
             U == A \cup S
  <2>2. Total(w, A \cup R) = Total(w, A) + Total(w, R)
    BY <1>1, <1>2, <2>1
  <2>3. U \ {x} = A \cup R /\ x \in U /\ Quantified(w, S) /\ Quantified(w, U)
    BY <1>2, <2>1 DEF Quantified
  <2>4. IsFiniteSet(U)
    BY <1>2, FS_Union
  <2>5. Total(w, S) = w[x].remaining_qty + Total(w, R) /\ Total(w, R) \in Nat
    BY <1>2, <2>1, <2>3, TotalSplits
  <2> HIDE DEF U
  <2>6. Total(w, U) = w[x].remaining_qty + Total(w, U \ {x})
    BY <2>3, <2>4, TotalSplits
  <2>7. w[x].remaining_qty \in Nat
    BY <2>1, <2>3 DEF Quantified
  <2> QED
    BY <1>2, <1>3, <2>2, <2>3, <2>5, <2>6, <2>7 DEF U
<1> QED
  BY <1>4, <1>5

\* A larger set has no smaller sum.
LEMMA TotalGrows ==
    ASSUME NEW w, NEW A, NEW B, IsFiniteSet(B), Quantified(w, B), A \subseteq B
    PROVE  Total(w, A) <= Total(w, B)
<1> DEFINE C == B \ A
<1>1. IsFiniteSet(A) /\ IsFiniteSet(C) /\ A \cap C = {} /\ A \cup C = B
  BY FS_Subset
<1>2. Quantified(w, A) /\ Quantified(w, C)
  BY DEF Quantified
<1> HIDE DEF C
<1>3. Total(w, A \cup C) = Total(w, A) + Total(w, C)
  BY <1>1, <1>2, TotalUnion
<1>4. Total(w, A) \in Nat /\ Total(w, C) \in Nat
  BY <1>1, <1>2, TotalType
<1>5. Total(w, B) = Total(w, A) + Total(w, C)
  <2> DEFINE U == A \cup C
  <2>1. U = B /\ Total(w, U) = Total(w, A) + Total(w, C)
    BY <1>1, <1>3
  <2> HIDE DEF U
  <2> QED
    BY <2>1
<1> QED
  BY <1>4, <1>5

\* g renames the members of A to members of B, and v tells of those what w tells of A.
Renames(w, A, v, B, g) ==
    /\ \A x \in A : g[x] \in B /\ v[g[x]].remaining_qty = w[x].remaining_qty
    /\ \A x, y \in A : g[x] = g[y] => x = y

\* A renaming leaves the sum: induction on the set.
LEMMA TotalRenamed ==
    ASSUME NEW w, NEW v, NEW A, NEW B, NEW g, IsFiniteSet(A), IsFiniteSet(B),
           Quantified(w, A), Renames(w, A, v, B, g)
    PROVE  Total(w, A) = Total(v, {g[x] : x \in A})
<1>0. /\ \A x \in A : g[x] \in B /\ v[g[x]].remaining_qty = w[x].remaining_qty
      /\ \A x, y \in A : g[x] = g[y] => x = y
  BY DEF Renames
<1> DEFINE Im(S) == {g[x] : x \in S}
           bad == {S \in SUBSET A : Total(w, S) # Total(v, Im(S))}
<1> SUFFICES ASSUME bad # {}
             PROVE  FALSE
  OBVIOUS
<1>1. PICK S \in bad : \A x \in S : S \ {x} \notin bad
  BY MinimalSet
<1>2. IsFiniteSet(S) /\ S \subseteq A /\ Total(w, S) # Total(v, Im(S))
  BY <1>1, FS_Subset
<1>3. CASE S = {}
  <2>1. Im(S) = {}
    BY <1>3
  <2> QED
    BY <1>2, <1>3, <2>1, TotalEmpty
<1>4. CASE S # {}
  <2>1. PICK x \in S : TRUE
    BY <1>4
  <2> DEFINE R == S \ {x}
  <2>2. Total(w, R) = Total(v, Im(R))
    BY <1>1, <1>2, <2>1
  <2>3. Im(R) = Im(S) \ {g[x]} /\ g[x] \in Im(S)
    BY <1>0, <1>2, <2>1
  <2>4. Quantified(w, S) /\ Quantified(v, Im(S))
    BY <1>0, <1>2 DEF Quantified
  <2>5. IsFiniteSet(Im(S))
    <3>1. Im(S) \subseteq B
      BY <1>0, <1>2
    <3> QED
      BY <3>1, FS_Subset
  <2>6. Total(w, S) = w[x].remaining_qty + Total(w, R)
    BY <1>2, <2>1, <2>4, TotalSplits
  <2> DEFINE I == Im(S)
             y == g[x]
  <2>7. I \ {y} = Im(R) /\ y \in I /\ IsFiniteSet(I) /\ Quantified(v, I)
    BY <2>3, <2>4, <2>5
  <2>8. v[y].remaining_qty = w[x].remaining_qty
    BY <1>0, <1>2, <2>1
  <2>9. I = Im(S)
    OBVIOUS
  <2> HIDE DEF I, y, Im
  <2>10. Total(v, I) = v[y].remaining_qty + Total(v, I \ {y})
    BY <2>7, TotalSplits
  <2> QED
    BY <1>2, <2>2, <2>6, <2>7, <2>8, <2>9, <2>10
<1> QED
  BY <1>3, <1>4

\* The sets D[l] are apart from one another, and u tells the sum over each.
Groups(w, O, u, T, D) ==
    /\ \A l \in T : D[l] \subseteq O /\ u[l].remaining_qty = Total(w, D[l])
    /\ \A l, m \in T : l # m => D[l] \cap D[m] = {}

\* Groups of orders may be summed up first: induction on the set of their names.
LEMMA TotalGrouped ==
    ASSUME NEW w, NEW u, NEW O, NEW D, NEW T, IsFiniteSet(O), Quantified(w, O),
           IsFiniteSet(T), Groups(w, O, u, T, D)
    PROVE  Total(w, UNION {D[l] : l \in T}) = Total(u, T)
<1>0. /\ \A l \in T : D[l] \subseteq O /\ u[l].remaining_qty = Total(w, D[l])
      /\ \A l, m \in T : l # m => D[l] \cap D[m] = {}
  BY DEF Groups
<1> DEFINE All(S) == UNION {D[l] : l \in S}
           bad == {S \in SUBSET T : Total(w, All(S)) # Total(u, S)}
<1> SUFFICES ASSUME bad # {}
             PROVE  FALSE
  OBVIOUS
<1>1. PICK S \in bad : \A x \in S : S \ {x} \notin bad
  BY MinimalSet
<1>2. IsFiniteSet(S) /\ S \subseteq T /\ Total(w, All(S)) # Total(u, S)
  BY <1>1, FS_Subset
<1>3. CASE S = {}
  <2>1. All(S) = {}
    BY <1>3
  <2> QED
    BY <1>2, <1>3, <2>1, TotalEmpty
<1>4. CASE S # {}
  <2>1. PICK l \in S : TRUE
    BY <1>4
  <2> DEFINE R == S \ {l}
             X == All(R)
             Y == D[l]
  <2>2. Total(w, X) = Total(u, R)
    BY <1>1, <1>2, <2>1
  <2>3. All(S) = X \cup Y /\ X \cap Y = {} /\ X \subseteq O /\ Y \subseteq O
    BY <1>0, <1>2, <2>1
  <2>4. \A m \in S : u[m].remaining_qty \in Nat
    <3> SUFFICES ASSUME NEW m \in S PROVE u[m].remaining_qty \in Nat
      OBVIOUS
    <3> DEFINE E == D[m]
    <3>1. E \subseteq O /\ u[m].remaining_qty = Total(w, E)
      BY <1>0, <1>2
    <3> HIDE DEF E
    <3>2. IsFiniteSet(E) /\ Quantified(w, E)
      BY <3>1, FS_Subset DEF Quantified
    <3> QED
      BY <3>1, <3>2, TotalType
  <2>5. Quantified(u, S)
    BY <2>4 DEF Quantified
  <2>6. Total(u, S) = u[l].remaining_qty + Total(u, R)
    BY <1>2, <2>1, <2>5, TotalSplits
  <2>7. u[l].remaining_qty = Total(w, Y) /\ u[l].remaining_qty \in Nat
    BY <1>0, <1>2, <2>1, <2>4
  <2>8. Total(w, All(S)) = Total(w, X \cup Y)
    BY <2>3
  <2>9. IsFiniteSet(X) /\ IsFiniteSet(Y) /\ Quantified(w, X) /\ Quantified(w, Y)
        /\ X \cap Y = {}
    <3> HIDE DEF X, Y
    <3> QED
      BY <2>3, FS_Subset DEF Quantified
  <2> HIDE DEF X, Y, All, R
  <2>10. Total(w, X \cup Y) = Total(w, X) + Total(w, Y)
    BY <2>9, TotalUnion
  <2>11. Total(w, X) \in Nat
    BY <2>9, TotalType
  <2> QED
    BY <1>2, <2>2, <2>6, <2>7, <2>8, <2>10, <2>11
<1> QED
  BY <1>3, <1>4

\* No total of side s has wrapped around.
UnwrappedIn(b, s) == \A l \in b.sides[s].tree : Total(b.orders, On(b, s, l)) < QtyMod

\* u tells the totals of the levels of side s.
LevelTotals(b, s, u) == \A l \in b.sides[s].tree : u[l].remaining_qty = b.levels[l].total_qty

\* Then the totals of the levels are the sums over their orders, and together ...
LEMMA SideTotal ==
    ASSUME NEW b, Whole(b), NEW s \in Sides, UnwrappedIn(b, s), NEW T, T = b.sides[s].tree,
           NEW u, LevelTotals(b, s, u)
    PROVE  /\ IsFiniteSet(T) /\ Quantified(b.orders, Live(b)) /\ IsFiniteSet(Live(b))
           /\ Total(u, T) = Total(b.orders, {i \in Live(b) : b.orders[i].side = s})
<1> DEFINE L == {i \in Live(b) : b.orders[i].side = s}
           D == [l \in T |-> On(b, s, l)]
           w == b.orders
<1>1. T \subseteq LevelSlots /\ \A l, m \in T : b.levels[l].price = b.levels[m].price => l = m
  BY TreeLevels DEF Whole
<1>2. IsFiniteSet(T)
  <2>1. IsFiniteSet(LevelSlots)
    BY CapacityAssumption, FS_Interval DEF LevelSlots
  <2> QED
    BY <1>1, <2>1, FS_Subset
<1>3. IsFiniteSet(Live(b)) /\ IsFiniteSet(L)
  <2>1. IsFiniteSet(Live(b))
    BY LiveCounted DEF Whole
  <2> QED
    BY <2>1, FS_Subset
<1>4. Quantified(w, Live(b)) /\ Quantified(w, L)
  <2>1. \A i \in Live(b) : w[i].remaining_qty \in Nat
    BY RequestAssumption DEF Whole, Book, Order, Live, Qtys
  <2> QED
    BY <2>1 DEF Quantified
<1>5. ASSUME NEW l \in T
      PROVE  D[l] \subseteq L /\ u[l].remaining_qty = Total(w, D[l])
  <2> DEFINE E == On(b, s, l)
  <2>0. u[l].remaining_qty = b.levels[l].total_qty
    BY <1>5 DEF LevelTotals
  <2>1. E \subseteq L
    BY DEF On, OrdersAt
  <2>2. b.levels[l].total_qty = Total(w, E) % QtyMod
    <3>1. E \ {} = E
      OBVIOUS
    <3>2. b.levels[l].total_qty = Total(w, E \ {}) % QtyMod
      BY <1>5 DEF Whole, HeldBut, TotalsBut
    <3> QED
      BY <3>1, <3>2
  <2>3. Total(w, E) < QtyMod
    BY <1>5 DEF UnwrappedIn
  <2>4. D[l] = E
    BY <1>5
  <2> HIDE DEF E, D
  <2>5. Total(w, E) \in Nat
    <3>1. IsFiniteSet(E) /\ Quantified(w, E)
      BY <1>3, <1>4, <2>1, FS_Subset DEF Quantified
    <3> QED
      BY <3>1, TotalType
  <2>6. Total(w, E) % QtyMod = Total(w, E)
    <3> DEFINE t == Total(w, E)
    <3>1. t \in Nat /\ t < QtyMod
      BY <2>3, <2>5
    <3> HIDE DEF t
    <3>2. t % QtyMod = t
      BY <3>1, RequestAssumption
    <3> QED
      BY <3>2 DEF t
  <2> QED
    BY <1>5, <2>0, <2>1, <2>2, <2>4, <2>6
<1>6. ASSUME NEW l \in T, NEW m \in T, l # m
      PROVE  D[l] \cap D[m] = {}
  BY <1>1, <1>6 DEF On, OrdersAt
<1>7. L = UNION {D[l] : l \in T}
  <2>1. ASSUME NEW i \in L
        PROVE  \E l \in T : i \in D[l]
    BY <2>1 DEF Whole, SettledBut, Housed, On, OrdersAt
  <2> HIDE DEF D, L
  <2> QED
    BY <1>5, <2>1
<1> HIDE DEF D, L, w
<1>8. Groups(w, L, u, T, D)
  BY <1>5, <1>6 DEF Groups
<1>9. Total(w, UNION {D[l] : l \in T}) = Total(u, T)
  BY <1>2, <1>3, <1>4, <1>8, TotalGrouped
<1> QED
  BY <1>2, <1>3, <1>4, <1>7, <1>9 DEF L, w

\* ... no less than the orders that wait within an action's reach.
LEMMA WaitingWithin ==
    ASSUME NEW b, Whole(b), Asked(b), NEW a \in Actions, NEW q, q = RestingIn(b),
           NEW v, \A x \in Waiting(q, a) : v[x].remaining_qty = At(q, a, x).qty,
           Quantified(b.orders, Live(b)), IsFiniteSet(Live(b))
    PROVE  Total(v, Waiting(q, a))
              <= Total(b.orders, {i \in Live(b) : b.orders[i].side = Opposite(a)})
<1> DEFINE s == Opposite(a)
           L == {i \in Live(b) : b.orders[i].side = s}
           W == Waiting(q, a)
           w == b.orders
           g == [x \in W |-> Slot(b, <<s, x[1]>>, x[2])]
<1>1. TypedQueues(q) /\ IsFiniteSet(W)
  BY WaitingFinite
<1>2. \A x \in W : x = <<x[1], x[2]>> /\ x[1] \in InReach(a) /\ x[2] \in 1..Len(q[<<s, x[1]>>])
  BY <1>1, WaitingIs
<1>3. ASSUME NEW x \in W
      PROVE  /\ <<s, x[1]>> \in Promise!Queues /\ g[x] \in OrdersAt(b, s, x[1])
             /\ g[x] = Slot(b, <<s, x[1]>>, x[2])
             /\ w[g[x]].remaining_qty = v[x].remaining_qty
  <2> DEFINE k == <<s, x[1]>>
             i == Slot(b, k, x[2])
  <2>1. k \in Promise!Queues /\ k[1] = s /\ k[2] = x[1]
    BY <1>2, OppositeSide
  <2>2. Shown(b, k, x[2])
    BY <1>2, <2>1, QueuesPlaced DEF Placed
  <2>3. i \in OrdersAt(b, k[1], k[2]) /\ q[k][x[2]].qty = w[i].remaining_qty
    BY <2>2 DEF Shown
  <2>4. At(q, a, x).qty = w[i].remaining_qty
    BY <2>3 DEF At
  <2> QED
    BY <2>1, <2>3, <2>4
<1> HIDE DEF W, w
<1>4. ASSUME NEW x \in W, NEW y \in W, g[x] = g[y]
      PROVE  x = y
  <2>1. x[1] = y[1]
    BY <1>3, <1>4 DEF OrdersAt
  <2>2. x[2] = y[2]
    <3> DEFINE k == <<s, x[1]>>
    <3>1. k \in Promise!Queues /\ Slot(b, k, x[2]) = Slot(b, k, y[2])
      BY <1>3, <1>4, <2>1
    <3>2. x[2] \in 1..Len(q[k]) /\ y[2] \in 1..Len(q[k])
      BY <1>2, <2>1
    <3> HIDE DEF k
    <3> QED
      BY <3>1, <3>2, QueuesPlaced DEF Placed
  <2> QED
    BY <1>2, <2>1, <2>2
<1>5. IsFiniteSet(L) /\ Quantified(w, L) /\ \A x \in W : g[x] \in L
  BY <1>3, FS_Subset DEF OrdersAt, Quantified, w
<1>6. Quantified(v, W)
  <2>1. \A x \in W : v[x].remaining_qty \in Nat
    BY <1>3, <1>5 DEF Quantified
  <2> QED
    BY <2>1 DEF Quantified
<1> DEFINE I == {g[x] : x \in W}
<1>7. I \subseteq L
  BY <1>5
<1> HIDE DEF g, L
<1>8. Total(v, W) = Total(w, I)
  <2>1. Renames(v, W, w, L, g)
    BY <1>3, <1>4, <1>5 DEF Renames
  <2> QED
    BY <1>1, <1>5, <1>6, <2>1, TotalRenamed DEF I
<1> HIDE DEF I
<1>9. Total(w, I) <= Total(w, L)
  BY <1>5, <1>7, TotalGrows
<1> QED
  BY <1>8, <1>9 DEF W, L, w

\* A pre-scan that says no has summed up no less than waits within reach.
LEMMA ScanRefuses ==
    ASSUME NEW b, Whole(b), Asked(b), NEW a \in Actions, UnwrappedIn(b, Opposite(a)),
           ~HasLiquidity(b, a.side, a.qty), a.qty > 0, NEW q, q = RestingIn(b)
    PROVE  WaitingQty(q, a) < a.qty
<1> DEFINE s == Opposite(a)
           T == b.sides[s].tree
           u == [l \in T |-> [remaining_qty |-> b.levels[l].total_qty]]
           W == Waiting(q, a)
           v == [x \in W |-> [remaining_qty |-> At(q, a, x).qty]]
           L == {i \in Live(b) : b.orders[i].side = s}
<1>1. s \in Sides /\ a.qty \in Nat
  BY ActionType
<1>2. LevelTotals(b, s, u) /\ \A x \in W : v[x].remaining_qty = At(q, a, x).qty
  BY DEF LevelTotals
<1>3. IsFiniteSet(W)
  BY WaitingFinite
<1>4. WaitingQty(q, a) = Total(v, W)
  BY <1>3, WaitingTotals
<1>5. /\ IsFiniteSet(T) /\ Quantified(b.orders, Live(b)) /\ IsFiniteSet(Live(b))
      /\ Total(u, T) = Total(b.orders, L)
  <2> HIDE DEF u, s, L
  <2>1. Total(u, T) = Total(b.orders, {i \in Live(b) : b.orders[i].side = s})
        /\ IsFiniteSet(T) /\ Quantified(b.orders, Live(b)) /\ IsFiniteSet(Live(b))
    BY <1>1, <1>2, SideTotal DEF s
  <2> QED
    BY <2>1 DEF L
<1>6. MapThenSumSet(LAMBDA l : b.levels[l].total_qty, T) = Total(u, T)
  BY <1>5, ScanTotals
<1>7. Total(v, W) <= Total(b.orders, L)
  <2> HIDE DEF v
  <2> QED
    BY <1>2, <1>5, WaitingWithin
<1>8. Total(u, T) < a.qty
  <2>1. CASE T = {}
    <3>1. Total(u, T) = 0
      BY <2>1, TotalEmpty
    <3> QED
      BY <1>1, <3>1
  <2>2. CASE T # {}
    <3>1. ~(MapThenSumSet(LAMBDA l : b.levels[l].total_qty, T) >= a.qty)
      BY <2>2 DEF HasLiquidity, Opposite
    <3>2. ~(Total(u, T) >= a.qty)
      BY <1>6, <3>1
    <3>3. Total(u, T) \in Nat
      <4>1. IsFiniteSet(L) /\ Quantified(b.orders, L)
        BY <1>5, FS_Subset DEF Quantified
      <4> HIDE DEF L, u, T
      <4> QED
        BY <1>5, <4>1, TotalType
    <3> QED
      BY <1>1, <3>2, <3>3
  <2> QED
    BY <2>1, <2>2
<1>9. Total(b.orders, L) \in Nat /\ Total(v, W) \in Nat
  <2>1. IsFiniteSet(L) /\ Quantified(b.orders, L)
    BY <1>5, FS_Subset DEF Quantified
  <2>2. Quantified(v, W)
    <3>1. \A x \in W : At(q, a, x).qty \in Nat
      <4>1. TypedQueues(q)
        BY WaitingFinite
      <4>2. \A x \in W : At(q, a, x) \in Promise!Entry
        BY <4>1, WaitingIs
      <4> QED
        BY <4>2, RequestAssumption DEF Promise!Entry
    <3> QED
      BY <3>1 DEF Quantified
  <2> HIDE DEF L, v, W
  <2> QED
    BY <1>3, <2>1, <2>2, TotalType
<1> HIDE DEF v, W, u, L
<1>10. Total(v, W) < a.qty
  BY <1>1, <1>5, <1>7, <1>8, <1>9
<1> QED
  BY <1>4, <1>10

\* A FOK order that goes through the loop without a trade has met nobody in reach.
LEMMA NobodyTraded ==
    ASSUME PriorityInv, Finish, trades = << >>, before.action.qty > 0
    PROVE  Waiting(before.queues, before.action) = {}
<1> DEFINE a == before.action
           q == before.queues
           left == incoming.qty
           W == Waiting(q, a)
           R == RestingQueues
<1>1. TradedQty = 0
  BY TallyEmpty DEF TradedQty, Tally
<1>2. /\ left \in Nat /\ TradedQty + left = a.qty /\ a \in Actions
      /\ SoFar(q, a, trades, R, left)
      /\ left > 0 => \A p \in InReach(a) : R[<<Opposite(a), p>>] = << >>
  BY SweepEnds
<1>3. left > 0
  BY <1>1, <1>2, ActionType
<1>4. IsFiniteSet(W)
  BY <1>2 DEF SoFar
<1> HIDE DEF a, q, left, W, R
<1>5. Len(trades) = Cardinality(W)
  BY <1>2, <1>3, EndsInTurn DEF W
<1>6. Cardinality(W) = 0
  BY <1>5
<1>7. W = {}
  BY <1>4, <1>6, FS_EmptySet
<1> QED
  BY <1>7 DEF W, a, q

\* No level's total has wrapped around.
NoTotalWraps == Running => \A s \in Sides : UnwrappedIn(book, s)

\* No step of the engine, or past it, turns a FOK order away that could be filled.
LEMMA FokStep ==
    ASSUME PriorityInv, FokNotStarved, NoTotalWraps, [MatchNext]_matchVars
    PROVE  FokNotStarved'
<1>1. CASE \E a \in Actions : Submit(a)
  <2>1. PICK a \in Actions : Submit(a)
    BY <1>1
  <2>2. Running /\ before' = [queues |-> RestingQueues, action |-> a]
    BY <2>1 DEF Submit
  <2>3. Whole(book) /\ Asked(book)
    BY <2>2, GoodWhole DEF PriorityInv, EngineInv, Running
  <2>4. UnwrappedIn(book, Opposite(a))
    BY <2>2, ActionType DEF NoTotalWraps
  <2> SUFFICES ASSUME pc' = "return", status' = "RejectedInvalid", a.type = "FOK", a.qty > 0
               PROVE  WaitingQty(RestingQueues, a) < a.qty
    BY <2>2 DEF FokNotStarved
  <2>5. ~HasLiquidity(book, a.side, a.qty)
    BY <2>1 DEF Submit, Return
  <2> QED
    BY <2>3, <2>4, <2>5, ScanRefuses DEF RestingQueues
<1>2. CASE Finish
  <2>1. UNCHANGED before
    BY <1>2 DEF Finish
  <2> SUFFICES ASSUME pc' = "return", status' = "RejectedInvalid", before.action.type = "FOK",
                      before.action.qty > 0
               PROVE  WaitingQty(before.queues, before.action) < before.action.qty
    BY <2>1 DEF FokNotStarved
  <2>2. status' = FinalStatus
    BY <1>2 DEF Finish, Return
  <2>3. trades = << >>
    BY <2>2 DEF FinalStatus
  <2>4. Waiting(before.queues, before.action) = {}
    BY <1>2, <2>3, NobodyTraded
  <2>5. WaitingQty(before.queues, before.action) = 0
    <3> DEFINE q == before.queues
               a == before.action
    <3>1. Waiting(q, a) = {}
      BY <2>4
    <3> HIDE DEF q, a
    <3>2. WaitingQty(q, a) = 0
      BY <3>1, FS_EmptySet, WaitingTotals, TotalEmpty
    <3> QED
      BY <3>2 DEF q, a
  <2>6. before.action.qty \in Nat
    BY <1>2, SweepEnds, ActionType
  <2> QED
    BY <2>5, <2>6
<1>3. CASE UNCHANGED matchVars
  BY <1>3 DEF matchVars, FokNotStarved
<1>4. CASE BestLevel \/ Fill \/ LevelSwept \/ HandBack \/ Dispatched
  <2>1. pc' # "return"
    BY <1>4 DEF BestLevel, Fill, LevelSwept, HandBack, Dispatched, engine
  <2> QED
    BY <2>1 DEF FokNotStarved
<1> QED
  BY <1>1, <1>2, <1>3, <1>4 DEF MatchNext, MatchStep

\* A sum is bounded by the number of its members: induction on the set.
LEMMA TotalBounded ==
    ASSUME NEW w, NEW A, IsFiniteSet(A), Quantified(w, A), NEW M \in Nat,
           \A i \in A : w[i].remaining_qty <= M
    PROVE  Total(w, A) <= Cardinality(A) * M
<1> DEFINE bad == {S \in SUBSET A : ~(Total(w, S) <= Cardinality(S) * M)}
<1> SUFFICES ASSUME bad # {}
             PROVE  FALSE
  OBVIOUS
<1>1. PICK S \in bad : \A x \in S : S \ {x} \notin bad
  BY MinimalSet
<1>2. IsFiniteSet(S) /\ S \subseteq A /\ Cardinality(S) \in Nat
      /\ ~(Total(w, S) <= Cardinality(S) * M)
  BY <1>1, FS_Subset, FS_CardinalityType
<1>3. CASE S = {}
  <2>1. Total(w, S) = 0 /\ Cardinality(S) = 0
    BY <1>3, TotalEmpty, FS_EmptySet
  <2> QED
    BY <1>2, <2>1
<1>4. CASE S # {}
  <2>1. PICK x \in S : TRUE
    BY <1>4
  <2> DEFINE R == S \ {x}
             r == Cardinality(R)
             n == Cardinality(S)
  <2>2. Total(w, R) <= r * M
    BY <1>1, <1>2, <2>1
  <2>3. r = n - 1 /\ n \in Nat
    BY <1>2, <2>1, FS_RemoveElement
  <2>4. Quantified(w, S)
    BY <1>2 DEF Quantified
  <2>5. Total(w, S) = w[x].remaining_qty + Total(w, R) /\ Total(w, R) \in Nat
    BY <1>2, <2>1, <2>4, TotalSplits
  <2>6. w[x].remaining_qty \in Nat /\ w[x].remaining_qty <= M
    BY <1>2, <2>1, <2>4 DEF Quantified
  <2>7. Total(w, S) > n * M
    <3>1. Total(w, S) \in Nat
      BY <2>5, <2>6
    <3> QED
      BY <1>2, <3>1
  <2> HIDE DEF R, r, n
  <2>8. (n - 1) * M = (n * M) - M
    BY <2>3
  <2>9. r * M = (n * M) - M
    BY <2>3, <2>8
  <2>10. n * M \in Int
    BY <2>3
  <2> QED
    BY <2>2, <2>5, <2>6, <2>7, <2>9, <2>10
<1> QED
  BY <1>3, <1>4

\* Where all the orders a book can hold add up to less than the width of a total, no
\* total wraps around.
LEMMA RoomForTotals ==
    ASSUME MaxOrders * MaxQty < QtyMod, EngineInv
    PROVE  NoTotalWraps
<1> SUFFICES ASSUME Running, NEW s \in Sides, NEW l \in book.sides[s].tree
             PROVE  Total(book.orders, On(book, s, l)) < QtyMod
  BY DEF NoTotalWraps, UnwrappedIn
<1> DEFINE w == book.orders
           D == On(book, s, l)
           n == Cardinality(D)
<1>1. Whole(book)
  BY GoodWhole DEF EngineInv, Running
<1>2. D \subseteq Live(book) /\ IsFiniteSet(Live(book)) /\ Cardinality(Live(book)) <= MaxOrders
  BY <1>1, LiveCounted DEF Whole, On, OrdersAt
<1>3. IsFiniteSet(D) /\ n \in Nat /\ n <= MaxOrders
  <2>1. IsFiniteSet(D) /\ n <= Cardinality(Live(book))
    BY <1>2, FS_Subset
  <2>2. n \in Nat /\ Cardinality(Live(book)) \in Nat
    BY <1>2, <2>1, FS_CardinalityType
  <2> QED
    BY <1>2, <2>1, <2>2, CapacityAssumption
<1>4. \A i \in D : w[i].remaining_qty \in Nat /\ w[i].remaining_qty <= MaxQty
  <2>1. \A i \in Live(book) : w[i].remaining_qty \in Qtys
    BY <1>1 DEF Whole, Book, Order, Live
  <2> QED
    BY <1>2, <2>1, RequestAssumption DEF Qtys
<1>5. Quantified(w, D) /\ MaxQty \in Nat /\ MaxOrders \in Nat /\ QtyMod \in Nat
  BY <1>4, RequestAssumption, CapacityAssumption DEF Quantified
<1> HIDE DEF w, D
<1>6. Total(w, D) <= n * MaxQty /\ Total(w, D) \in Nat
  BY <1>3, <1>4, <1>5, TotalBounded, TotalType
<1> HIDE DEF n
<1>7. n * MaxQty <= MaxOrders * MaxQty
  <2>1. MaxOrders - n \in Nat /\ (MaxOrders - n) * MaxQty >= 0
    BY <1>3, <1>5
  <2>2. (MaxOrders - n) * MaxQty = (MaxOrders * MaxQty) - (n * MaxQty)
    BY <1>3, <1>5
  <2>3. n * MaxQty \in Int /\ MaxOrders * MaxQty \in Int
    BY <1>3, <1>5
  <2> QED
    BY <2>1, <2>2, <2>3
<1>8. n * MaxQty \in Int /\ MaxOrders * MaxQty \in Int
  BY <1>3, <1>5
<1>9. Total(w, D) < QtyMod
  BY <1>5, <1>6, <1>7, <1>8
<1> QED
  BY <1>9 DEF w, D
-----------------------------------------------------------------------------
(* The theorems.                                                           *)

\* The inductive invariant of the engine and the book it works on.
THEOREM EngineAlwaysSound == MatchSpec => []EngineInv
<1>1. EngineInv /\ [MatchNext]_matchVars => EngineInv'
  BY EngineStep
<1> QED
  BY <1>1, EngineStart, PTL DEF MatchSpec

\* The engine's locals stay in their types and result.trades in its array.
THEOREM EngineTypeCorrect == MatchSpec => []EngineTypeOK
<1>1. EngineInv => EngineTypeOK
  BY DEF EngineInv
<1> QED
  BY <1>1, EngineAlwaysSound, PTL

\* Between two calls of match() the best bid is below the best ask, whatever the replay
\* engine has dispatched into the book in between.
THEOREM NeverCrossed == MatchSpec => []NotCrossed
<1>1. EngineInv => NotCrossed
  <2> SUFFICES ASSUME EngineInv, Running
               PROVE  NotCrossed
    BY DEF NotCrossed
  <2>1. Whole(book) /\ Uncrossed(book)
    BY GoodWhole DEF EngineInv, Running
  <2> QED
    BY <2>1, BestUncrossed DEF NotCrossed
<1> QED
  BY <1>1, EngineAlwaysSound, PTL

\* The sweep's curr_idx is never on a freed slot or off the head of the best level.
THEOREM IteratorHolds == MatchSpec => []IteratorAtBestHead
<1>1. EngineInv => IteratorAtBestHead
  BY DEF EngineInv, IteratorAtBestHead
<1> QED
  BY <1>1, EngineAlwaysSound, PTL

\* Neither the engine's nor the book's assertions about their own bookkeeping fail.
THEOREM EngineNeverInternal == MatchSpec => []NoInternalFault
<1>1. EngineInv => NoInternalFault
  BY DEF EngineInv, Good, Held, NoInternalFault
<1> QED
  BY <1>1, EngineAlwaysSound, PTL

\* Price-time priority, for every book, action and trade buffer: the n-th trade of a
\* match is with the n-th of the orders in reach, best price first and oldest first,
\* each gives all it has before the next gives any, and the queues show exactly that.
THEOREM TradesByPriority == MatchSpec => []PriceTimePriority
<1>1. MatchInit => PriorityInv
  <2> SUFFICES ASSUME MatchInit PROVE PriorityInv
    OBVIOUS
  <2>1. pc = "idle"
    BY DEF MatchInit
  <2> QED
    BY <2>1, EngineStart DEF PriorityInv, InCourse, WithinReach, PriceTimePriority
<1>2. PriorityInv /\ [MatchNext]_matchVars => PriorityInv'
  BY PriorityStep
<1>3. PriorityInv => PriceTimePriority
  BY DEF PriorityInv
<1> QED
  BY <1>1, <1>2, <1>3, PTL DEF MatchSpec

\* The FOK pre-scan turns no order away that the orders in reach could fill, as long as no
\* level's total wraps around its 32 bits.
THEOREM FokServed ==
    MatchSpec /\ []NoTotalWraps => []FokNotStarved
<1>1. MatchInit => PriorityInv /\ FokNotStarved
  <2> SUFFICES ASSUME MatchInit PROVE PriorityInv /\ FokNotStarved
    OBVIOUS
  <2>1. pc = "idle"
    BY DEF MatchInit
  <2> QED
    BY <2>1, EngineStart
       DEF PriorityInv, InCourse, WithinReach, PriceTimePriority, FokNotStarved
<1>2. PriorityInv /\ [MatchNext]_matchVars => PriorityInv'
  BY PriorityStep
<1>3. PriorityInv /\ FokNotStarved /\ NoTotalWraps /\ [MatchNext]_matchVars => FokNotStarved'
  BY FokStep
<1> QED
  BY <1>1, <1>2, <1>3, PTL DEF MatchSpec

\* No total wraps around in a book whose orders together ask for less than 2^32, and there
\* the pre-scan's verdict holds without proviso.
THEOREM FokServedWithRoom ==
    ASSUME MaxOrders * MaxQty < QtyMod
    PROVE  MatchSpec => []FokNotStarved
<1>1. EngineInv => NoTotalWraps
  BY RoomForTotals
<1> QED
  BY <1>1, EngineAlwaysSound, FokServed, PTL

\* Everything the theorems about OrderBook say of a book holds of the engine's book,
\* although the engine works on it in steps and the replay engine past the engine.
THEOREM EngineKeepsBook ==
    MatchSpec => [](TypeOK /\ OrdersAccounted /\ LevelsAccounted /\ DenseExact
                        /\ BboExact /\ LevelsExact)
<1>1. EngineInv => TypeOK /\ OrdersAccounted /\ LevelsAccounted /\ DenseExact
                          /\ BboExact /\ LevelsExact
  <2> SUFFICES ASSUME EngineInv
               PROVE  TypeOK /\ OrdersAccounted /\ LevelsAccounted /\ DenseExact
                             /\ BboExact /\ LevelsExact
    OBVIOUS
  <2>1. book \in Book /\ BookSound(book) /\ Held(book)
    BY DEF EngineInv, Good
  <2>2. BboExact /\ LevelsExact
    BY <2>1, SettledBbo, HeldLevels DEF BookSound
  <2> QED
    BY <2>1, <2>2
       DEF TypeOK, OrdersAccounted, LevelsAccounted, DenseExact, BookSound, LevelsSound
<1> QED
  BY <1>1, EngineAlwaysSound, PTL

\* Between matches the engine's book serves exactly the requests its queues allow:
\* nothing a sweep or a direct update has left behind refuses a legal request or lets
\* another one through, for every set of ids, prices, quantities and capacities.
THEOREM EngineServesExactly == MatchSpec => []ServesExactly
<1>1. EngineInv => ServesExactly
  BY GoodWhole, WholeServes DEF EngineInv, ServesExactly, Running
<1> QED
  BY <1>1, EngineAlwaysSound, PTL

-----------------------------------------------------------------------------
(* How large result.trades must be.                                        *)

\* While match() has something to fill, each trade of the call has freed a slot.
TradesFreed ==
    Running /\ pc \in {"level", "sweep"} /\ incoming.qty > 0 =>
        Len(trades) + Cardinality(Live(book)) <= MaxOrders
Buffered == book.fault # "TradeBuffer" /\ TradesFreed

\* A pass of the inner loop after which the incoming order wants more has taken all of
\* the resting order, whose slot is free then.
LEMMA FillFrees ==
    ASSUME EngineInv, Fill, TradesFreed, ~BufferFull
    PROVE  TradesFreed'
<1> DEFINE o == book.orders[curr_idx]
           fill == FillQty(o)
           c == CancelOrder(book, o.order_id, fill)
           T == [resting_order_id : OrderIds, price : Prices, quantity : 1..MaxQty]
           trade == [resting_order_id |-> o.order_id, price |-> o.price, quantity |-> fill]
<1> SUFFICES ASSUME incoming'.qty > 0
             PROVE  Len(trades') + Cardinality(Live(book')) <= MaxOrders
  BY DEF TradesFreed
<1>1. /\ Running /\ pc = "sweep" /\ curr_idx # kInvalid /\ incoming.qty > 0
      /\ Good(book) /\ Whole(book) /\ Asked(book)
      /\ incoming \in Actions /\ trades \in Seq(T) /\ Len(trades) \in Nat
  BY GoodWhole, LenProperties DEF Fill, EngineInv, Locals, EngineTypeOK, Running
<1>2. FillServed(o, fill, c)
  BY <1>1, FillDetails
<1>3. /\ curr_idx \in Live(book) /\ o.order_id \in DOMAIN book.order_map
      /\ book.order_map[o.order_id] = curr_idx
  <2>1. curr_idx \in Live(book)
    BY <1>1, IteratorLive
  <2> QED
    BY <1>1, <2>1, LiveMapped
<1>4. o.remaining_qty \in Qtys /\ o.remaining_qty \in Nat /\ fill \in Nat
  <2>1. o \in Order
    BY <1>1, <1>3 DEF Whole, Book, Live
  <2>2. fill \in 1..MaxQty
    BY <1>2 DEF FillServed
  <2> HIDE DEF fill, o
  <2> QED
    BY <2>1, <2>2, RequestAssumption DEF Order, Qtys
<1>5. book' = c /\ trades' = Append(trades, trade) /\ incoming'.qty = incoming.qty - fill
  <2>1. book' = OwnCall(c) /\ trades' = Append(trades, trade)
        /\ incoming' = [incoming EXCEPT !.qty = @ - fill]
    BY <1>2 DEF Fill, FillServed, ExecuteOrder
  <2> HIDE DEF c, fill
  <2>2. book' = c
    BY <1>2, <2>1 DEF OwnCall, FillServed
  <2>3. incoming'.qty = incoming.qty - fill
    BY <1>1, <2>1, ActionType
  <2> QED
    BY <2>1, <2>2, <2>3
<1>6. fill = o.remaining_qty
  <2>1. incoming.qty \in Nat
    BY <1>1, ActionType
  <2> QED
    BY <1>4, <1>5, <2>1 DEF FillQty
<1>7. Live(c) \subseteq Live(book) \ {curr_idx}
  <2> DEFINE i == book.order_map[o.order_id]
  <2>1. Live(CancelOrder(book, o.order_id, book.orders[i].remaining_qty)) \subseteq Live(book) \ {i}
    BY <1>1, <1>3, <1>4, CancelFrees
  <2> QED
    BY <1>3, <1>6, <2>1
<1> HIDE DEF o, fill, c
<1>8. /\ IsFiniteSet(Live(book)) /\ Cardinality(Live(book)) \in Nat
      /\ Cardinality(Live(c)) \in Nat /\ Cardinality(Live(c)) <= Cardinality(Live(book)) - 1
  <2>1. IsFiniteSet(Live(book)) /\ Cardinality(Live(book)) \in Nat
    BY <1>1, LiveCounted DEF Whole
  <2>2. /\ IsFiniteSet(Live(book) \ {curr_idx})
        /\ Cardinality(Live(book) \ {curr_idx}) = Cardinality(Live(book)) - 1
    BY <1>3, <2>1, FS_RemoveElement
  <2>3. IsFiniteSet(Live(c)) /\ Cardinality(Live(c)) <= Cardinality(Live(book) \ {curr_idx})
    BY <1>7, <2>2, FS_Subset
  <2>4. Cardinality(Live(c)) \in Nat
    BY <2>3, FS_CardinalityType
  <2> QED
    BY <2>1, <2>2, <2>3, <2>4
<1>9. Len(trades') = Len(trades) + 1
  <2> DEFINE V == T \cup {trade}
  <2>1. trades \in Seq(V) /\ trade \in V
    BY <1>1, SeqMonotonic
  <2> HIDE DEF V, trade
  <2> QED
    BY <1>5, <2>1, AppendProperties
<1>10. Len(trades) + Cardinality(Live(book)) <= MaxOrders
  BY <1>1 DEF TradesFreed
<1> QED
  BY <1>1, <1>5, <1>8, <1>9, <1>10, CapacityAssumption

\* Every step keeps the count, and none of a call overruns a buffer of MaxOrders.
LEMMA BufferedStep ==
    ASSUME MaxTrades >= MaxOrders, EngineInv, Buffered, [MatchNext]_matchVars
    PROVE  Buffered'
<1>1. /\ Good(book) /\ trades \in Seq([resting_order_id : OrderIds, price : Prices,
                                       quantity : 1..MaxQty])
      /\ EngineInv' /\ BookStep
  BY EngineStep DEF EngineInv, EngineTypeOK
<1>2. /\ Len(trades) \in Nat /\ IsFiniteSet(Live(book)) /\ Cardinality(Live(book)) \in Nat
      /\ Cardinality(Live(book)) <= MaxOrders
  BY <1>1, LenProperties, LiveCounted DEF Good, BookSound
<1>3. ASSUME Fill
      PROVE  ~BufferFull
  <2>1. Running /\ pc = "sweep" /\ curr_idx # kInvalid /\ incoming.qty > 0
    BY <1>3 DEF Fill
  <2>2. curr_idx \in Live(book)
    BY <2>1, IteratorLive
  <2>3. Cardinality(Live(book)) # 0
    BY <1>2, <2>2, FS_EmptySet
  <2>4. Len(trades) + Cardinality(Live(book)) <= MaxOrders
    BY <2>1 DEF Buffered, TradesFreed
  <2> QED
    BY <1>2, <2>3, <2>4, EngineAssumption, CapacityAssumption DEF BufferFull
<1>4. book'.fault # "TradeBuffer"
  <2>1. [Next]_book
    BY <1>1, <1>3 DEF BookStep, Overrun
  <2>2. CASE UNCHANGED book
    BY <2>2 DEF Buffered
  <2>3. CASE Next
    <3>1. book.fault = "None"
      BY <2>3 DEF Next, Add, Cancel, Execute, Delete, Replace, Modify, Running
    <3>2. Answered(book, book')
      BY <1>1, <2>3, <3>1, GoodWhole, RequestStep
    <3> QED
      BY <3>2 DEF Answered, Refused, CapacityFaults
  <2> QED
    BY <2>1, <2>2, <2>3
<1>5. TradesFreed'
  <2>1. CASE UNCHANGED matchVars
    BY <2>1 DEF matchVars, Buffered, TradesFreed, Running, Live
  <2>2. CASE \E a \in Actions : Submit(a)
    <3>1. pc = "idle" /\ UNCHANGED book /\ (pc' = "level" => trades' = trades)
          /\ pc' \in {"return", "level"}
      BY <2>2 DEF Submit, Return
    <3>2. Len(trades) = 0 /\ Live(book)' = Live(book)
      BY <3>1 DEF EngineInv, Locals, Live
    <3> QED
      BY <1>2, <3>1, <3>2, CapacityAssumption DEF TradesFreed
  <2>3. CASE BestLevel \/ LevelSwept
    BY <2>3 DEF BestLevel, LevelSwept, Buffered, TradesFreed, Live
  <2>4. CASE Fill
    BY <1>3, <2>4, FillFrees DEF Buffered
  <2>5. CASE Finish \/ HandBack
    BY <2>5 DEF Finish, HandBack, Return, TradesFreed
  <2>6. CASE Dispatched
    BY <2>6 DEF Dispatched, engine, TradesFreed
  <2> QED
    BY <2>1, <2>2, <2>3, <2>4, <2>5, <2>6 DEF MatchNext, MatchStep
<1> QED
  BY <1>4, <1>5 DEF Buffered

\* push_back on result.trades never fails when the buffer has room for a trade with
\* every order the pool can hold: a call that goes on trading has used an order up with
\* each trade.  (kMaxTradesPerMatch is a constant of its own in the code, which nothing
\* relates to MaxOrders.)
THEOREM BufferNeverOverruns ==
    ASSUME MaxTrades >= MaxOrders
    PROVE  MatchSpec => [](book.fault # "TradeBuffer")
<1>1. MatchInit => Buffered
  BY DEF MatchInit, Init, InitialBook, Buffered, TradesFreed
<1>2. EngineInv /\ Buffered /\ [MatchNext]_matchVars => Buffered'
  BY BufferedStep
<1>3. Buffered => book.fault # "TradeBuffer"
  BY DEF Buffered
<1> QED
  BY <1>1, <1>2, <1>3, EngineAlwaysSound, PTL DEF MatchSpec

\* As long as no match overruns result.trades, the engine's book is the limit order book
\* it promises, the engine's executions and residuals being requests like any others.
THEOREM EngineRefines ==
    MatchSpec /\ [](book.fault # "TradeBuffer") => ImplementsLimitOrderBook
<1>1. MatchInit => Promise!Init
  <2>1. InitialBook.fault = "None"
    BY DEF InitialBook
  <2> QED
    BY <2>1, EmptyShown, StatusIs DEF MatchInit, Init, Promise!Init, RestingQueues
<1>2. EngineInv /\ EngineInv' /\ [MatchNext]_matchVars /\ (book.fault # "TradeBuffer")'
        => [Promise!Next]_(Promise!vars)
  <2> SUFFICES ASSUME EngineInv, EngineInv', [MatchNext]_matchVars,
                      book'.fault # "TradeBuffer"
               PROVE  [Promise!Next]_(Promise!vars)
    OBVIOUS
  <2>1. Good(book) /\ Good(book)'
    BY DEF EngineInv
  <2>2. [Next]_book
    <3>1. Fail(book, "TradeBuffer").fault = "TradeBuffer"
      BY <2>1 DEF Good, Fail, Book
    <3> QED
      BY <3>1, EngineStep DEF BookStep, Overrun
  <2> QED
    BY <2>1, <2>2, StepSimulates DEF Good, TypeOK, Running
<1> QED
  BY <1>1, <1>2, EngineAlwaysSound, PTL DEF MatchSpec, ImplementsLimitOrderBook, Promise!Spec

\* With such a buffer the book under the engine keeps its promise without proviso.
THEOREM EngineRefinesWithRoom ==
    ASSUME MaxTrades >= MaxOrders
    PROVE  MatchSpec => ImplementsLimitOrderBook
BY BufferNeverOverruns, EngineRefines, PTL
=============================================================================
