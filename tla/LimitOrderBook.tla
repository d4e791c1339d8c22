--------------------------- MODULE LimitOrderBook ---------------------------
(***************************************************************************)
(* What a limit order book promises, independently of pools, trees, maps   *)
(* and intrusive lists: one FIFO queue of resting orders per side and      *)
(* price.  OrderBook.tla is shown to implement this module.                *)
(*                                                                         *)
(* A book that meets a request it cannot serve stops (the code aborts in a *)
(* failed TRADECORE_ASSERT).  `status' says why: "BadRequest" when the     *)
(* request itself was illegal, "NoPrice" when its price is out of range,   *)
(* "NoCapacity" when a legal order did not fit.  A book may only claim     *)
(* "NoCapacity" when it really is at a limit.                              *)
(***************************************************************************)
EXTENDS Integers, Sequences, FiniteSets

CONSTANTS
    OrderIds,    \* identities of orders
    Prices,      \* prices orders are entered at
    MaxQty,      \* largest quantity of an order
    OrderLimit,  \* most orders that rest at once
    LevelLimit,  \* most non-empty (side, price) queues at once
    PriceLimit   \* prices at or above it are not accepted

Sides == {0, 1}
Queues == Sides \X Prices

VARIABLES
    resting,  \* [Queues -> Seq([id, qty])], oldest order first
    status    \* "Open", "BadRequest", "NoPrice" or "NoCapacity"

vars == <<resting, status>>

Entry == [id : OrderIds, qty : 1..MaxQty]
Empty == [k \in Queues |-> <<>>]

TypeOK ==
    /\ resting \in [Queues -> Seq(Entry)]
    /\ status \in {"Open", "BadRequest", "NoPrice", "NoCapacity"}

\* Operators on a function r of queues.
Ids(q) == {q[i].id : i \in DOMAIN q}
Rests(r, id) == \E k \in Queues : id \in Ids(r[k])
Place(q, id) == CHOOSE i \in DOMAIN q : q[i].id = id
Leave(q, i) == [m \in 1..(Len(q) - 1) |-> IF m < i THEN q[m] ELSE q[m + 1]]
Without(r, id) ==
    [k \in Queues |-> IF id \in Ids(r[k]) THEN Leave(r[k], Place(r[k], id)) ELSE r[k]]
Depth(r) == Cardinality({x \in Queues \X (1..OrderLimit) : x[2] <= Len(r[x[1]])})
OpenLevels(r) == {k \in Queues : r[k] # <<>>}
Room(r, k) ==
    /\ Depth(r) < OrderLimit
    /\ r[k] # <<>> \/ Cardinality(OpenLevels(r)) < LevelLimit

\* Which requests queues r serve; every other one stops the book.
CanEnter(r, id, k, q) ==
    q > 0 /\ k[2] > 0 /\ k[2] < PriceLimit /\ ~Rests(r, id) /\ Room(r, k)
CanReduce(r, id, q) ==
    \E k \in Queues : \E i \in DOMAIN r[k] : r[k][i].id = id /\ q <= r[k][i].qty
CanReplace(r, id, new, k, q) == Rests(r, id) /\ CanEnter(Without(r, id), new, k, q)
CanModify(r, id, q) ==
    \E k \in Queues : \E i \in DOMAIN r[k] :
        r[k][i].id = id /\ (q > r[k][i].qty => CanEnter(Without(r, id), id, k, q))
-----------------------------------------------------------------------------
Init == resting = Empty /\ status = "Open"

\* Each request relates the queues r before it to the queues t after it.

\* A new order joins the back of the queue of its side and price.
Enter(r, t) ==
    \E k \in Queues :
        /\ t[k] # <<>> /\ k[2] < PriceLimit
        /\ LET new == t[k][Len(t[k])]
           IN  ~Rests(r, new.id) /\ t = [r EXCEPT ![k] = Append(@, new)] /\ Room(r, k)

\* Cancelling or executing part of an order keeps its place in the queue;
\* the whole of it takes it out.
Reduce(r, t, id) ==
    \/ t = Without(r, id)
    \/ \E k \in Queues : \E i \in DOMAIN r[k] :
            /\ r[k][i].id = id
            /\ \E n \in 1..r[k][i].qty : t = [r EXCEPT ![k][i].qty = n]

\* An order leaves and another joins some queue; or it joins again itself, for
\* more quantity costs an order its place.
Replace(r, t, id) == \E left \in {Without(r, id)} : Enter(left, t)

Serve ==
    /\ UNCHANGED status
    /\ \E r \in {resting}, t \in {resting'} :
        /\ {r, t} \subseteq [Queues -> Seq(Entry)]
        /\ \/ Enter(r, t)
           \/ \E id \in OrderIds :
                    Rests(r, id) /\ (Reduce(r, t, id) \/ Replace(r, t, id))

\* The book is gone with its process: nothing rests any more.  The queues do not
\* show which request was refused; that none of those the Can... operators name
\* is, OrderBook's ServesIn says request by request.
Refuse ==
    /\ \/ status' = "BadRequest"
       \/ status' = "NoPrice" /\ \E p \in Prices : p >= PriceLimit
       \/ status' = "NoCapacity" /\ \E k \in Queues : ~Room(resting, k)
    /\ resting' = Empty

Next == status = "Open" /\ (Refuse \/ Serve)

Spec == Init /\ [][Next]_vars
=============================================================================
