--------------------------- MODULE MatchingEngine ---------------------------
(***************************************************************************)
(* The matching engine of include/tradecore/matching and the replay        *)
(* engine's use of it.  match() is one call of one thread; its loops are   *)
(* unrolled into steps, so that what it holds across a mutation of the     *)
(* book (the sweep's curr_idx above all) is visible between steps.         *)
(*                                                                         *)
(* Between two matches the replay engine dispatches the updates that are   *)
(* not additions straight into the book it got from book() by const_cast.  *)
(*                                                                         *)
(* Abstractions: trade ids and timestamps are left out; LiquidityAnalyzer's*)
(* tree scan is its result, whether the levels' totals reach the quantity. *)
(***************************************************************************)
EXTENDS OrderBook, FiniteSetsExt

CONSTANTS
    MaxOrderQty,         \* MaxOrderSizeCheck
    MinPrice, MaxPrice,  \* FatFingerPriceCheck
    MaxTrades            \* kMaxTradesPerMatch

ASSUME EngineAssumption ==
    MaxOrderQty \in Nat /\ MinPrice \in Nat /\ MaxPrice \in Nat /\ MaxTrades \in Nat

VARIABLES
    pc,        \* where the thread is: "idle", "level", "sweep", "finish", "return"
    incoming,  \* match()'s `remaining': the action, its qty counted down
    curr_idx,  \* match_core's iterator over the orders of the best level
    trades,    \* result.trades
    status,    \* result.status
    before     \* history: the queues and the action when match() was called

engine == <<pc, incoming, curr_idx, trades, status, before>>
matchVars == <<book, pc, incoming, curr_idx, trades, status, before>>

OrderTypes == {"Limit", "Market", "IOC", "FOK"}
NoAction == [order_id |-> kInvalid, price |-> 0, qty |-> 0, side |-> 0, type |-> "Limit"]
NoHistory == [queues |-> << >>, action |-> NoAction]

\* A Market order's price is never looked at; nothing keeps an order of another
\* type from carrying price 0.
Actions == [order_id : OrderIds, price : Prices \cup {0}, qty : Qtys, side : Sides,
            type : OrderTypes]

Opposite(a) == 1 - a.side

\* An order does not trade at its own limit.
ReachesStrictly(a, p) ==
    a.type = "Market" \/ (IF a.side = 0 THEN p < a.price ELSE p > a.price)

Reaches(a, p) ==
    a.type = "Market" \/ (IF a.side = 0 THEN p <= a.price ELSE p >= a.price)
-----------------------------------------------------------------------------
RiskOk(a) ==
    /\ a.qty <= MaxOrderQty
    /\ a.type = "Market" \/ (MinPrice <= a.price /\ a.price <= MaxPrice)

\* Only the best level is looked at.
HasLiquidityBestOnly(b, side, qty) ==
    LET bbo == b.sides[1 - side].bbo
    IN  bbo # kInvalid /\ b.levels[bbo].total_qty >= qty

\* The price of the incoming order is not asked for.
HasLiquidity(b, side, qty) ==
    LET tree == b.sides[1 - side].tree
    IN  /\ tree # {}
        /\ MapThenSumSet(LAMBDA l : b.levels[l].total_qty, tree) >= qty

Return(st, tr) == status' = st /\ trades' = tr /\ pc' = "return"

\* match() up to its matching loop: risk check and FOK pre-scan.
Submit(a) ==
    /\ Running /\ pc = "idle"
    /\ incoming' = a /\ before' = [queues |-> RestingQueues, action |-> a]
    /\ \/ ~RiskOk(a) /\ Return("RejectedRisk", << >>)
       \/ /\ RiskOk(a) /\ a.type = "FOK" /\ ~HasLiquidity(book, a.side, a.qty)
          /\ Return("RejectedInvalid", << >>)
       \/ /\ RiskOk(a) /\ (a.type = "FOK" => HasLiquidity(book, a.side, a.qty))
          /\ pc' = "level" /\ UNCHANGED <<status, trades>>
    /\ UNCHANGED <<book, curr_idx>>

\* The outer loop goes on when nothing is left to fill.
BestLevelUnbounded ==
    LET bbo == book.sides[Opposite(incoming)].bbo
        sweeps == bbo # kInvalid /\ Reaches(incoming, book.levels[bbo].price)
    IN  /\ Running /\ pc = "level"
        /\ IF sweeps
           THEN pc' = "sweep" /\ curr_idx' = book.levels[bbo].head_order_idx
           ELSE pc' = "finish" /\ UNCHANGED curr_idx
        /\ UNCHANGED <<book, incoming, trades, status, before>>

\* The head of match_core's outer loop.
BestLevel ==
    LET bbo == book.sides[Opposite(incoming)].bbo
        sweeps == /\ incoming.qty > 0 /\ bbo # kInvalid
                  /\ Reaches(incoming, book.levels[bbo].price)
    IN  /\ Running /\ pc = "level"
        /\ IF sweeps
           THEN pc' = "sweep" /\ curr_idx' = book.levels[bbo].head_order_idx
           ELSE pc' = "finish" /\ UNCHANGED curr_idx
        /\ UNCHANGED <<book, incoming, trades, status, before>>

\* The fill is the resting quantity, whatever the incoming order has left.
FillQtyRestingOnly(resting) == resting.remaining_qty
FillQty(resting) ==
    IF incoming.qty < resting.remaining_qty THEN incoming.qty ELSE resting.remaining_qty

\* TRADECORE_VERIFY_MATCH: the trade takes no more than either side has.
MatchVerified(resting, fill) == fill <= incoming.qty /\ fill <= resting.remaining_qty

\* push_back's bound, one late and as it is.
BufferFullLate == Len(trades) > MaxTrades
BufferFull == Len(trades) >= MaxTrades

\* An execution of an order the engine itself just read must be accepted.
OwnCall(b) == IF b.fault = "Request" THEN Fail(b, "Internal") ELSE b

\* The iterator is read after the book has executed the order.
FillThenAdvance ==
    LET resting == book.orders[curr_idx]
        fill == FillQty(resting)
    IN  /\ Running /\ pc = "sweep" /\ curr_idx # kInvalid /\ incoming.qty > 0
        /\ trades' = Append(trades, [resting_order_id |-> resting.order_id,
                                     price |-> resting.price, quantity |-> fill])
        /\ incoming' = [incoming EXCEPT !.qty = @ - fill]
        /\ book' = OwnCall(ExecuteOrder(book, resting.order_id, fill))
        /\ curr_idx' = IF book'.orders[curr_idx] = NoOrder THEN curr_idx
                       ELSE book'.orders[curr_idx].next_in_level
        /\ UNCHANGED <<pc, status, before>>

\* One pass of the inner loop: a trade against curr_idx, the iterator moved on,
\* then the book told to execute.  Reading a freed slot (undefined in C++) is
\* counted as an internal fault, like a failed TRADECORE_VERIFY_MATCH.
Fill ==
    LET resting == book.orders[curr_idx]
        fill == FillQty(resting)
        ok == resting # NoOrder /\ MatchVerified(resting, fill)
    IN  /\ Running /\ pc = "sweep" /\ curr_idx # kInvalid /\ incoming.qty > 0
        /\ IF ~ok \/ BufferFull
           THEN /\ book' = Fail(book, IF ok THEN "TradeBuffer" ELSE "Internal")
                /\ UNCHANGED <<incoming, curr_idx, trades>>
           ELSE /\ trades' = Append(trades, [resting_order_id |-> resting.order_id,
                                             price |-> resting.price, quantity |-> fill])
                /\ incoming' = [incoming EXCEPT !.qty = @ - fill]
                /\ curr_idx' = resting.next_in_level
                /\ book' = OwnCall(ExecuteOrder(book, resting.order_id, fill))
        /\ UNCHANGED <<pc, status, before>>

LevelSwept ==
    /\ Running /\ pc = "sweep" /\ (curr_idx = kInvalid \/ incoming.qty = 0)
    /\ pc' = "level"
    /\ UNCHANGED <<book, incoming, curr_idx, trades, status, before>>

TradedQty == LET sum[n \in 0..Len(trades)] ==
                     IF n = 0 THEN 0 ELSE sum[n - 1] + trades[n].quantity
             IN  sum[Len(trades)]

\* TRADECORE_VERIFY_EXECUTION against the book after the residual went in.
ExecutionVerified(b) ==
    /\ TradedQty + incoming.qty = before.action.qty
    /\ incoming.qty > 0 /\ incoming.type = "Limit" =>
            \E s \in Sides : b.sides[s].bbo # kInvalid

\* Residuals of immediate-or-cancel orders rest too.
RestResidualOfIoc(b) ==
    IF incoming.qty > 0 /\ incoming.type \in {"Limit", "IOC"}
    THEN AddOrder(b, incoming.order_id, incoming.side, incoming.price, incoming.qty)
    ELSE b

RestResidual(b) ==
    IF incoming.qty > 0 /\ incoming.type = "Limit"
    THEN AddOrder(b, incoming.order_id, incoming.side, incoming.price, incoming.qty)
    ELSE b

FinalStatus ==
    IF trades = << >>
    THEN IF incoming.type \in {"IOC", "FOK"} THEN "RejectedInvalid" ELSE "Accepted"
    ELSE IF incoming.qty = 0 THEN "Filled" ELSE "PartiallyFilled"

\* match() after its loop: the residual rests, the status is set.
Finish ==
    LET b == RestResidual(book)
    IN  /\ Running /\ pc = "finish"
        /\ book' = Then(b, IF ExecutionVerified(b) THEN b ELSE Fail(b, "Internal"))
        /\ IF book'.fault = "None" THEN Return(FinalStatus, trades)
           ELSE UNCHANGED <<status, trades, pc>>
        /\ UNCHANGED <<incoming, curr_idx, before>>

\* The caller has the result; the next call starts from fresh locals.
HandBack ==
    /\ Running /\ pc = "return"
    /\ pc' = "idle" /\ incoming' = NoAction /\ curr_idx' = kInvalid
    /\ trades' = << >> /\ status' = "None" /\ before' = NoHistory
    /\ UNCHANGED book

\* What the replay engine dispatches between matches: every update but additions
\* that UpdateType has a name for (it has none for a replacement).
Dispatched == pc = "idle" /\ (Cancel \/ Execute \/ Delete \/ Modify) /\ UNCHANGED engine
-----------------------------------------------------------------------------
MatchInit ==
    /\ Init /\ pc = "idle" /\ incoming = NoAction /\ curr_idx = kInvalid
    /\ trades = << >> /\ status = "None" /\ before = NoHistory

MatchStep == BestLevel \/ Fill \/ LevelSwept \/ Finish \/ HandBack
MatchNext == (\E a \in Actions : Submit(a)) \/ MatchStep \/ Dispatched

\* A call of match() runs on: nothing else takes its thread.
MatchSpec == MatchInit /\ [][MatchNext]_matchVars /\ WF_matchVars(MatchStep)
-----------------------------------------------------------------------------
(* Correctness.                                                            *)

\* The engine's locals stay in their types and the trade buffer in its size.
EngineTypeOK ==
    /\ pc \in {"idle", "level", "sweep", "finish", "return"}
    /\ incoming \in Actions \cup {NoAction}
    /\ curr_idx \in OrderSlots \cup {kInvalid}
    /\ trades \in Seq([resting_order_id : OrderIds, price : Prices, quantity : 1..MaxQty])
    /\ Len(trades) <= MaxTrades
    /\ status \in {"None", "Accepted", "RejectedRisk", "RejectedInvalid", "Filled",
                   "PartiallyFilled"}

(* The reference: who a match of action a against the queues q must trade   *)
(* with, said of each waiting order <<price, place>> by itself.            *)
InReach(a) == {p \in Prices : Reaches(a, p)}
Waiting(q, a) == UNION {{p} \X DOMAIN q[<<Opposite(a), p>>] : p \in InReach(a)}
At(q, a, x) == q[<<Opposite(a), x[1]>>][x[2]]
WaitingQty(q, a) == MapThenSumSet(LAMBDA x : At(q, a, x).qty, Waiting(q, a))
Ahead(q, a, x) == {y \in Waiting(q, a) : \/ Better(Opposite(a), y[1], x[1])
                                         \/ y[1] = x[1] /\ y[2] < x[2]}
\* The number of the trade that must be with x, should the match come to it.
Turn(q, a, x) == Cardinality(Ahead(q, a, x)) + 1

\* Trades tr keep to x's turn: x trades at its price and gives all it has, unless
\* the match ends with it because nothing is left to fill.
InTurn(q, a, tr, left, x) ==
    LET n == Turn(q, a, x)
        e == At(q, a, x)
    IN  n <= Len(tr) =>
            /\ tr[n].resting_order_id = e.id /\ tr[n].price = x[1]
            /\ tr[n].quantity \in 1..e.qty
            /\ n < Len(tr) \/ left > 0 => tr[n].quantity = e.qty

\* What place i of queue k has given in trades tr.
Share(q, a, tr, k, i) ==
    LET n == Turn(q, a, <<k[2], i>>)
    IN  IF k[1] = Opposite(a) /\ k[2] \in InReach(a) /\ n <= Len(tr)
        THEN tr[n].quantity ELSE 0
Spent(q, a, tr, k) == {i \in DOMAIN q[k] : Share(q, a, tr, k, i) = q[k][i].qty}

\* Queue k when those who gave all they had have left it.
Rest(q, a, tr, k) ==
    LET n == Cardinality(Spent(q, a, tr, k))
    IN  [i \in 1..(Len(q[k]) - n) |->
            [id  |-> q[k][n + i].id,
             qty |-> q[k][n + i].qty - Share(q, a, tr, k, n + i)]]

QueuesAfter(q, a, tr, left) ==
    [k \in Sides \X Prices |->
        IF k = <<a.side, a.price>> /\ a.type = "Limit" /\ left > 0
        THEN Append(Rest(q, a, tr, k), [id |-> a.order_id, qty |-> left])
        ELSE Rest(q, a, tr, k)]

\* The risk check or the FOK pre-scan has turned action a away.
Rejected(a) == status = "RejectedRisk" \/ (status = "RejectedInvalid" /\ a.type = "FOK")

\* Price-time priority: when match() returns, its n-th trade was with the n-th of
\* the orders in reach, at that order's price; all of them but the last gave all
\* they had, and only if nobody else waits is anything left to fill.  Every other
\* order is left alone, and a residual rests (behind its queue) only for a Limit
\* order.  A rejected action has changed nothing.
PriceTimePriority ==
    Running /\ pc = "return" =>
        LET q == before.queues
            a == before.action
            left == a.qty - TradedQty
        IN  IF Rejected(a)
            THEN trades = << >> /\ RestingQueues = q
            ELSE /\ \A x \in Waiting(q, a) : InTurn(q, a, trades, left, x)
                 /\ left >= 0 /\ Len(trades) <= Cardinality(Waiting(q, a))
                 /\ left > 0 => Len(trades) = Cardinality(Waiting(q, a))
                 /\ RestingQueues = QueuesAfter(q, a, trades, left)

\* A FOK order that the acceptable prices can fill is never turned away, even
\* when the quantity is spread over several levels.
FokNotStarved ==
    pc = "return" /\ status = "RejectedInvalid" /\ before.action.type = "FOK"
        /\ before.action.qty > 0 =>
            WaitingQty(before.queues, before.action) < before.action.qty

\* Between matches the best bid is below the best ask, whatever updates the
\* replay engine dispatched in between.
NotCrossed ==
    Running /\ pc = "idle" =>
        LET bid == book.sides[0].bbo
            ask == book.sides[1].bbo
        IN  bid # kInvalid /\ ask # kInvalid =>
                book.levels[bid].price < book.levels[ask].price

\* Between matches the book serves exactly the requests its queues allow: a
\* Limit order's residual, a cancellation or a replacement is refused for
\* what it asks or for want of room, never for what a sweep or an update before it
\* left behind.
ServesExactly == Running /\ pc = "idle" => ServesIn(book)

\* The sweep's iterator always stands at the head of the best opposite level,
\* on a live order: taking the next index before executing never leaves it on
\* a slot that execute_order freed or on a level it destroyed.
IteratorAtBestHead ==
    Running /\ pc = "sweep" /\ curr_idx # kInvalid /\ incoming.qty > 0 =>
        LET bbo == book.sides[Opposite(incoming)].bbo
        IN  /\ book.orders[curr_idx] # NoOrder
            /\ bbo # kInvalid /\ book.levels[bbo].head_order_idx = curr_idx

\* No assertion about the engine's own bookkeeping fails: its executions name
\* live orders with enough quantity, levels are empty when they are destroyed,
\* and filled plus remaining quantity is the initial quantity.
NoInternalFault == book.fault # "Internal"

\* Every call of match() returns, or the process has stopped in an assertion.
MatchReturns == (pc # "idle") ~> (pc = "idle" \/ ~Running)

\* "Execute entire quantity immediately, or reject entirely": a FOK order is
\* never filled in part.
FokAllOrNothing ==
    pc = "return" /\ before.action.type = "FOK" => status # "PartiallyFilled"
=============================================================================
