----------------------------- MODULE MPSCQueue ------------------------------
(***************************************************************************)
(* The multi-producer queue of include/tradecore/lockfree/mpsc_queue.hpp:  *)
(* one SPSC queue per producer, polled round-robin by the consumer.        *)
(*                                                                         *)
(* Each of the inner queues is taken at its promise (BoundedQueue, which   *)
(* SPSCQueue implements): a push or a pop of one of them is one step.  The *)
(* consumer's pop is a scan of one step per inner queue, between which the *)
(* producers push.                                                         *)
(***************************************************************************)
EXTENDS Integers, Sequences

CONSTANTS
    NumProducers,
    CapacityPerProducer,
    Items,
    NoItem

ASSUME ProducersAssumption ==
    /\ NumProducers \in Nat \ {0}
    /\ CapacityPerProducer \in Nat \ {0}
    /\ NoItem \notin Items

VARIABLES
    queues,         \* the inner queues
    next_poll_idx,
    cpc, i,         \* the consumer: "idle" or "scan", and pop's loop variable
    result,         \* what the last pop delivered; NoItem when it returned false
    waiting,        \* history: who had an item when the scan began
    bypassed        \* history: items of others taken while p had one

vars == <<queues, next_poll_idx, cpc, i, result, waiting, bypassed>>

Producers == 0..(NumProducers - 1)
HasItem == {p \in Producers : queues[p] # << >>}

Init ==
    /\ queues = [p \in Producers |-> << >>]
    /\ next_poll_idx = 0
    /\ cpc = "idle" /\ i = 0 /\ result = NoItem
    /\ waiting = {}
    /\ bypassed = [p \in Producers |-> 0]

\* A push to a full inner queue returns false and changes nothing.
Push(p) ==
    /\ Len(queues[p]) < CapacityPerProducer
    /\ \E v \in Items : queues' = [queues EXCEPT ![p] = Append(@, v)]
    /\ UNCHANGED <<next_poll_idx, cpc, i, result, waiting, bypassed>>

PopCall ==
    /\ cpc = "idle"
    /\ cpc' = "scan" /\ i' = 0 /\ waiting' = HasItem
    /\ UNCHANGED <<queues, next_poll_idx, result, bypassed>>

\* The inner queue a scan looks at.
PollIdx == (next_poll_idx + i) % NumProducers

\* Where the next scan starts: at the producer just served, and as it is.
AfterServingSame(idx) == idx
AfterServing(idx) == (idx + 1) % NumProducers

\* The scan ends one inner queue early, and as it is.
LastPollEarly == i + 2 >= NumProducers
LastPoll == i + 1 = NumProducers

Poll ==
    LET idx == PollIdx
    IN  /\ cpc = "scan"
        /\ \/ /\ queues[idx] # << >>
              /\ result' = Head(queues[idx])
              /\ queues' = [queues EXCEPT ![idx] = Tail(@)]
              /\ next_poll_idx' = AfterServing(idx)
              /\ cpc' = "idle" /\ i' = 0
              /\ bypassed' = [p \in Producers |->
                                IF p = idx \/ p \notin HasItem THEN 0 ELSE bypassed[p] + 1]
           \/ /\ queues[idx] = << >>
              /\ IF LastPoll
                 THEN cpc' = "idle" /\ i' = 0 /\ result' = NoItem
                 ELSE i' = i + 1 /\ UNCHANGED <<cpc, result>>
              /\ UNCHANGED <<queues, next_poll_idx, bypassed>>
        /\ UNCHANGED waiting

Next == (\E p \in Producers : Push(p)) \/ PopCall \/ Poll

\* The consumer's thread runs and its caller polls again; producers may stop.
Spec == Init /\ [][Next]_vars /\ WF_vars(PopCall) /\ WF_vars(Poll)
-----------------------------------------------------------------------------
(* Correctness.                                                            *)

\* Queues keep their bound, indices stay among the producers.
TypeOK ==
    /\ queues \in [Producers -> Seq(Items)]
    /\ \A p \in Producers : Len(queues[p]) <= CapacityPerProducer
    /\ next_poll_idx \in Producers /\ i \in Producers
    /\ cpc \in {"idle", "scan"} /\ result \in Items \cup {NoItem}
    /\ waiting \subseteq Producers
    /\ bypassed \in [Producers -> Nat]

\* pop returns false only if no producer had an item when it was called,
\* whatever was pushed during its scan.
NothingMissed == cpc = "idle" /\ result = NoItem => waiting = {}

\* While a producer has an item, the consumer takes at most one item of each
\* other producer before it: a busy producer cannot crowd the others out.
BypassBounded == \A p \in Producers : bypassed[p] <= NumProducers - 1

\* An inner queue that stays full is drained: no producer is refused for ever.
FullQueueDrained ==
    \A p \in Producers : (Len(queues[p]) = CapacityPerProducer)
                            ~> (Len(queues[p]) < CapacityPerProducer)
=============================================================================
