----------------------------- MODULE SPSCQueue ------------------------------
(***************************************************************************)
(* The wait-free single-producer single-consumer ring buffer of            *)
(* include/tradecore/lockfree/spsc_queue.hpp, one step per access to shared*)
(* memory.  The counters run freely and wrap at CounterMod (2^64 in the    *)
(* code).                                                                  *)
(*                                                                         *)
(* An acquire load of the other thread's counter may return any value the  *)
(* counter had since the value this thread last saw (C++ coherence), so    *)
(* both the cached copies and the reloads may be stale.  What a release    *)
(* store publishes is visible to the load that reads it, so a slot is read *)
(* as it was written provided the two accesses never overlap, which        *)
(* NoDataRace states.                                                      *)
(***************************************************************************)
EXTENDS Integers, Sequences

CONSTANTS
    Items,
    NoItem,
    Capacity,    \* a power of two
    CounterMod   \* where the counters wrap

ASSUME RingAssumption ==
    /\ NoItem \notin Items
    /\ Capacity \in Nat \ {0} /\ \E k \in 0..Capacity : Capacity = 2 ^ k
    /\ CounterMod \in Nat /\ CounterMod % Capacity = 0
    /\ CounterMod > Capacity + 1

VARIABLES
    tail, head_cached,  \* ProducerState
    head, tail_cached,  \* ConsumerState
    buffer,
    ppc, item,          \* the producer in push, and push's argument
    cpc, out,           \* the consumer in pop, and pop's item
    popped,             \* what the last successful pop delivered
    sized               \* the last result of size()

producer == <<tail, head_cached, ppc, item>>
consumer == <<head, tail_cached, cpc, out, popped>>
vars == <<tail, head_cached, head, tail_cached, buffer, ppc, item, cpc, out, popped, sized>>

Counters == 0..(CounterMod - 1)

Succ(n) == (n + 1) % CounterMod
Minus(m, n) == (m - n) % CounterMod
Slot(n) == n % Capacity

\* The values a load may return: the counter went from `seen' to `now'.
Visible(seen, now) == {(seen + k) % CounterMod : k \in 0..Minus(now, seen)}

\* push's test, one too late and as it is.
FullLate(hd) == Minus(Succ(tail), hd) > Capacity + 1
Full(hd) == Minus(Succ(tail), hd) > Capacity

Init ==
    /\ tail = 0 /\ head_cached = 0 /\ head = 0 /\ tail_cached = 0
    /\ buffer = [s \in 0..(Capacity - 1) |-> NoItem]
    /\ ppc = "idle" /\ item = NoItem
    /\ cpc = "idle" /\ out = NoItem /\ popped = NoItem
    /\ sized = 0
-----------------------------------------------------------------------------
(* push.  A caller that was refused calls again, with this item or another.*)

PushCall ==
    /\ ppc \in {"idle", "refused"}
    /\ item' \in Items
    /\ ppc' = IF Full(head_cached) THEN "reload" ELSE "write"
    /\ UNCHANGED <<tail, head_cached, buffer, sized, consumer>>

\* The head is loaded, tested and forgotten.
ReloadHeadForgets(h) ==
    /\ ppc = "reload"
    /\ ppc' = IF Full(head_cached) THEN "refused" ELSE "write"
    /\ UNCHANGED <<head_cached, tail, item, buffer, sized, consumer>>

ReloadHead(h) ==
    /\ ppc = "reload"
    /\ head_cached' = h
    /\ ppc' = IF Full(h) THEN "refused" ELSE "write"
    /\ UNCHANGED <<tail, item, buffer, sized, consumer>>

Write ==
    /\ ppc = "write"
    /\ buffer' = [buffer EXCEPT ![Slot(tail)] = item]
    /\ ppc' = "publish"
    /\ UNCHANGED <<tail, head_cached, item, sized, consumer>>

Publish ==
    /\ ppc = "publish"
    /\ tail' = Succ(tail)
    /\ ppc' = "idle" /\ item' = NoItem
    /\ UNCHANGED <<head_cached, buffer, sized, consumer>>
-----------------------------------------------------------------------------
(* pop.                                                                    *)

PopCall ==
    /\ cpc = "idle"
    /\ cpc' = IF head = tail_cached THEN "reload" ELSE "read"
    /\ UNCHANGED <<head, tail_cached, out, popped, buffer, sized, producer>>

\* The tail is not compared again after it was loaded.
ReloadTailUnchecked(t) ==
    /\ cpc = "reload"
    /\ tail_cached' = t
    /\ cpc' = "read"
    /\ UNCHANGED <<head, out, popped, buffer, sized, producer>>

\* The tail is loaded, but the copy of it is not renewed.
ReloadTailForgets(t) ==
    /\ cpc = "reload"
    /\ cpc' = IF head = tail_cached THEN "idle" ELSE "read"
    /\ UNCHANGED <<head, tail_cached, out, popped, buffer, sized, producer>>

ReloadTail(t) ==
    /\ cpc = "reload"
    /\ tail_cached' = t
    /\ cpc' = IF head = t THEN "idle" ELSE "read"
    /\ UNCHANGED <<head, out, popped, buffer, sized, producer>>

Read ==
    /\ cpc = "read"
    /\ out' = buffer[Slot(head)]
    /\ cpc' = "release"
    /\ UNCHANGED <<head, tail_cached, popped, buffer, sized, producer>>

Release ==
    /\ cpc = "release"
    /\ head' = Succ(head)
    /\ popped' = out /\ out' = NoItem
    /\ cpc' = "idle"
    /\ UNCHANGED <<tail_cached, buffer, sized, producer>>
-----------------------------------------------------------------------------
\* size(), called by either of the two threads between its other calls.
Size ==
    /\ \/ ppc \in {"idle", "refused"}
          /\ \E h \in Visible(head_cached, head) : sized' = Minus(tail, h)
       \/ cpc = "idle"
          /\ \E t \in Visible(tail_cached, tail) : sized' = Minus(t, head)
    /\ UNCHANGED <<buffer, producer, consumer>>

Reloads == \/ \E h \in Visible(head_cached, head) : ReloadHead(h)
           \/ \E t \in Visible(tail_cached, tail) : ReloadTail(t)
Next == \/ PushCall \/ Write \/ Publish
        \/ PopCall \/ Read \/ Release
        \/ Reloads \/ Size

\* Both threads run and keep calling (the callers spin), and a store becomes
\* visible to the other thread's loads in the end.
Fairness ==
    /\ WF_vars(PushCall) /\ WF_vars(Write) /\ WF_vars(Publish)
    /\ WF_vars(PopCall) /\ WF_vars(Read) /\ WF_vars(Release)
    /\ WF_vars(\E h \in Visible(head_cached, head) : ReloadHead(h))
    /\ WF_vars(\E t \in Visible(tail_cached, tail) : ReloadTail(t))
    /\ SF_vars(ReloadHead(head)) /\ SF_vars(ReloadTail(tail))

Spec == Init /\ [][Next]_vars /\ Fairness
-----------------------------------------------------------------------------
(* Correctness.                                                            *)

\* Counters stay in the machine's range, slots and locals hold items.
TypeOK ==
    /\ {tail, head, head_cached, tail_cached, sized} \subseteq Counters
    /\ buffer \in [0..(Capacity - 1) -> Items \cup {NoItem}]
    /\ ppc \in {"idle", "reload", "refused", "write", "publish"}
    /\ cpc \in {"idle", "reload", "read", "release"}
    /\ {item, out, popped} \subseteq Items \cup {NoItem}

\* The producer never writes a slot while the consumer reads it, although each
\* decides from a copy of the other's counter that may be out of date.
NoDataRace == ~(ppc = "write" /\ cpc = "read" /\ Slot(tail) = Slot(head))

\* The cached copies are never ahead of the counters they copy, and neither
\* thread's view allows more than Capacity items, across a wrap of the counters.
CachesConservative ==
    /\ Minus(tail, head_cached) <= Capacity
    /\ Minus(head, head_cached) <= Minus(tail, head_cached)
    /\ Minus(tail_cached, head) <= Minus(tail, head)

\* size(), called by the producer or the consumer, never underflows.
SizeInRange == sized <= Capacity

Waiting == [n \in 1..Minus(tail, head) |-> buffer[Slot(head + n - 1)]]
Promise == INSTANCE BoundedQueue WITH queue <- Waiting

\* The ring buffer is a bounded FIFO queue: no item is lost, repeated,
\* overwritten before it is read, or read before it is written.
ImplementsBoundedQueue == Promise!Spec

\* A producer that keeps calling push is not refused for ever.
RefusalEnds == (ppc = "refused") ~> (ppc = "write")

\* Every published item is taken in the end: the head does not stay put while
\* the tail is ahead of it.
ItemsTaken == \A c \in Counters : (head = c /\ tail # c) ~> (head # c)
=============================================================================
