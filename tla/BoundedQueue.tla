---------------------------- MODULE BoundedQueue ----------------------------
(***************************************************************************)
(* What a bounded queue between two threads promises: items leave in the   *)
(* order they entered, none is lost, repeated or made up, and no more than *)
(* Capacity wait at once.  SPSCQueue.tla is shown to implement it.         *)
(***************************************************************************)
EXTENDS Naturals, Sequences

CONSTANTS Items, Capacity, NoItem

VARIABLES
    queue,  \* the items that wait, oldest first
    popped  \* the item the last pop delivered

vars == <<queue, popped>>

Init == queue = << >> /\ popped = NoItem

Push == /\ Len(queue) < Capacity
        /\ \E v \in Items : queue' = Append(queue, v)
        /\ UNCHANGED popped

Pop == /\ queue # << >>
       /\ popped' = Head(queue)
       /\ queue' = Tail(queue)

Next == Push \/ Pop
Spec == Init /\ [][Next]_vars
=============================================================================
