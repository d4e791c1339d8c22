-------------------------- MODULE MPSCQueueProofs ---------------------------
(***************************************************************************)
(* Proofs about MPSCQueue, for any number of producers and any capacity: a *)
(* pop that returns false missed nobody, and a producer with an item waits *)
(* for at most one item of each of the others.                             *)
(***************************************************************************)
EXTENDS MPSCQueue, TLAPS

\* How many inner queues the consumer looks at before that of producer p, when
\* it starts from next_poll_idx.
DistanceTo(p) == IF p >= next_poll_idx THEN p - next_poll_idx
                 ELSE p - next_poll_idx + NumProducers

\* A scan that has come to i has passed by no producer that had an item when it
\* began, and whom it has passed by was not kept waiting.
ScanPassedEmpty ==
    cpc = "scan" =>
        /\ \A p \in waiting : queues[p] # << >> /\ DistanceTo(p) >= i
        /\ \A p \in Producers : DistanceTo(p) < i => bypassed[p] = 0

\* Every item taken before p's own brings the consumer nearer to p.
Nearer ==
    \A p \in Producers :
        /\ queues[p] = << >> => bypassed[p] = 0
        /\ bypassed[p] + DistanceTo(p) <= NumProducers - 1

PollInv == TypeOK /\ NothingMissed /\ ScanPassedEmpty /\ Nearer
-----------------------------------------------------------------------------
(* Round-robin arithmetic.                                                 *)

\* Adding one to a producer's index, or less than a round to next_poll_idx,
\* wraps at most once.
LEMMA Wraps ==
    ASSUME NEW N \in Nat \ {0}, NEW a \in 0..(N - 1), NEW b \in 0..N
    PROVE  (a + b) % N = IF a + b < N THEN a + b ELSE a + b - N
<1>1. CASE a + b < N
  BY <1>1
<1>2. CASE a + b >= N
  <2>1. PICK r \in 0..(N - 1) : a + b = (N * 1) + r
    <3>1. a + b - N \in 0..(N - 1) /\ a + b = (N * 1) + (a + b - N)
      BY <1>2
    <3> QED  BY <3>1
  <2>2. (a + b) % N = r
    BY <2>1
  <2>3. r = a + b - N
    BY <2>1
  <2> QED  BY <1>2, <2>2, <2>3
<1> QED  BY <1>1, <1>2

\* The inner queue a scan looks at is the one at distance i, and no other is.
LEMMA PollIdxDistance ==
    ASSUME TypeOK
    PROVE  /\ PollIdx \in Producers /\ DistanceTo(PollIdx) = i
           /\ \A p \in Producers : /\ DistanceTo(p) \in 0..(NumProducers - 1)
                                   /\ DistanceTo(p) = i => p = PollIdx
<1>1. /\ NumProducers \in Nat \ {0}
      /\ next_poll_idx \in Nat /\ next_poll_idx < NumProducers
      /\ i \in Nat /\ i < NumProducers
  BY ProducersAssumption DEF TypeOK, Producers
<1>2. PollIdx = IF next_poll_idx + i < NumProducers THEN next_poll_idx + i
                ELSE next_poll_idx + i - NumProducers
  <2>1. next_poll_idx \in 0..(NumProducers - 1) /\ i \in 0..NumProducers
    BY <1>1
  <2> QED  BY <1>1, <2>1, Wraps DEF PollIdx
<1> QED  BY <1>1, <1>2 DEF DistanceTo, Producers

\* After serving the producer at distance i the next scan starts behind it: who
\* was farther on is nearer by what the scan passed, who was passed is last.
LEMMA AfterServingDistance ==
    ASSUME TypeOK, next_poll_idx' = AfterServing(PollIdx), NEW p \in Producers
    PROVE  /\ next_poll_idx' \in Producers
           /\ DistanceTo(p)' = IF DistanceTo(p) > i THEN DistanceTo(p) - i - 1
                               ELSE DistanceTo(p) + NumProducers - i - 1
<1>1. /\ NumProducers \in Nat \ {0}
      /\ next_poll_idx \in Nat /\ next_poll_idx < NumProducers
      /\ i \in Nat /\ i < NumProducers
      /\ p \in Nat /\ p < NumProducers
  BY ProducersAssumption DEF TypeOK, Producers
<1>2. PollIdx = IF next_poll_idx + i < NumProducers THEN next_poll_idx + i
                ELSE next_poll_idx + i - NumProducers
  <2>1. next_poll_idx \in 0..(NumProducers - 1) /\ i \in 0..NumProducers
    BY <1>1
  <2> QED  BY <1>1, <2>1, Wraps DEF PollIdx
<1>3. PollIdx \in Nat /\ PollIdx < NumProducers
  BY <1>1, <1>2
<1>4. next_poll_idx' = IF PollIdx + 1 < NumProducers THEN PollIdx + 1 ELSE 0
  <2>1. PollIdx \in 0..(NumProducers - 1) /\ 1 \in 0..NumProducers
    BY <1>1, <1>3
  <2>2. (PollIdx + 1) % NumProducers = IF PollIdx + 1 < NumProducers THEN PollIdx + 1
                                       ELSE PollIdx + 1 - NumProducers
    BY <1>1, <2>1, Wraps
  <2> QED  BY <1>1, <1>3, <2>2 DEF AfterServing
<1>5. next_poll_idx' \in Producers
  BY <1>1, <1>3, <1>4 DEF Producers
<1>6. DistanceTo(p)' = IF p >= next_poll_idx' THEN p - next_poll_idx'
                       ELSE p - next_poll_idx' + NumProducers
  BY DEF DistanceTo
<1> QED  BY <1>1, <1>2, <1>3, <1>4, <1>5, <1>6 DEF DistanceTo
-----------------------------------------------------------------------------
(* Every step keeps the invariant.                                         *)

\* At the start the queues are empty.
LEMMA PollStarts == Init => PollInv
<1> SUFFICES ASSUME Init PROVE PollInv
  OBVIOUS
<1>1. NumProducers \in Nat \ {0} /\ CapacityPerProducer \in Nat \ {0}
      /\ 0 \in Producers
  BY ProducersAssumption DEF Producers
<1>2. << >> \in Seq(Items) /\ Len(<< >>) = 0
  OBVIOUS
<1>3. TypeOK
  BY <1>1, <1>2 DEF Init, TypeOK
<1>4. NothingMissed /\ ScanPassedEmpty
  BY DEF Init, NothingMissed, ScanPassedEmpty
<1>5. Nearer
  <2>1. \A p \in Producers : DistanceTo(p) \in 0..(NumProducers - 1)
    BY <1>3, PollIdxDistance
  <2> QED  BY <1>1, <2>1 DEF Init, Nearer
<1> QED  BY <1>3, <1>4, <1>5 DEF PollInv

\* A producer's push gives the consumer no reason to have stopped.
LEMMA PushKeeps == ASSUME PollInv, NEW p \in Producers, Push(p) PROVE PollInv'
<1>1. PICK v \in Items : queues' = [queues EXCEPT ![p] = Append(@, v)]
  BY DEF Push
<1>2. /\ Len(queues[p]) < CapacityPerProducer
      /\ UNCHANGED <<next_poll_idx, cpc, i, result, waiting, bypassed>>
  BY DEF Push
<1>3. /\ queues \in [Producers -> Seq(Items)]
      /\ \A q \in Producers : Len(queues[q]) <= CapacityPerProducer
  BY DEF PollInv, TypeOK
<1>4. /\ Append(queues[p], v) \in Seq(Items) /\ Append(queues[p], v) # << >>
      /\ Len(Append(queues[p], v)) = Len(queues[p]) + 1
  <2>1. queues[p] \in Seq(Items)
    BY <1>3
  <2>2. /\ Append(queues[p], v) \in Seq(Items)
        /\ Len(Append(queues[p], v)) = Len(queues[p]) + 1 /\ Len(queues[p]) \in Nat
    BY <2>1
  <2> QED  BY <2>2
<1>5. \A q \in Producers : queues'[q] = IF q = p THEN Append(queues[p], v) ELSE queues[q]
  BY <1>1, <1>3
<1>6. Len(queues[p]) \in Nat /\ CapacityPerProducer \in Nat
  BY <1>3, ProducersAssumption
<1>7. TypeOK'
  <2>1. queues' \in [Producers -> Seq(Items)]
    BY <1>1, <1>3, <1>4
  <2>2. \A q \in Producers : Len(queues'[q]) <= CapacityPerProducer
    <3>1. Len(queues'[p]) <= CapacityPerProducer
      <4>1. Len(queues'[p]) = Len(queues[p]) + 1
        BY <1>4, <1>5
      <4> QED  BY <1>2, <1>6, <4>1
    <3> QED  BY <1>3, <1>5, <3>1
  <2> QED  BY <1>2, <2>1, <2>2 DEF PollInv, TypeOK
<1>8. NothingMissed'
  BY <1>2 DEF PollInv, NothingMissed
<1>9. waiting \subseteq Producers
  BY DEF PollInv, TypeOK
<1>10. ScanPassedEmpty'
  BY <1>2, <1>4, <1>5, <1>9 DEF PollInv, ScanPassedEmpty, DistanceTo
<1>11. Nearer'
  BY <1>2, <1>4, <1>5 DEF PollInv, Nearer, DistanceTo
<1> QED  BY <1>7, <1>8, <1>10, <1>11 DEF PollInv

\* A scan begins before it has passed anybody.
LEMMA PopCallKeeps == PollInv /\ PopCall => PollInv'
<1> SUFFICES ASSUME PollInv, PopCall PROVE PollInv'
  OBVIOUS
<1>1. /\ cpc' = "scan" /\ i' = 0 /\ waiting' = HasItem
      /\ UNCHANGED <<queues, next_poll_idx, result, bypassed>>
  BY DEF PopCall
<1>2. NumProducers \in Nat \ {0} /\ 0 \in Producers
  BY ProducersAssumption DEF Producers
<1>3. TypeOK'
  BY <1>1, <1>2 DEF PollInv, TypeOK, HasItem
<1>4. NothingMissed'
  BY <1>1 DEF NothingMissed
<1>5. \A p \in Producers : DistanceTo(p) \in 0..(NumProducers - 1)
                           /\ DistanceTo(p)' = DistanceTo(p)
  BY <1>1, PollIdxDistance DEF PollInv, DistanceTo
<1>6. ScanPassedEmpty'
  BY <1>1, <1>2, <1>5 DEF ScanPassedEmpty, HasItem
<1>7. Nearer'
  BY <1>1, <1>5 DEF PollInv, Nearer
<1> QED  BY <1>3, <1>4, <1>6, <1>7 DEF PollInv

\* The scan finds an item: whoever else has one is nearer to being served.
LEMMA TakeKeeps ==
    ASSUME PollInv, cpc = "scan", queues[PollIdx] # << >>,
           result' = Head(queues[PollIdx]),
           queues' = [queues EXCEPT ![PollIdx] = Tail(@)],
           next_poll_idx' = AfterServing(PollIdx),
           cpc' = "idle", i' = 0, UNCHANGED waiting,
           bypassed' = [p \in Producers |->
                          IF p = PollIdx \/ p \notin HasItem THEN 0 ELSE bypassed[p] + 1]
    PROVE  PollInv'
<1> DEFINE idx == PollIdx
<1>1. /\ NumProducers \in Nat \ {0} /\ CapacityPerProducer \in Nat /\ 0 \in Producers
      /\ i \in Nat /\ i < NumProducers
  BY ProducersAssumption DEF Producers, PollInv, TypeOK
<1>2. /\ idx \in Producers /\ DistanceTo(idx) = i
      /\ \A p \in Producers : DistanceTo(p) \in 0..(NumProducers - 1)
      /\ \A p \in Producers : DistanceTo(p) = i => p = idx
  BY PollIdxDistance DEF PollInv
<1>3. /\ next_poll_idx' \in Producers
      /\ \A p \in Producers :
            DistanceTo(p)' = IF DistanceTo(p) > i THEN DistanceTo(p) - i - 1
                             ELSE DistanceTo(p) + NumProducers - i - 1
  BY <1>2, AfterServingDistance DEF PollInv
<1> HIDE DEF idx
<1>4. /\ queues \in [Producers -> Seq(Items)]
      /\ \A q \in Producers : Len(queues[q]) <= CapacityPerProducer
      /\ bypassed \in [Producers -> Nat]
  BY DEF PollInv, TypeOK
<1>5. /\ Head(queues[idx]) \in Items /\ Tail(queues[idx]) \in Seq(Items)
      /\ Len(Tail(queues[idx])) = Len(queues[idx]) - 1 /\ Len(queues[idx]) \in Nat
  BY <1>2, <1>4 DEF idx
<1>6. \A q \in Producers : queues'[q] = IF q = idx THEN Tail(queues[idx]) ELSE queues[q]
  BY <1>2, <1>4 DEF idx
<1>7. \A p \in Producers : bypassed'[p] = IF p = idx \/ queues[p] = << >> THEN 0
                                         ELSE bypassed[p] + 1
  BY DEF HasItem, idx
<1>8. TypeOK'
  <2>1. queues' \in [Producers -> Seq(Items)]
    BY <1>2, <1>4, <1>5 DEF idx
  <2>2. \A q \in Producers : Len(queues'[q]) <= CapacityPerProducer
    BY <1>1, <1>2, <1>4, <1>5, <1>6
  <2>3. bypassed' \in [Producers -> Nat]
    BY <1>4
  <2>4. result' \in Items
    BY <1>5 DEF idx
  <2> QED  BY <1>1, <1>3, <2>1, <2>2, <2>3, <2>4 DEF PollInv, TypeOK
<1>9. NothingMissed'
  BY <1>5, ProducersAssumption DEF NothingMissed, idx
<1>10. ScanPassedEmpty'
  BY DEF ScanPassedEmpty
<1>11. Nearer'
  <2> SUFFICES ASSUME NEW p \in Producers
               PROVE  /\ queues'[p] = << >> => bypassed'[p] = 0
                      /\ bypassed'[p] + DistanceTo(p)' <= NumProducers - 1
    BY DEF Nearer
  <2>1. /\ DistanceTo(p) \in Nat /\ DistanceTo(p) <= NumProducers - 1
        /\ bypassed[p] \in Nat
        /\ bypassed[p] + DistanceTo(p) <= NumProducers - 1
        /\ DistanceTo(p) < i => bypassed[p] = 0
    BY <1>1, <1>2, <1>4 DEF PollInv, Nearer, ScanPassedEmpty
  <2>2. DistanceTo(p)' = IF DistanceTo(p) > i THEN DistanceTo(p) - i - 1
                         ELSE DistanceTo(p) + NumProducers - i - 1
    BY <1>3
  <2>3. CASE p = idx \/ queues[p] = << >>
    BY <1>1, <1>7, <2>1, <2>2, <2>3
  <2>4. CASE p # idx /\ queues[p] # << >>
    <3>1. queues'[p] # << >> /\ bypassed'[p] = bypassed[p] + 1 /\ DistanceTo(p) # i
      BY <1>2, <1>6, <1>7, <2>4
    <3> QED  BY <1>1, <2>1, <2>2, <3>1
  <2> QED  BY <2>3, <2>4
<1> QED  BY <1>8, <1>9, <1>10, <1>11 DEF PollInv

\* The scan finds an inner queue empty: its producer had nothing when the scan
\* began, for the scan has taken nothing.  After the last one, nobody had.
LEMMA SkipKeeps ==
    ASSUME PollInv, cpc = "scan", queues[PollIdx] = << >>,
           IF LastPoll THEN cpc' = "idle" /\ i' = 0 /\ result' = NoItem
                       ELSE i' = i + 1 /\ UNCHANGED <<cpc, result>>,
           UNCHANGED <<queues, next_poll_idx, bypassed, waiting>>
    PROVE  PollInv'
<1>1. /\ NumProducers \in Nat \ {0} /\ 0 \in Producers
      /\ i \in Nat /\ i < NumProducers
  BY ProducersAssumption DEF Producers, PollInv, TypeOK
<1>2. /\ PollIdx \in Producers /\ waiting \subseteq Producers
      /\ \A p \in Producers : /\ DistanceTo(p) \in 0..(NumProducers - 1)
                              /\ DistanceTo(p)' = DistanceTo(p)
                              /\ DistanceTo(p) = i => p = PollIdx
  BY PollIdxDistance DEF PollInv, TypeOK, DistanceTo
<1>3. /\ \A p \in waiting : queues[p] # << >> /\ DistanceTo(p) > i
      /\ \A p \in Producers : DistanceTo(p) <= i => bypassed[p] = 0
  <2>1. /\ \A p \in waiting : queues[p] # << >> /\ DistanceTo(p) >= i
        /\ \A p \in Producers : DistanceTo(p) < i => bypassed[p] = 0
        /\ bypassed[PollIdx] = 0
    BY <1>2 DEF PollInv, ScanPassedEmpty, Nearer
  <2>2. \A p \in waiting : DistanceTo(p) # i
    BY <1>2, <2>1
  <2> QED  BY <1>1, <1>2, <2>1, <2>2
<1>4. TypeOK'
  BY <1>1 DEF PollInv, TypeOK, LastPoll, Producers
<1>5. NothingMissed'
  <2>1. CASE LastPoll
    <3>1. waiting = {}
      BY <1>1, <1>2, <1>3, <2>1 DEF LastPoll
    <3> QED  BY <3>1 DEF NothingMissed
  <2>2. CASE ~LastPoll
    BY <2>2 DEF NothingMissed
  <2> QED  BY <2>1, <2>2
<1>6. ScanPassedEmpty'
  <2>1. CASE LastPoll
    BY <2>1 DEF ScanPassedEmpty
  <2>2. CASE ~LastPoll
    BY <1>1, <1>2, <1>3, <2>2 DEF ScanPassedEmpty
  <2> QED  BY <2>1, <2>2
<1>7. Nearer'
  BY <1>2 DEF PollInv, Nearer
<1> QED  BY <1>4, <1>5, <1>6, <1>7 DEF PollInv

\* Every step keeps the invariant.
LEMMA PollKept == PollInv /\ [Next]_vars => PollInv'
<1> SUFFICES ASSUME PollInv, [Next]_vars PROVE PollInv'
  OBVIOUS
<1>1. CASE Poll
  BY <1>1, TakeKeeps, SkipKeeps DEF Poll
<1>2. CASE UNCHANGED vars
  BY <1>2 DEF vars, PollInv, TypeOK, NothingMissed, ScanPassedEmpty, Nearer, DistanceTo
<1> QED  BY <1>1, <1>2, PushKeeps, PopCallKeeps DEF Next
-----------------------------------------------------------------------------
(* The theorems.                                                           *)

\* The invariant of the consumer's scan holds in every reachable state.
THEOREM PollInvariant == Spec => []PollInv
<1> QED  BY PollStarts, PollKept, PTL DEF Spec

\* The queues keep their bound, and the consumer's indices stay among them.
THEOREM TypeCorrect == Spec => []TypeOK
<1>1. PollInv => TypeOK
  BY DEF PollInv
<1> QED  BY <1>1, PollInvariant, PTL

\* pop's false is true of the moment it was called, for any number of producers
\* pushing during its scan.
THEOREM FalseMeansEmpty == Spec => []NothingMissed
<1>1. PollInv => NothingMissed
  BY DEF PollInv
<1> QED  BY <1>1, PollInvariant, PTL

\* Round-robin polling is fair: at most one item of each other producer goes
\* before the first of a producer that has one.
THEOREM PollingFair == Spec => []BypassBounded
<1>1. ASSUME PollInv PROVE BypassBounded
  <2>1. \A p \in Producers : /\ DistanceTo(p) \in 0..(NumProducers - 1)
                             /\ bypassed[p] \in Nat
                             /\ bypassed[p] + DistanceTo(p) <= NumProducers - 1
    BY <1>1, PollIdxDistance DEF PollInv, TypeOK, Nearer
  <2> QED  BY <2>1, ProducersAssumption DEF BypassBounded
<1> QED  BY <1>1, PollInvariant, PTL
=============================================================================
