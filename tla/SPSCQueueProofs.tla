-------------------------- MODULE SPSCQueueProofs ---------------------------
(***************************************************************************)
(* Proofs about SPSCQueue, for every capacity, every set of items and every*)
(* modulus of the counters: the two threads never touch a slot at the same *)
(* time, what each believes about the other errs on the safe side, and the *)
(* ring buffer implements the bounded FIFO queue of BoundedQueue.          *)
(***************************************************************************)
EXTENDS SPSCQueue, SequenceTheorems, TLAPS

(* Arithmetic on a ring of M numbers.                                      *)

\* A number is told by its quotient and its remainder.
LEMMA RemainderUnique ==
    ASSUME NEW M \in Nat \ {0}, NEW a \in Int, NEW q \in Int, NEW r \in 0..(M - 1),
           a = (M * q) + r
    PROVE  a % M = r
  OBVIOUS

\* Whole turns of the ring do not count.
LEMMA WholeTurns ==
    ASSUME NEW M \in Nat \ {0}, NEW a \in Int, NEW k \in Int
    PROVE  (a + (M * k)) % M = a % M
<1> DEFINE q == a \div M
           r == a % M
<1>1. q \in Int /\ r \in 0..(M - 1) /\ a = (M * q) + r
  OBVIOUS
<1>2. a + (M * k) = (M * (q + k)) + r /\ q + k \in Int /\ a + (M * k) \in Int
  BY <1>1
<1> HIDE DEF q, r
<1>3. (a + (M * k)) % M = r
  BY <1>1, <1>2, RemainderUnique
<1> QED  BY <1>3 DEF r

\* Nor does the one turn a sum of two numbers of the ring can make.
LEMMA OneTurn ==
    ASSUME NEW M \in Nat \ {0}, NEW r \in 0..(M - 1)
    PROVE  r % M = r /\ (r + M) % M = r
<1>1. r + M = (M * 1) + r /\ r + M \in Int
  OBVIOUS
<1>2. (r + M) % M = r
  BY <1>1, RemainderUnique
<1> QED  BY <1>2

\* Numbers less than a turn apart have different remainders.
LEMMA ApartOnRing ==
    ASSUME NEW M \in Nat \ {0}, NEW a \in Int, NEW b \in Int, a < b, b - a < M
    PROVE  a % M # b % M
<1> DEFINE q == a \div M
           r == a % M
           s == b \div M
           t == b % M
<1>1. q \in Int /\ r \in 0..(M - 1) /\ a = (M * q) + r
  OBVIOUS
<1>2. s \in Int /\ t \in 0..(M - 1) /\ b = (M * s) + t
  OBVIOUS
<1> HIDE DEF q, r, s, t
<1>3. ASSUME r = t PROVE FALSE
  <2>1. b - a = M * (s - q)
    BY <1>1, <1>2, <1>3
  <2>2. s - q \in Int /\ s - q > 0
    BY <1>1, <1>2, <2>1
  <2>3. M * (s - q) >= M
    BY <2>2
  <2> QED  BY <2>1, <2>3
<1> QED  BY <1>3 DEF r, t

\* The counters have at least three values and a slot each, the same slot at
\* the same place of every turn.
LEMMA Ring ==
    /\ Capacity \in Nat \ {0} /\ CounterMod \in Nat \ {0} /\ CounterMod > Capacity + 1
    /\ \E k \in Int : CounterMod = Capacity * k
<1>1. Capacity \in Nat \ {0} /\ CounterMod \in Nat /\ CounterMod > Capacity + 1
      /\ CounterMod % Capacity = 0
  BY RingAssumption
<1> DEFINE k == CounterMod \div Capacity
<1>2. CounterMod = (Capacity * k) + (CounterMod % Capacity) /\ k \in Int
  BY <1>1
<1> HIDE DEF k
<1>3. CounterMod = Capacity * k
  BY <1>1, <1>2
<1> QED  BY <1>1, <1>2, <1>3

\* How a counter goes on: it wraps at CounterMod.
LEMMA CounterStep ==
    ASSUME NEW n \in Counters
    PROVE  /\ Succ(n) = IF n = CounterMod - 1 THEN 0 ELSE n + 1
           /\ Succ(n) \in Counters
<1>1. CounterMod \in Nat \ {0}
  BY Ring
<1>2. CASE n = CounterMod - 1
  <2>1. n + 1 = (CounterMod * 1) + 0
    BY <1>1, <1>2
  <2>2. (n + 1) % CounterMod = 0
    BY <1>1, <2>1, RemainderUnique
  <2> QED  BY <1>1, <1>2, <2>2 DEF Succ, Counters
<1>3. CASE n # CounterMod - 1
  BY <1>1, <1>3 DEF Succ, Counters
<1> QED  BY <1>2, <1>3

\* How far a counter is ahead of another, the unsigned difference of the code.
LEMMA Distance ==
    ASSUME NEW m \in Counters, NEW n \in Counters
    PROVE  /\ Minus(m, n) = IF m >= n THEN m - n ELSE m - n + CounterMod
           /\ Minus(m, n) \in Counters /\ Minus(m, n) \in Nat
           /\ Minus(m, n) = 0 <=> m = n
<1>1. CounterMod \in Nat \ {0}
  BY Ring
<1> QED  BY <1>1 DEF Minus, Counters
\* What a load may return lies between what the thread saw and what is there.
LEMMA Between ==
    ASSUME NEW seen \in Counters, NEW now \in Counters, NEW c \in Visible(seen, now)
    PROVE  /\ c \in Counters
           /\ Minus(c, seen) <= Minus(now, seen)
           /\ Minus(now, c) = Minus(now, seen) - Minus(c, seen)
<1>1. CounterMod \in Nat \ {0}
  BY Ring
<1>2. Minus(now, seen) \in Counters
  BY Distance
<1>3. PICK k \in 0..Minus(now, seen) : c = (seen + k) % CounterMod
  BY DEF Visible
<1>4. /\ seen \in Nat /\ seen < CounterMod /\ k \in Nat /\ k < CounterMod
      /\ now \in Nat /\ now < CounterMod
  BY <1>1, <1>2, <1>3 DEF Counters
<1>5. c = IF seen + k < CounterMod THEN seen + k ELSE seen + k - CounterMod
  <2>1. CASE seen + k < CounterMod
    BY <1>1, <1>3, <1>4, <2>1
  <2>2. CASE seen + k >= CounterMod
    <3>1. PICK r \in 0..(CounterMod - 1) : seen + k = r + CounterMod
      BY <1>1, <1>4, <2>2
    <3>2. (seen + k) % CounterMod = r
      BY <1>1, <3>1, OneTurn
    <3> QED  BY <1>1, <1>3, <1>4, <2>2, <3>1, <3>2
  <2> QED  BY <1>1, <1>4, <2>1, <2>2
<1>6. c \in Counters
  BY <1>1, <1>4, <1>5 DEF Counters
<1>7. Minus(c, seen) = k
  <2>1. Minus(c, seen) = IF c >= seen THEN c - seen ELSE c - seen + CounterMod
    BY <1>6, Distance
  <2> QED  BY <1>1, <1>4, <1>5, <2>1
<1>8. Minus(now, c) = Minus(now, seen) - k
  <2>1. Minus(now, c) = IF now >= c THEN now - c ELSE now - c + CounterMod
    BY <1>6, Distance
  <2>2. Minus(now, seen) = IF now >= seen THEN now - seen ELSE now - seen + CounterMod
    BY Distance
  <2>3. k <= Minus(now, seen)
    BY <1>2, <1>3 DEF Counters
  <2> QED  BY <1>1, <1>4, <1>5, <2>1, <2>2, <2>3
<1> QED  BY <1>2, <1>3, <1>6, <1>7, <1>8 DEF Counters

\* A counter at distance d ahead of another has the slot d places on.
LEMMA SlotAhead ==
    ASSUME NEW m \in Counters, NEW n \in Counters
    PROVE  Slot(m) = Slot(n + Minus(m, n))
<1>1. /\ Capacity \in Nat \ {0} /\ CounterMod \in Nat \ {0}
      /\ \E k \in Int : CounterMod = Capacity * k
  BY Ring
<1>2. PICK k \in Int : CounterMod = Capacity * k
  BY <1>1
<1>3. m \in Int /\ n \in Int
  BY <1>1 DEF Counters
<1>4. n + Minus(m, n) = m \/ n + Minus(m, n) = m + (Capacity * k)
  <2>1. Minus(m, n) = IF m >= n THEN m - n ELSE m - n + CounterMod
    BY Distance
  <2>2. n + Minus(m, n) = m \/ n + Minus(m, n) = m + CounterMod
    BY <1>1, <1>3, <2>1
  <2> QED  BY <1>2, <2>2
<1>5. (m + (Capacity * k)) % Capacity = m % Capacity
  BY <1>1, <1>3, WholeTurns
<1> QED  BY <1>4, <1>5 DEF Slot

\* The slots after a counter's successor are those after the counter.
LEMMA SlotAfterStep ==
    ASSUME NEW n \in Counters, NEW j \in Int
    PROVE  Slot(Succ(n) + j) = Slot(n + 1 + j)
<1>1. /\ Capacity \in Nat \ {0} /\ CounterMod \in Nat \ {0}
      /\ \E k \in Int : CounterMod = Capacity * k
  BY Ring
<1>2. PICK k \in Int : CounterMod = Capacity * k
  BY <1>1
<1>3. n + 1 + j = Succ(n) + j \/ n + 1 + j = Succ(n) + j + (Capacity * k)
  BY <1>1, <1>2, CounterStep DEF Counters
<1>4. Succ(n) + j \in Int
  BY <1>1, CounterStep DEF Counters
<1>5. (Succ(n) + j + (Capacity * k)) % Capacity = (Succ(n) + j) % Capacity
  BY <1>1, <1>2, <1>4, WholeTurns
<1> QED  BY <1>3, <1>5 DEF Slot

\* Every number has a slot of the buffer, and two numbers less than Capacity
\* apart have different ones.
LEMMA Slots ==
    /\ \A a \in Int : Slot(a) \in 0..(Capacity - 1)
    /\ \A a, b \in Int : a < b /\ b - a < Capacity => Slot(a) # Slot(b)
<1>1. Capacity \in Nat \ {0}
  BY Ring
<1>2. \A a \in Int : Slot(a) \in 0..(Capacity - 1)
  BY <1>1 DEF Slot
<1>3. \A a, b \in Int : a < b /\ b - a < Capacity => Slot(a) # Slot(b)
  BY <1>1, ApartOnRing DEF Slot
<1> QED  BY <1>2, <1>3
\* Distances add up along the ring.
LEMMA DistancesAdd ==
    ASSUME NEW a \in Counters, NEW b \in Counters, NEW c \in Counters,
           Minus(b, a) <= Minus(c, a)
    PROVE  Minus(c, b) = Minus(c, a) - Minus(b, a)
<1>1. CounterMod \in Nat \ {0}
  BY Ring
<1>2. /\ a \in Nat /\ a < CounterMod /\ b \in Nat /\ b < CounterMod
      /\ c \in Nat /\ c < CounterMod
  BY <1>1 DEF Counters
<1>3. /\ Minus(b, a) = IF b >= a THEN b - a ELSE b - a + CounterMod
      /\ Minus(c, a) = IF c >= a THEN c - a ELSE c - a + CounterMod
      /\ Minus(c, b) = IF c >= b THEN c - b ELSE c - b + CounterMod
  BY Distance
<1> QED  BY <1>1, <1>2, <1>3

\* A step of the counter in front adds one to a distance, short of a full turn,
\* and a step of the counter behind takes one off it.
LEMMA DistanceStep ==
    ASSUME NEW m \in Counters, NEW n \in Counters
    PROVE  /\ Minus(m, n) < CounterMod - 1 => Minus(Succ(m), n) = Minus(m, n) + 1
           /\ m # n => Minus(m, Succ(n)) = Minus(m, n) - 1
<1>1. CounterMod \in Nat \ {0}
  BY Ring
<1>2. m \in Nat /\ m < CounterMod /\ n \in Nat /\ n < CounterMod
  BY <1>1 DEF Counters
<1>3. /\ Succ(m) \in Counters /\ Succ(n) \in Counters
      /\ Succ(m) = IF m = CounterMod - 1 THEN 0 ELSE m + 1
      /\ Succ(n) = IF n = CounterMod - 1 THEN 0 ELSE n + 1
  BY CounterStep
<1>4. /\ Minus(m, n) = IF m >= n THEN m - n ELSE m - n + CounterMod
      /\ Minus(Succ(m), n) = IF Succ(m) >= n THEN Succ(m) - n ELSE Succ(m) - n + CounterMod
      /\ Minus(m, Succ(n)) = IF m >= Succ(n) THEN m - Succ(n) ELSE m - Succ(n) + CounterMod
  BY <1>3, Distance
<1> QED  BY <1>1, <1>2, <1>3, <1>4
-----------------------------------------------------------------------------
(* The inductive invariant.                                                *)

\* Until push returns the item is at hand; past its test there is room for it;
\* once written it stands in the slot about to be published.
Pushing ==
    /\ ppc \in {"reload", "write", "publish"} => item \in Items
    /\ ppc \in {"write", "publish"} => Minus(tail, head_cached) < Capacity
    /\ ppc = "publish" => buffer[Slot(tail)] = item

\* Between pop's test and its release store there is an item to take, and what
\* was read is what still stands in its slot.
Popping ==
    /\ cpc \in {"read", "release"} => head # tail_cached
    /\ cpc = "release" => out = buffer[Slot(head)]

\* The slots from the head up to the tail hold items.
WaitingItems == \A n \in 1..Minus(tail, head) : buffer[Slot(head + n - 1)] \in Items

RingInv ==
    /\ TypeOK /\ CachesConservative /\ SizeInRange
    /\ Pushing /\ Popping /\ WaitingItems

\* What the two copies together say of the ring: no more than Capacity items
\* wait, and a consumer whose copy differs from its counter has one to take.
LEMMA Fill ==
    ASSUME TypeOK, CachesConservative
    PROVE  /\ Minus(tail, head) = Minus(tail, head_cached) - Minus(head, head_cached)
           /\ Minus(tail, head) \in 0..Capacity
           /\ head # tail_cached => Minus(tail, head) > 0
<1>1. /\ tail \in Counters /\ head \in Counters
      /\ head_cached \in Counters /\ tail_cached \in Counters
  BY DEF TypeOK
<1>2. Minus(tail, head) = Minus(tail, head_cached) - Minus(head, head_cached)
  BY <1>1, DistancesAdd DEF CachesConservative
<1>3. /\ Minus(tail, head_cached) \in Nat /\ Minus(head, head_cached) \in Nat
      /\ Minus(tail, head) \in Nat /\ Minus(tail_cached, head) \in Nat
      /\ Capacity \in Nat
  BY <1>1, Distance, Ring
<1>4. Minus(tail, head) \in 0..Capacity
  BY <1>2, <1>3 DEF CachesConservative
<1>5. head # tail_cached => Minus(tail_cached, head) # 0
  BY <1>1, Distance
<1> QED  BY <1>2, <1>3, <1>4, <1>5 DEF CachesConservative

\* While the producer is past its test the tail's slot is none of those that
\* hold waiting items.
LEMMA TailSlotFree ==
    ASSUME RingInv, ppc \in {"write", "publish"}
    PROVE  /\ Minus(tail, head) < Capacity
           /\ Slot(tail) = Slot(head + Minus(tail, head))
           /\ \A n \in 1..Minus(tail, head) : Slot(head + n - 1) # Slot(tail)
<1>1. tail \in Counters /\ head \in Counters /\ head_cached \in Counters
  BY DEF RingInv, TypeOK
<1>2. /\ Minus(tail, head) = Minus(tail, head_cached) - Minus(head, head_cached)
      /\ Minus(tail, head) \in 0..Capacity
  BY Fill DEF RingInv
<1>3. Minus(tail, head_cached) < Capacity /\ Minus(tail, head_cached) \in Nat
      /\ Minus(head, head_cached) \in Nat
  BY <1>1, Distance, Ring DEF RingInv, Pushing
<1>4. Minus(tail, head) < Capacity
  BY <1>2, <1>3, Ring
<1>5. Slot(tail) = Slot(head + Minus(tail, head))
  BY <1>1, SlotAhead
<1>6. ASSUME NEW n \in 1..Minus(tail, head) PROVE Slot(head + n - 1) # Slot(tail)
  <2>1. head \in Int /\ n \in Int /\ Minus(tail, head) \in Int /\ Capacity \in Nat
    BY <1>1, <1>2, Ring DEF Counters
  <2> DEFINE a == head + n - 1
             b == head + Minus(tail, head)
  <2>2. a \in Int /\ b \in Int /\ a < b /\ b - a < Capacity
    BY <1>2, <1>4, <1>6, <2>1
  <2> HIDE DEF a, b
  <2>3. Slot(a) # Slot(b)
    BY <2>2, Slots
  <2> QED  BY <1>5, <2>3 DEF a, b
<1> QED  BY <1>4, <1>5, <1>6

\* While the consumer is past its test the head's slot holds a waiting item.
LEMMA HeadSlotWaits ==
    ASSUME RingInv, cpc \in {"read", "release"}
    PROVE  /\ Minus(tail, head) > 0 /\ 1 \in 1..Minus(tail, head)
           /\ buffer[Slot(head)] \in Items
           /\ ppc \in {"write", "publish"} => Slot(head) # Slot(tail)
<1>1. tail \in Counters /\ head \in Counters
  BY DEF RingInv, TypeOK
<1>2. Minus(tail, head) > 0 /\ Minus(tail, head) \in Nat
  BY <1>1, Fill, Distance, Ring DEF RingInv, Popping, Counters
<1>3. 1 \in 1..Minus(tail, head)
  BY <1>2
<1>4. head + 1 - 1 = head
  BY <1>1, Ring DEF Counters
<1>5. buffer[Slot(head)] \in Items
  BY <1>3, <1>4 DEF RingInv, WaitingItems
<1>6. ppc \in {"write", "publish"} => Slot(head) # Slot(tail)
  BY <1>3, <1>4, TailSlotFree
<1> QED  BY <1>2, <1>3, <1>5, <1>6

\* A step that moves neither counter nor slot keeps what waits.
LEMMA WaitingUnmoved ==
    ASSUME WaitingItems, UNCHANGED <<head, tail, buffer>>
    PROVE  WaitingItems' /\ Waiting' = Waiting
  BY DEF WaitingItems, Waiting, Minus, Slot

\* A head the producer may load leaves the distance to its tail within Capacity.
LEMMA WrittenBehind ==
    ASSUME TypeOK, CachesConservative, NEW h \in Visible(head_cached, head)
    PROVE  /\ h \in Counters
           /\ Minus(tail, h) \in Nat /\ Minus(tail, h) <= Capacity
           /\ Minus(head, h) <= Minus(tail, h)
<1>1. tail \in Counters /\ head_cached \in Counters /\ head \in Counters
  BY DEF TypeOK
<1>2. /\ h \in Counters /\ Minus(h, head_cached) <= Minus(head, head_cached)
      /\ Minus(head, h) = Minus(head, head_cached) - Minus(h, head_cached)
  BY <1>1, Between
<1>3. /\ Minus(h, head_cached) \in Nat /\ Minus(head, head_cached) \in Nat
      /\ Minus(tail, head_cached) \in Nat /\ Minus(tail, h) \in Nat
      /\ Capacity \in Nat
  BY <1>1, <1>2, Distance, Ring
<1>4. /\ Minus(tail, head_cached) <= Capacity
      /\ Minus(head, head_cached) <= Minus(tail, head_cached)
  BY DEF CachesConservative
<1>5. Minus(tail, h) = Minus(tail, head_cached) - Minus(h, head_cached)
  BY <1>1, <1>2, <1>3, <1>4, DistancesAdd
<1> QED  BY <1>2, <1>3, <1>4, <1>5

\* A tail the consumer may load is not ahead of the tail.
LEMMA ReadAhead ==
    ASSUME TypeOK, CachesConservative, NEW t \in Visible(tail_cached, tail)
    PROVE  t \in Counters /\ Minus(t, head) <= Minus(tail, head)
<1>1. tail \in Counters /\ tail_cached \in Counters /\ head \in Counters
  BY DEF TypeOK
<1>2. /\ t \in Counters /\ Minus(t, tail_cached) <= Minus(tail, tail_cached)
      /\ Minus(tail, t) = Minus(tail, tail_cached) - Minus(t, tail_cached)
  BY <1>1, Between
<1>3. CounterMod \in Nat \ {0} /\ Minus(tail_cached, head) <= Minus(tail, head)
  BY Ring DEF CachesConservative
<1>4. /\ tail \in Nat /\ tail < CounterMod /\ head \in Nat /\ head < CounterMod
      /\ t \in Nat /\ t < CounterMod /\ tail_cached \in Nat /\ tail_cached < CounterMod
  BY <1>1, <1>2, <1>3 DEF Counters
<1>5. /\ Minus(t, head) = IF t >= head THEN t - head ELSE t - head + CounterMod
      /\ Minus(tail, head) = IF tail >= head THEN tail - head ELSE tail - head + CounterMod
      /\ Minus(tail, t) = IF tail >= t THEN tail - t ELSE tail - t + CounterMod
      /\ Minus(t, tail_cached) = IF t >= tail_cached THEN t - tail_cached
                                 ELSE t - tail_cached + CounterMod
      /\ Minus(tail, tail_cached) = IF tail >= tail_cached THEN tail - tail_cached
                                    ELSE tail - tail_cached + CounterMod
      /\ Minus(tail_cached, head) = IF tail_cached >= head THEN tail_cached - head
                                    ELSE tail_cached - head + CounterMod
  BY <1>1, <1>2, Distance
<1> QED  BY <1>2, <1>3, <1>4, <1>5
-----------------------------------------------------------------------------
(* Every step keeps the invariant.                                         *)

\* push tests for room with the copy of the head it has ...
LEMMA PushCallKeeps == RingInv /\ PushCall => RingInv'
<1> SUFFICES ASSUME RingInv, PushCall PROVE RingInv'
  OBVIOUS
<1>1. /\ item' \in Items /\ ppc' \in {"reload", "write"}
      /\ ppc' = "write" => ~Full(head_cached)
      /\ UNCHANGED <<tail, head_cached, buffer, sized, head, tail_cached, cpc, out, popped>>
  BY DEF PushCall, consumer
<1>2. TypeOK'
  BY <1>1 DEF RingInv, TypeOK
<1>3. CachesConservative' /\ SizeInRange'
  BY <1>1 DEF RingInv, CachesConservative, SizeInRange, Minus
<1>4. Pushing'
  <2>1. tail \in Counters /\ head_cached \in Counters
    BY DEF RingInv, TypeOK
  <2>2. Minus(tail, head_cached) \in Nat /\ Minus(tail, head_cached) <= Capacity
    BY <2>1, Distance, Ring DEF RingInv, CachesConservative
  <2>3. Minus(Succ(tail), head_cached) = Minus(tail, head_cached) + 1
    BY <2>1, <2>2, DistanceStep, Ring
  <2>4. ppc' = "write" => Minus(tail, head_cached) < Capacity
    BY <1>1, <2>2, <2>3, Ring DEF Full
  <2>5. Minus(tail, head_cached)' = Minus(tail, head_cached)
    BY <1>1 DEF Minus
  <2> QED  BY <1>1, <2>4, <2>5 DEF Pushing
<1>5. Popping'
  BY <1>1 DEF RingInv, Popping, Slot
<1>6. WaitingItems'
  BY <1>1, WaitingUnmoved DEF RingInv
<1> QED  BY <1>2, <1>3, <1>4, <1>5, <1>6 DEF RingInv

\* ... and again with any head the acquire load may return.
LEMMA ReloadHeadKeeps ==
    ASSUME RingInv, NEW h \in Visible(head_cached, head), ReloadHead(h)
    PROVE  RingInv'
<1>1. /\ head_cached' = h /\ ppc = "reload" /\ ppc' \in {"refused", "write"}
      /\ ppc' = "write" => ~Full(h)
      /\ UNCHANGED <<tail, item, buffer, sized, head, tail_cached, cpc, out, popped>>
  BY DEF ReloadHead, consumer
<1>2. /\ h \in Counters /\ tail \in Counters
      /\ Minus(tail, h) \in Nat /\ Minus(tail, h) <= Capacity
      /\ Minus(head, h) <= Minus(tail, h)
  BY WrittenBehind DEF RingInv, TypeOK
<1>3. TypeOK'
  BY <1>1, <1>2 DEF RingInv, TypeOK
<1>4. CachesConservative'
  BY <1>1, <1>2 DEF RingInv, CachesConservative, Minus
<1>5. Pushing'
  <2>1. Minus(Succ(tail), h) = Minus(tail, h) + 1
    BY <1>2, DistanceStep, Ring
  <2>2. ppc' = "write" => Minus(tail, h) < Capacity
    BY <1>1, <1>2, <2>1, Ring DEF Full
  <2>3. item \in Items
    BY <1>1 DEF RingInv, Pushing
  <2> QED  BY <1>1, <2>2, <2>3 DEF Pushing, Minus
<1>6. SizeInRange' /\ Popping'
  BY <1>1 DEF RingInv, SizeInRange, Popping, Slot
<1>7. WaitingItems'
  BY <1>1, WaitingUnmoved DEF RingInv
<1> QED  BY <1>3, <1>4, <1>5, <1>6, <1>7 DEF RingInv

\* The write fills the tail's slot, which is free.
LEMMA WriteKeeps == RingInv /\ Write => RingInv'
<1> SUFFICES ASSUME RingInv, Write PROVE RingInv'
  OBVIOUS
<1>1. /\ ppc = "write" /\ ppc' = "publish"
      /\ buffer' = [buffer EXCEPT ![Slot(tail)] = item]
      /\ UNCHANGED <<tail, head_cached, item, sized, head, tail_cached, cpc, out, popped>>
  BY DEF Write, consumer
<1>2. tail \in Counters /\ head \in Counters /\ item \in Items
      /\ buffer \in [0..(Capacity - 1) -> Items \cup {NoItem}]
  BY <1>1 DEF RingInv, TypeOK, Pushing
<1>3. Slot(tail) \in 0..(Capacity - 1)
  BY <1>2, Slots, Ring DEF Counters
<1>4. TypeOK'
  BY <1>1, <1>2, <1>3 DEF RingInv, TypeOK
<1>5. CachesConservative' /\ SizeInRange'
  BY <1>1 DEF RingInv, CachesConservative, SizeInRange, Minus
<1>6. Pushing'
  <2>1. buffer'[Slot(tail)] = item
    BY <1>1, <1>2, <1>3
  <2> QED  BY <1>1, <2>1 DEF RingInv, Pushing, Minus, Slot
<1>7. Popping'
  <2>1. cpc = "release" => buffer'[Slot(head)] = buffer[Slot(head)]
    BY <1>1, <1>2, HeadSlotWaits
  <2> QED  BY <1>1, <2>1 DEF RingInv, Popping, Slot
<1>8. WaitingItems'
  <2>1. \A n \in 1..Minus(tail, head) : buffer'[Slot(head + n - 1)] = buffer[Slot(head + n - 1)]
    BY <1>1, <1>2, TailSlotFree
  <2> QED  BY <1>1, <2>1 DEF RingInv, WaitingItems, Minus, Slot
<1> QED  BY <1>4, <1>5, <1>6, <1>7, <1>8 DEF RingInv

\* The release store of the tail adds the item just written.
LEMMA PublishKeeps == RingInv /\ Publish => RingInv'
<1> SUFFICES ASSUME RingInv, Publish PROVE RingInv'
  OBVIOUS
<1>1. /\ ppc = "publish" /\ ppc' = "idle" /\ item' = NoItem /\ tail' = Succ(tail)
      /\ UNCHANGED <<head_cached, buffer, sized, head, tail_cached, cpc, out, popped>>
  BY DEF Publish, consumer
<1>2. /\ tail \in Counters /\ head \in Counters
      /\ head_cached \in Counters /\ tail_cached \in Counters
  BY DEF RingInv, TypeOK
<1>3. /\ Minus(tail, head) \in Nat /\ Minus(tail, head_cached) \in Nat
      /\ Minus(head, head_cached) \in Nat /\ Minus(tail_cached, head) \in Nat
      /\ Capacity \in Nat /\ CounterMod \in Nat /\ CounterMod > Capacity + 1
  BY <1>2, Distance, Ring
<1>4. Minus(tail, head) < Capacity /\ Minus(tail, head_cached) < Capacity
  BY <1>1, TailSlotFree DEF RingInv, Pushing
<1>5. /\ Minus(Succ(tail), head) = Minus(tail, head) + 1
      /\ Minus(Succ(tail), head_cached) = Minus(tail, head_cached) + 1
  BY <1>2, <1>3, <1>4, DistanceStep
<1>6. TypeOK'
  BY <1>1, <1>2, CounterStep DEF RingInv, TypeOK
<1>7. CachesConservative'
  <2>1. /\ Minus(Succ(tail), head_cached) <= Capacity
        /\ Minus(head, head_cached) <= Minus(Succ(tail), head_cached)
        /\ Minus(tail_cached, head) <= Minus(Succ(tail), head)
    BY <1>3, <1>4, <1>5 DEF RingInv, CachesConservative
  <2> QED  BY <1>1, <2>1 DEF CachesConservative, Minus
<1>8. SizeInRange' /\ Pushing' /\ Popping'
  BY <1>1 DEF RingInv, SizeInRange, Pushing, Popping, Slot
<1>9. WaitingItems'
  <2>1. ASSUME NEW n \in 1..(Minus(tail, head) + 1) PROVE buffer[Slot(head + n - 1)] \in Items
    <3>1. CASE n \in 1..Minus(tail, head)
      BY <3>1 DEF RingInv, WaitingItems
    <3>2. CASE n = Minus(tail, head) + 1
      <4>1. head + n - 1 = head + Minus(tail, head)
        BY <1>2, <1>3, <3>2 DEF Counters
      <4> QED  BY <1>1, <4>1, TailSlotFree DEF RingInv, Pushing
    <3> QED  BY <1>3, <3>1, <3>2
  <2> QED  BY <1>1, <1>5, <2>1 DEF WaitingItems, Minus, Slot
<1> QED  BY <1>6, <1>7, <1>8, <1>9 DEF RingInv

\* pop compares with the copy of the tail it has ...
LEMMA PopCallKeeps == RingInv /\ PopCall => RingInv'
<1> SUFFICES ASSUME RingInv, PopCall PROVE RingInv'
  OBVIOUS
<1>1. /\ cpc' \in {"reload", "read"}
      /\ cpc' = "read" => head # tail_cached
      /\ UNCHANGED <<head, tail_cached, out, popped, buffer, sized,
                     tail, head_cached, ppc, item>>
  BY DEF PopCall, producer
<1>2. TypeOK' /\ CachesConservative' /\ SizeInRange' /\ Pushing'
  BY <1>1 DEF RingInv, TypeOK, CachesConservative, SizeInRange, Pushing, Minus, Slot
<1>3. cpc' # "release"
  BY <1>1
<1>4. Popping'
  BY <1>1, <1>3 DEF Popping
<1>5. WaitingItems'
  BY <1>1, WaitingUnmoved DEF RingInv
<1> QED  BY <1>2, <1>4, <1>5 DEF RingInv

\* ... and again with any tail the acquire load may return.
LEMMA ReloadTailKeeps ==
    ASSUME RingInv, NEW t \in Visible(tail_cached, tail), ReloadTail(t)
    PROVE  RingInv'
<1>1. /\ tail_cached' = t /\ cpc' \in {"idle", "read"}
      /\ cpc' = "read" => head # t
      /\ UNCHANGED <<head, out, popped, buffer, sized, tail, head_cached, ppc, item>>
  BY DEF ReloadTail, producer
<1>2. /\ tail \in Counters /\ head \in Counters
      /\ head_cached \in Counters /\ tail_cached \in Counters
  BY DEF RingInv, TypeOK
<1>3. t \in Counters /\ Minus(t, head) <= Minus(tail, head)
  BY <1>2, ReadAhead DEF RingInv
<1>4. TypeOK'
  BY <1>1, <1>3 DEF RingInv, TypeOK
<1>5. CachesConservative'
  BY <1>1, <1>3 DEF RingInv, CachesConservative, Minus
<1>6. SizeInRange' /\ Pushing'
  BY <1>1 DEF RingInv, SizeInRange, Pushing, Minus, Slot
<1>7. cpc' # "release"
  BY <1>1
<1>8. Popping'
  BY <1>1, <1>7 DEF Popping
<1>9. WaitingItems'
  BY <1>1, WaitingUnmoved DEF RingInv
<1> QED  BY <1>4, <1>5, <1>6, <1>8, <1>9 DEF RingInv

\* The read takes an item that was published.
LEMMA ReadKeeps == RingInv /\ Read => RingInv'
<1> SUFFICES ASSUME RingInv, Read PROVE RingInv'
  OBVIOUS
<1>1. /\ cpc = "read" /\ cpc' = "release" /\ out' = buffer[Slot(head)]
      /\ UNCHANGED <<head, tail_cached, popped, buffer, sized, tail, head_cached, ppc, item>>
  BY DEF Read, producer
<1>2. buffer[Slot(head)] \in Items
  BY <1>1, HeadSlotWaits
<1>3. TypeOK'
  BY <1>1, <1>2 DEF RingInv, TypeOK
<1>4. CachesConservative' /\ SizeInRange' /\ Pushing' /\ Popping'
  BY <1>1 DEF RingInv, CachesConservative, SizeInRange, Pushing, Popping, Minus, Slot
<1>5. WaitingItems'
  BY <1>1, WaitingUnmoved DEF RingInv
<1> QED  BY <1>3, <1>4, <1>5 DEF RingInv

\* The release store of the head frees the slot just read.
LEMMA ReleaseKeeps == RingInv /\ Release => RingInv'
<1> SUFFICES ASSUME RingInv, Release PROVE RingInv'
  OBVIOUS
<1>1. /\ cpc = "release" /\ cpc' = "idle" /\ head' = Succ(head)
      /\ popped' = out /\ out' = NoItem
      /\ UNCHANGED <<tail_cached, buffer, sized, tail, head_cached, ppc, item>>
  BY DEF Release, producer
<1>2. /\ tail \in Counters /\ head \in Counters
      /\ head_cached \in Counters /\ tail_cached \in Counters
  BY DEF RingInv, TypeOK
<1>3. /\ Minus(tail, head) \in Nat /\ Minus(tail, head_cached) \in Nat
      /\ Minus(head, head_cached) \in Nat /\ Minus(tail_cached, head) \in Nat
      /\ Capacity \in Nat /\ CounterMod \in Nat /\ CounterMod > Capacity + 1
  BY <1>2, Distance, Ring
<1>4. /\ Minus(tail, head) > 0 /\ head # tail_cached
      /\ Minus(tail, head) = Minus(tail, head_cached) - Minus(head, head_cached)
      /\ Minus(tail, head_cached) <= Capacity
  BY <1>1, HeadSlotWaits, Fill DEF RingInv, Popping, CachesConservative
<1>5. head # tail
  BY <1>2, <1>4, Distance
<1>6. /\ Minus(tail, Succ(head)) = Minus(tail, head) - 1
      /\ Minus(tail_cached, Succ(head)) = Minus(tail_cached, head) - 1
      /\ Minus(Succ(head), head_cached) = Minus(head, head_cached) + 1
  BY <1>2, <1>3, <1>4, <1>5, DistanceStep
<1>7. TypeOK'
  BY <1>1, <1>2, CounterStep DEF RingInv, TypeOK
<1>8. CachesConservative'
  <2>1. /\ Minus(Succ(head), head_cached) <= Minus(tail, head_cached)
        /\ Minus(tail_cached, Succ(head)) <= Minus(tail, Succ(head))
    BY <1>3, <1>4, <1>6 DEF RingInv, CachesConservative
  <2> QED  BY <1>1, <1>4, <2>1 DEF CachesConservative, Minus
<1>9. SizeInRange' /\ Pushing' /\ Popping'
  BY <1>1 DEF RingInv, SizeInRange, Pushing, Popping, Minus, Slot
<1>10. WaitingItems'
  <2>1. ASSUME NEW n \in 1..(Minus(tail, head) - 1) PROVE buffer[Slot(Succ(head) + n - 1)] \in Items
    <3>1. n \in Int /\ head \in Int /\ Succ(head) \in Int
          /\ n + 1 \in 1..Minus(tail, head)
      BY <1>2, <1>3, CounterStep, Ring DEF Counters
    <3>2. Slot(Succ(head) + (n - 1)) = Slot(head + 1 + (n - 1)) /\ n - 1 \in Int
      BY <1>2, <3>1, SlotAfterStep
    <3>3. Succ(head) + n - 1 = Succ(head) + (n - 1)
          /\ head + (n + 1) - 1 = head + 1 + (n - 1)
      BY <3>1
    <3>4. buffer[Slot(head + (n + 1) - 1)] \in Items
      BY <3>1 DEF RingInv, WaitingItems
    <3> QED  BY <3>2, <3>3, <3>4
  <2> QED  BY <1>1, <1>6, <2>1 DEF WaitingItems, Minus, Slot
<1> QED  BY <1>7, <1>8, <1>9, <1>10 DEF RingInv

\* size() compares one thread's counter with a load of the other's.
LEMMA SizeKeeps == RingInv /\ Size => RingInv'
<1> SUFFICES ASSUME RingInv, Size PROVE RingInv'
  OBVIOUS
<1>1. UNCHANGED <<buffer, tail, head_cached, ppc, item, head, tail_cached, cpc, out, popped>>
  BY DEF Size, producer, consumer
<1>2. /\ tail \in Counters /\ head \in Counters
      /\ head_cached \in Counters /\ tail_cached \in Counters
  BY DEF RingInv, TypeOK
<1>3. Capacity \in Nat /\ Minus(tail, head) \in 0..Capacity
  BY Fill, Ring DEF RingInv
<1>4. sized' \in Counters /\ sized' <= Capacity
  <2>1. ASSUME NEW h \in Visible(head_cached, head), sized' = Minus(tail, h)
        PROVE  sized' \in Counters /\ sized' <= Capacity
    BY <1>2, <1>3, <2>1, WrittenBehind, Distance DEF RingInv
  <2>2. ASSUME NEW t \in Visible(tail_cached, tail), sized' = Minus(t, head)
        PROVE  sized' \in Counters /\ sized' <= Capacity
    <3>1. t \in Counters /\ Minus(t, head) <= Minus(tail, head)
      BY <1>2, ReadAhead DEF RingInv
    <3>2. Minus(t, head) \in Counters /\ Minus(t, head) \in Nat
      BY <1>2, <3>1, Distance
    <3> QED  BY <1>3, <2>2, <3>1, <3>2
  <2> QED  BY <2>1, <2>2 DEF Size
<1>5. TypeOK' /\ CachesConservative' /\ SizeInRange' /\ Pushing' /\ Popping'
  BY <1>1, <1>4 DEF RingInv, TypeOK, CachesConservative, SizeInRange, Pushing, Popping,
                    Minus, Slot
<1>6. WaitingItems'
  BY <1>1, WaitingUnmoved DEF RingInv
<1> QED  BY <1>5, <1>6 DEF RingInv
-----------------------------------------------------------------------------
(* The theorems.                                                           *)

\* At the start nothing waits and nobody is inside a call.
LEMMA RingStarts == Init => RingInv
<1> SUFFICES ASSUME Init PROVE RingInv
  OBVIOUS
<1>1. /\ Capacity \in Nat \ {0} /\ CounterMod \in Nat \ {0}
      /\ 0 \in Counters
  BY Ring DEF Counters
<1>2. Minus(0, 0) = 0
  BY <1>1, Distance
<1>3. TypeOK
  BY <1>1 DEF Init, TypeOK
<1>4. CachesConservative /\ SizeInRange /\ Pushing /\ Popping /\ WaitingItems
  BY <1>1, <1>2 DEF Init, CachesConservative, SizeInRange, Pushing, Popping, WaitingItems
<1> QED  BY <1>3, <1>4 DEF RingInv

\* Every step of either thread keeps it.
LEMMA RingKept == RingInv /\ [Next]_vars => RingInv'
<1> SUFFICES ASSUME RingInv, [Next]_vars PROVE RingInv'
  OBVIOUS
<1>1. ASSUME UNCHANGED vars PROVE RingInv'
  <2>1. UNCHANGED <<tail, head_cached, head, tail_cached, buffer, ppc, item, cpc, out,
                    popped, sized>>
    BY <1>1 DEF vars
  <2>2. TypeOK' /\ CachesConservative' /\ SizeInRange' /\ Pushing' /\ Popping'
    BY <2>1 DEF RingInv, TypeOK, CachesConservative, SizeInRange, Pushing, Popping,
                Minus, Slot
  <2> QED  BY <2>1, <2>2, WaitingUnmoved DEF RingInv
<1>2. CASE Reloads
  BY <1>2, ReloadHeadKeeps, ReloadTailKeeps DEF Reloads
<1> QED  BY <1>1, <1>2, PushCallKeeps, WriteKeeps, PublishKeeps, PopCallKeeps, ReadKeeps,
            ReleaseKeeps, SizeKeeps DEF Next

\* What the two threads rely on holds in every reachable state.
THEOREM RingInvariant == Spec => []RingInv
<1> QED  BY RingStarts, RingKept, PTL DEF Spec

\* push and pop keep their counters in the machine's range, and every index
\* they compute is one of a slot.
THEOREM TypeCorrect == Spec => []TypeOK
<1>1. RingInv => TypeOK
  BY DEF RingInv
<1> QED  BY <1>1, RingInvariant, PTL

\* The copies push and pop keep of the other's counter err on the safe side
\* only, across any number of wraps of the counters.
THEOREM CopiesConservative == Spec => []CachesConservative
<1>1. RingInv => CachesConservative
  BY DEF RingInv
<1> QED  BY <1>1, RingInvariant, PTL

\* size() never reports more than the capacity, whichever thread calls it.
THEOREM SizeStaysInRange == Spec => []SizeInRange
<1>1. RingInv => SizeInRange
  BY DEF RingInv
<1> QED  BY <1>1, RingInvariant, PTL

\* push's write of a slot and pop's read of one never meet in the same slot.
THEOREM RaceFree == Spec => []NoDataRace
<1>1. RingInv => NoDataRace
  BY HeadSlotWaits DEF NoDataRace
<1> QED  BY <1>1, RingInvariant, PTL
-----------------------------------------------------------------------------
(* The ring buffer implements the bounded queue.                           *)

\* What waits is a sequence of items, as long as the tail is ahead of the head.
LEMMA WaitingSequence ==
    ASSUME RingInv
    PROVE  /\ Waiting \in Seq(Items) /\ Len(Waiting) = Minus(tail, head)
           /\ \A n \in 1..Minus(tail, head) : Waiting[n] = buffer[Slot(head + n - 1)]
<1>1. tail \in Counters /\ head \in Counters
  BY DEF RingInv, TypeOK
<1>2. Minus(tail, head) \in Nat
  BY <1>1, Distance
<1>3. \A n \in 1..Minus(tail, head) : buffer[Slot(head + n - 1)] \in Items
  BY DEF RingInv, WaitingItems
<1> QED  BY <1>2, <1>3 DEF Waiting

\* The same of the next state.
LEMMA WaitingSequenceNext ==
    ASSUME RingInv'
    PROVE  /\ Waiting' \in Seq(Items) /\ Len(Waiting') = Minus(tail', head')
           /\ \A n \in 1..Minus(tail', head') : Waiting'[n] = buffer'[Slot(head' + n - 1)]
<1>1. tail' \in Counters /\ head' \in Counters
  BY DEF RingInv, TypeOK, Counters
<1>2. Minus(tail', head') \in Nat
  BY <1>1, Distance
<1>3. \A n \in 1..Minus(tail', head') : buffer'[Slot(head' + n - 1)] \in Items
  BY DEF RingInv, WaitingItems, Minus, Slot
<1> QED  BY <1>2, <1>3 DEF Waiting, Minus, Slot

\* A sequence with the entries of s and one more, v, is s with v appended.
LEMMA AppendEntries ==
    ASSUME NEW s \in Seq(Items), NEW v \in Items, NEW t \in Seq(Items),
           Len(t) = Len(s) + 1, t[Len(s) + 1] = v, \A i \in 1..Len(s) : t[i] = s[i]
    PROVE  t = Append(s, v)
<1>1. /\ Append(s, v) \in Seq(Items) /\ Len(Append(s, v)) = Len(s) + 1
      /\ \A i \in 1..Len(s) : Append(s, v)[i] = s[i]
      /\ Append(s, v)[Len(s) + 1] = v /\ Len(s) \in Nat
  OBVIOUS
<1>2. \A i \in 1..(Len(s) + 1) : t[i] = Append(s, v)[i]
  BY <1>1
<1> QED  BY <1>1, <1>2, SeqEqual

\* Likewise for a sequence that is the tail of another.
LEMMA TailEntries ==
    ASSUME NEW s \in Seq(Items), s # << >>, NEW t \in Seq(Items),
           Len(t) = Len(s) - 1, \A i \in 1..(Len(s) - 1) : t[i] = s[i + 1]
    PROVE  t = Tail(s)
<1>1. /\ Tail(s) \in Seq(Items) /\ Len(Tail(s)) = Len(s) - 1
      /\ \A i \in 1..(Len(s) - 1) : Tail(s)[i] = s[i + 1]
  OBVIOUS
<1>2. \A i \in 1..Len(t) : t[i] = Tail(s)[i]
  BY <1>1
<1> QED  BY <1>1, <1>2, SeqEqual
\* push's write prepares its item where nothing waits.
LEMMA WriteStutters ==
    ASSUME RingInv, Write
    PROVE  UNCHANGED <<Waiting, popped>>
<1>1. /\ ppc = "write" /\ buffer' = [buffer EXCEPT ![Slot(tail)] = item]
      /\ UNCHANGED <<tail, head, popped>>
  BY DEF Write, consumer
<1>2. tail \in Counters /\ head \in Counters
      /\ buffer \in [0..(Capacity - 1) -> Items \cup {NoItem}]
  BY DEF RingInv, TypeOK
<1>3. \A n \in 1..Minus(tail, head) : buffer'[Slot(head + n - 1)] = buffer[Slot(head + n - 1)]
  BY <1>1, <1>2, TailSlotFree
<1>4. Waiting' = Waiting
  BY <1>1, <1>3 DEF Waiting, Minus, Slot
<1> QED  BY <1>1, <1>4

\* push's release store appends the item.
LEMMA PublishPushes == RingInv /\ RingInv' /\ Publish => Promise!Push
<1> SUFFICES ASSUME RingInv, RingInv', Publish PROVE Promise!Push
  OBVIOUS
<1> DEFINE n == Minus(tail, head)
<1>1. /\ ppc = "publish" /\ tail' = Succ(tail) /\ UNCHANGED <<head, buffer, popped>>
      /\ item \in Items /\ buffer[Slot(tail)] = item
  BY DEF Publish, consumer, RingInv, Pushing
<1>2. tail \in Counters /\ head \in Counters
  BY DEF RingInv, TypeOK
<1>3. n \in Nat /\ n < Capacity /\ Slot(tail) = Slot(head + n) /\ head \in Int
      /\ Capacity \in Nat /\ CounterMod \in Nat /\ CounterMod > Capacity + 1
  BY <1>1, <1>2, TailSlotFree, Distance, Ring DEF Counters
<1>4. Minus(tail', head) = n + 1
  BY <1>1, <1>2, <1>3, DistanceStep
<1>5. Waiting \in Seq(Items) /\ Len(Waiting) = n
      /\ \A m \in 1..n : Waiting[m] = buffer[Slot(head + m - 1)]
  BY WaitingSequence
<1>6. /\ Waiting' \in Seq(Items) /\ Len(Waiting') = n + 1
      /\ \A m \in 1..(n + 1) : Waiting'[m] = buffer[Slot(head + m - 1)]
  BY <1>1, <1>4, WaitingSequenceNext
<1> HIDE DEF n
<1>7. Waiting'[n + 1] = item
  <2>1. head + (n + 1) - 1 = head + n
    BY <1>3
  <2> QED  BY <1>1, <1>3, <1>6, <2>1
<1>8. Waiting' = Append(Waiting, item)
  <2>1. \A m \in 1..n : Waiting'[m] = Waiting[m]
    BY <1>3, <1>5, <1>6
  <2> QED  BY <1>1, <1>5, <1>6, <1>7, <2>1, AppendEntries
<1> QED  BY <1>1, <1>3, <1>5, <1>8 DEF Promise!Push

\* pop's release store takes the oldest item, and delivers it.
LEMMA ReleasePops == RingInv /\ RingInv' /\ Release => Promise!Pop
<1> SUFFICES ASSUME RingInv, RingInv', Release PROVE Promise!Pop
  OBVIOUS
<1> DEFINE n == Minus(tail, head)
<1>1. /\ cpc = "release" /\ head' = Succ(head) /\ popped' = out
      /\ UNCHANGED <<tail, buffer>>
  BY DEF Release, producer
<1>2. tail \in Counters /\ head \in Counters
  BY DEF RingInv, TypeOK
<1>3. n \in Nat /\ n > 0 /\ head \in Int /\ Succ(head) \in Int /\ tail # head
  BY <1>1, <1>2, HeadSlotWaits, Distance, CounterStep, Ring DEF Counters
<1>4. Minus(tail, Succ(head)) = n - 1
  BY <1>2, <1>3, DistanceStep
<1>5. Waiting \in Seq(Items) /\ Len(Waiting) = n
      /\ \A m \in 1..n : Waiting[m] = buffer[Slot(head + m - 1)]
  BY WaitingSequence
<1>6. /\ Waiting' \in Seq(Items) /\ Len(Waiting') = n - 1
      /\ \A m \in 1..(n - 1) : Waiting'[m] = buffer[Slot(Succ(head) + m - 1)]
  BY <1>1, <1>4, WaitingSequenceNext
<1> HIDE DEF n
<1>7. Waiting # << >> /\ Head(Waiting) = Waiting[1] /\ 1 \in 1..n
  BY <1>3, <1>5
<1>8. Waiting[1] = buffer[Slot(head)]
  <2>1. head + 1 - 1 = head
    BY <1>3
  <2> QED  BY <1>5, <1>7, <2>1
<1>9. popped' = Head(Waiting)
  BY <1>1, <1>7, <1>8 DEF RingInv, Popping
<1>10. Waiting' = Tail(Waiting)
  <2>1. \A m \in 1..(n - 1) : Waiting'[m] = Waiting[m + 1]
    <3> TAKE m \in 1..(n - 1)
    <3>1. m \in Int /\ m - 1 \in Int /\ m + 1 \in 1..n
      BY <1>3
    <3>2. Slot(Succ(head) + (m - 1)) = Slot(head + 1 + (m - 1))
      BY <1>2, <3>1, SlotAfterStep
    <3>3. Succ(head) + m - 1 = Succ(head) + (m - 1)
          /\ head + (m + 1) - 1 = head + 1 + (m - 1)
      BY <1>3, <3>1
    <3> QED  BY <1>5, <1>6, <3>1, <3>2, <3>3
  <2> QED  BY <1>5, <1>6, <1>7, <2>1, TailEntries
<1> QED  BY <1>7, <1>9, <1>10 DEF Promise!Pop

\* Items leave the ring buffer in the order they entered it, none lost,
\* repeated or made up, for every capacity and modulus of the counters: push's
\* release store is the queue's Push, pop's is its Pop, and every other access
\* to memory leaves the queue as it is.
THEOREM RefinesBoundedQueue == Spec => ImplementsBoundedQueue
<1>1. Init => Promise!Init
  <2> SUFFICES ASSUME Init PROVE Promise!Init
    OBVIOUS
  <2>1. RingInv /\ tail = 0 /\ head = 0 /\ 0 \in Counters /\ popped = NoItem
    BY RingStarts DEF RingInv, TypeOK, Init
  <2>2. Minus(tail, head) = 0
    BY <2>1, Distance
  <2>3. Waiting = << >>
    BY <2>1, <2>2, WaitingSequence
  <2> QED  BY <2>1, <2>3 DEF Promise!Init
<1>2. RingInv /\ RingInv' /\ [Next]_vars => [Promise!Next]_(Promise!vars)
  <2> SUFFICES ASSUME RingInv, RingInv', [Next]_vars
               PROVE  Promise!Next \/ UNCHANGED <<Waiting, popped>>
    BY DEF Promise!vars
  <2>1. ASSUME UNCHANGED <<head, tail, buffer, popped>> PROVE UNCHANGED <<Waiting, popped>>
    BY <2>1, WaitingUnmoved DEF RingInv
  <2>2. ASSUME PushCall \/ PopCall \/ Read \/ Reloads \/ Size \/ UNCHANGED vars
        PROVE  UNCHANGED <<head, tail, buffer, popped>>
    BY <2>2 DEF PushCall, PopCall, Read, Reloads, ReloadHead, ReloadTail, Size, vars,
                producer, consumer
  <2>3. CASE Write
    BY <2>3, WriteStutters
  <2>4. CASE Publish
    BY <2>4, PublishPushes DEF Promise!Next
  <2>5. CASE Release
    BY <2>5, ReleasePops DEF Promise!Next
  <2> QED  BY <2>1, <2>2, <2>3, <2>4, <2>5 DEF Next
<1> QED  BY <1>1, <1>2, RingInvariant, PTL DEF Spec, ImplementsBoundedQueue, Promise!Spec
=============================================================================
