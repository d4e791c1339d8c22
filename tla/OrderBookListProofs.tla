------------------------- MODULE OrderBookListProofs -------------------------
(***************************************************************************)
(* Theorems about the FIFO lists of OrderBook, for every pool size, tick   *)
(* range, request set and integer width; and with them that OrderBook      *)
(* implements LimitOrderBook: every request, seen through the queues that  *)
(* find_by_price and the walk of a level's list deliver, is a step of the  *)
(* abstract book or no step at all.                                        *)
(***************************************************************************)
EXTENDS OrderBookProofs

(* A list by its entries: q[1], ..., q[n] are the slots on the list of level *)
(* l, oldest order first.                                                  *)

Linked(orders, n, q) ==
    \A m \in 1..n : orders[q[m]].next_in_level = IF m = n THEN kInvalid ELSE q[m + 1]

Chain(b, l, n, q) ==
    /\ b.levels[l].head_order_idx = IF n = 0 THEN kInvalid ELSE q[1]
    /\ b.levels[l].tail_order_idx = IF n = 0 THEN kInvalid ELSE q[n]
    /\ Linked(b.orders, n, q)
    /\ \A m, k \in 1..n : q[m] = q[k] => m = k

Entries(n, q) == {q[m] : m \in 1..n}

-----------------------------------------------------------------------------
(* The walk Fifo makes of a list.                                          *)

\* f[n][i] is what the walk collects from slot i on, in at most n slots.
IsWalk(orders, N, f) ==
    f = [n \in 0..N |-> [i \in OrderIdx |->
            IF i = kInvalid \/ n = 0 THEN << >>
            ELSE <<i>> \o f[n - 1][orders[i].next_in_level]]]

\* The walk is defined for every length: induction on the length.
LEMMA WalkExists ==
    ASSUME NEW orders \in [OrderSlots -> Order], NEW N \in Nat
    PROVE  \E f : IsWalk(orders, N, f)
<1> DEFINE bad == {M \in Nat : ~ \E f : IsWalk(orders, M, f)}
<1> SUFFICES ASSUME bad # {}
             PROVE  FALSE
  OBVIOUS
<1>1. PICK M \in bad : \A K \in bad : M <= K
  BY LeastNatural
<1>2. CASE M = 0
  <2> DEFINE f == [n \in 0..0 |-> [i \in OrderIdx |-> << >>]]
  <2>1. f = [n \in 0..0 |-> [i \in OrderIdx |->
                IF i = kInvalid \/ n = 0 THEN << >>
                ELSE <<i>> \o f[n - 1][orders[i].next_in_level]]]
    OBVIOUS
  <2>2. IsWalk(orders, 0, f)
    BY <2>1 DEF IsWalk
  <2> QED
    BY <1>1, <1>2, <2>2
<1>3. CASE M # 0
  <2>1. M - 1 \in Nat /\ M - 1 \notin bad
    BY <1>1, <1>3
  <2>2. PICK g : IsWalk(orders, M - 1, g)
    BY <2>1
  <2> DEFINE f == [n \in 0..M |-> [i \in OrderIdx |->
                    IF i = kInvalid \/ n = 0 THEN << >>
                    ELSE <<i>> \o g[n - 1][orders[i].next_in_level]]]
  <2>3. ASSUME NEW n \in 0..(M - 1)
        PROVE  f[n] = g[n]
    <3>1. n \in 0..M
      BY <1>1
    <3>2. g[n] = [i \in OrderIdx |->
                    IF i = kInvalid \/ n = 0 THEN << >>
                    ELSE <<i>> \o g[n - 1][orders[i].next_in_level]]
      BY <2>2 DEF IsWalk
    <3> QED
      BY <3>1, <3>2
  <2>4. \A n \in 0..M : n # 0 => g[n - 1] = f[n - 1]
    <3> SUFFICES ASSUME NEW n \in 0..M, n # 0
                 PROVE  g[n - 1] = f[n - 1]
      OBVIOUS
    <3>1. n - 1 \in 0..(M - 1)
      BY <1>1
    <3> QED
      BY <2>3, <3>1
  <2> DEFINE h == [n \in 0..M |-> [i \in OrderIdx |->
                    IF i = kInvalid \/ n = 0 THEN << >>
                    ELSE <<i>> \o f[n - 1][orders[i].next_in_level]]]
  <2>5. \A n \in 0..M : f[n] = h[n]
    <3> SUFFICES ASSUME NEW n \in 0..M
                 PROVE  f[n] = h[n]
      OBVIOUS
    <3>1. f[n] = [i \in OrderIdx |->
                    IF i = kInvalid \/ n = 0 THEN << >>
                    ELSE <<i>> \o g[n - 1][orders[i].next_in_level]]
      OBVIOUS
    <3>2. h[n] = [i \in OrderIdx |->
                    IF i = kInvalid \/ n = 0 THEN << >>
                    ELSE <<i>> \o f[n - 1][orders[i].next_in_level]]
      OBVIOUS
    <3> HIDE DEF f, h
    <3> QED
      BY <2>4, <3>1, <3>2
  <2>6. f = h
    BY <2>5
  <2>7. IsWalk(orders, M, f)
    BY <2>6 DEF IsWalk
  <2> QED
    BY <1>1, <2>7
<1> QED
  BY <1>2, <1>3

\* A walk that is long enough collects the list: induction on the number of
\* entries that are left.
LEMMA WalkOfList ==
    ASSUME NEW orders \in [OrderSlots -> Order], NEW N \in Nat, NEW f,
           IsWalk(orders, N, f), NEW n \in Nat, NEW q \in [1..n -> OrderSlots],
           Linked(orders, n, q), n <= N
    PROVE  f[N][IF n = 0 THEN kInvalid ELSE q[1]] = q
<1> DEFINE at(e) == IF e = 0 THEN kInvalid ELSE q[n - e + 1]
           Good(e) == \A t \in e..N : f[t][at(e)] = SubSeq(q, n - e + 1, n)
           bad == {e \in Nat : e \in 0..n /\ ~Good(e)}
<1>0. q \in Seq(OrderSlots) /\ Len(q) = n
  BY SeqDef
<1>1. \A i \in OrderIdx, t \in 0..N :
        f[t][i] = IF i = kInvalid \/ t = 0 THEN << >>
                  ELSE <<i>> \o f[t - 1][orders[i].next_in_level]
  <2> SUFFICES ASSUME NEW t \in 0..N, NEW i \in OrderIdx
               PROVE  f[t][i] = IF i = kInvalid \/ t = 0 THEN << >>
                                ELSE <<i>> \o f[t - 1][orders[i].next_in_level]
    OBVIOUS
  <2>1. f[t] = [j \in OrderIdx |-> IF j = kInvalid \/ t = 0 THEN << >>
                                   ELSE <<j>> \o f[t - 1][orders[j].next_in_level]]
    BY DEF IsWalk
  <2> QED
    BY <2>1
<1>2. bad = {}
  <2> SUFFICES ASSUME bad # {}
               PROVE  FALSE
    OBVIOUS
  <2>1. PICK e \in bad : \A c \in bad : e <= c
    BY LeastNatural
  <2>2. e \in 0..n /\ e \in Nat
    BY <2>1
  <2>3. CASE e = 0
    <3>1. SubSeq(q, n + 1, n) = << >>
      BY SubSeqEmpty
    <3>2. \A t \in 0..N : f[t][kInvalid] = << >>
      BY <1>1 DEF OrderIdx
    <3>3. n - 0 + 1 = n + 1 /\ at(0) = kInvalid
      OBVIOUS
    <3>4. Good(0)
      BY <3>1, <3>2, <3>3
    <3> QED
      BY <2>1, <2>3, <3>4
  <2>4. CASE e # 0
    <3>1. e - 1 \in Nat /\ e - 1 \in 0..n /\ ~(e <= e - 1)
      BY <2>2, <2>4
    <3>2. Good(e - 1)
      <4> HIDE DEF Good
      <4> QED
        BY <2>1, <3>1
    <3> DEFINE k == n - e + 1
    <3>3. k \in 1..n /\ q[k] \in OrderSlots /\ q[k] \in OrderIdx /\ q[k] # kInvalid
      BY <2>2, <2>4 DEF OrderIdx, OrderSlots, kInvalid
    <3>4. orders[q[k]].next_in_level = at(e - 1)
      BY <2>2, <2>4, <3>3 DEF Linked
    <3>5. SubSeq(q, k, n) = <<q[k]>> \o SubSeq(q, k + 1, n)
      <4>1. k \in 1..Len(q) /\ n \in k..Len(q)
        BY <1>0, <2>2, <2>4
      <4> HIDE DEF k
      <4> QED
        BY <1>0, <4>1, SubSeqRecursiveFirst
    <3>6. ASSUME NEW t \in e..N
          PROVE  f[t][q[k]] = SubSeq(q, k, n)
      <4>1. t \in 0..N /\ t # 0 /\ t - 1 \in (e - 1)..N
        BY <2>2, <2>4
      <4>2. f[t][q[k]] = <<q[k]>> \o f[t - 1][at(e - 1)]
        BY <1>1, <3>3, <3>4, <4>1
      <4>3. f[t - 1][at(e - 1)] = SubSeq(q, n - (e - 1) + 1, n)
        BY <3>2, <4>1
      <4>4. n - (e - 1) + 1 = k + 1
        BY <2>2
      <4> QED
        BY <3>5, <4>2, <4>3, <4>4
    <3>7. Good(e)
      BY <2>4, <3>6
    <3> QED
      BY <2>1, <3>7
  <2> QED
    BY <2>3, <2>4
<1>3. Good(n)
  <2> HIDE DEF Good
  <2> QED
    BY <1>2
<1>4. n - n + 1 = 1 /\ N \in n..N
  OBVIOUS
<1>5. SubSeq(q, 1, n) = q
  BY <1>0, SubSeqFull
<1> QED
  BY <1>3, <1>4, <1>5

\* A list whose slots are distinct fits the pool ...
LEMMA ChainFits ==
    ASSUME NEW n \in Nat, NEW q \in [1..n -> OrderSlots],
           \A m, k \in 1..n : q[m] = q[k] => m = k
    PROVE  n <= MaxOrders
<1> SUFFICES ASSUME n > MaxOrders
             PROVE  FALSE
  BY CapacityAssumption
<1>1. IsFiniteSet(1..n) /\ Cardinality(1..n) = n
  BY FS_Interval
<1>2. IsFiniteSet(OrderSlots) /\ Cardinality(OrderSlots) = MaxOrders
  BY FS_Interval, CapacityAssumption DEF OrderSlots
<1>3. \E x, y \in 1..n : x # y /\ q[x] = q[y]
  BY <1>1, <1>2, FS_PigeonHole, CapacityAssumption
<1> QED
  BY <1>3

\* ... so that the walk collects all of it.
LEMMA FifoOfChain ==
    ASSUME NEW b \in Book, NEW l \in LevelSlots, NEW n \in Nat,
           NEW q \in [1..n -> OrderSlots], Chain(b, l, n, q)
    PROVE  Fifo(b, l) = q
<1>1. b.orders \in [OrderSlots -> Order] /\ MaxOrders \in Nat
  BY CapacityAssumption DEF Book
<1>2. PICK g : IsWalk(b.orders, MaxOrders, g)
  BY <1>1, WalkExists
<1> DEFINE from == CHOOSE f : IsWalk(b.orders, MaxOrders, f)
<1>3. IsWalk(b.orders, MaxOrders, from)
  BY <1>2
<1>4. Fifo(b, l) = from[MaxOrders][b.levels[l].head_order_idx]
  BY DEF Fifo, IsWalk
<1> HIDE DEF from
<1>5. n <= MaxOrders
  BY ChainFits DEF Chain
<1>6. from[MaxOrders][IF n = 0 THEN kInvalid ELSE q[1]] = q
  BY <1>1, <1>3, <1>5, WalkOfList DEF Chain
<1> QED
  BY <1>4, <1>6 DEF Chain
-----------------------------------------------------------------------------
(* The sum SumQty makes of the quantities of a set of orders.              *)

IsSum(orders, F, f) ==
    f = [S \in F |-> IF S = {} THEN 0
                     ELSE LET i == CHOOSE i \in S : TRUE
                          IN  orders[i].remaining_qty + f[S \ {i}]]

\* SumQty before it wraps.
Total(orders, slots) ==
    LET sum[S \in SUBSET slots] ==
            IF S = {} THEN 0
            ELSE LET i == CHOOSE i \in S : TRUE
                 IN  orders[i].remaining_qty + sum[S \ {i}]
    IN  sum[slots]

\* Some set of a family of subsets of a finite set is minimal.
LEMMA MinimalSet ==
    ASSUME NEW D, IsFiniteSet(D), NEW F \in SUBSET (SUBSET D), F # {}
    PROVE  \E T \in F : \A x \in T : T \ {x} \notin F
<1>1. \A T \in F : IsFiniteSet(T) /\ Cardinality(T) \in Nat
  BY FS_Subset, FS_CardinalityType
<1>2. PICK n \in {Cardinality(T) : T \in F} : \A m \in {Cardinality(T) : T \in F} : n <= m
  <2> DEFINE N == {Cardinality(T) : T \in F}
  <2>1. N \in SUBSET Nat /\ N # {}
    BY <1>1
  <2> HIDE DEF N
  <2>2. \E n \in N : \A m \in N : n <= m
    BY <2>1, LeastNatural
  <2> QED
    BY <2>2 DEF N
<1>3. PICK T \in F : n = Cardinality(T)
  BY <1>2
<1>4. ASSUME NEW x \in T, T \ {x} \in F
      PROVE  FALSE
  <2>1. Cardinality(T \ {x}) = Cardinality(T) - 1
    BY <1>1, FS_RemoveElement
  <2>2. Cardinality(T) <= Cardinality(T \ {x})
    BY <1>2, <1>3, <1>4
  <2> QED
    BY <1>1, <2>1, <2>2
<1> QED
  BY <1>4

\* The sum is defined on all subsets: induction on their size.
LEMMA SumExists ==
    ASSUME NEW orders, NEW D, IsFiniteSet(D)
    PROVE  \E f : IsSum(orders, SUBSET D, f)
<1> DEFINE Upto(N) == {S \in SUBSET D : Cardinality(S) <= N}
           bad == {N \in Nat : ~ \E f : IsSum(orders, Upto(N), f)}
<1>1. \A S \in SUBSET D : IsFiniteSet(S) /\ Cardinality(S) \in Nat
                          /\ Cardinality(S) <= Cardinality(D)
  BY FS_Subset, FS_CardinalityType
<1>2. bad = {}
  <2> SUFFICES ASSUME bad # {}
               PROVE  FALSE
    OBVIOUS
  <2>1. PICK N \in bad : \A M \in bad : N <= M
    BY LeastNatural
  <2>2. CASE N = 0
    <3> DEFINE f == [S \in Upto(0) |-> 0]
    <3>1. \A S \in Upto(0) : S = {}
      <4> SUFFICES ASSUME NEW S \in Upto(0)
                   PROVE  S = {}
        OBVIOUS
      <4>1. Cardinality(S) = 0 /\ IsFiniteSet(S)
        BY <1>1
      <4> QED
        BY <4>1, FS_EmptySet
    <3> HIDE DEF Upto
    <3>2. f = [S \in Upto(0) |-> IF S = {} THEN 0
                     ELSE LET i == CHOOSE i \in S : TRUE
                          IN  orders[i].remaining_qty + f[S \ {i}]]
      BY <3>1
    <3>3. IsSum(orders, Upto(0), f)
      BY <3>2 DEF IsSum
    <3> QED
      BY <2>1, <2>2, <3>3
  <2>3. CASE N # 0
    <3>1. N - 1 \in Nat /\ ~(N <= N - 1)
      BY <2>1, <2>3
    <3>2. PICK g : IsSum(orders, Upto(N - 1), g)
      <4> HIDE DEF Upto
      <4> QED
        BY <2>1, <3>1
    <3> DEFINE c(S) == CHOOSE i \in S : TRUE
               f == [S \in Upto(N) |-> IF S = {} THEN 0
                                      ELSE orders[c(S)].remaining_qty + g[S \ {c(S)}]]
               h == [S \in Upto(N) |-> IF S = {} THEN 0
                                      ELSE orders[c(S)].remaining_qty + f[S \ {c(S)}]]
    <3>3. ASSUME NEW S \in Upto(N - 1)
          PROVE  f[S] = g[S]
      <4>1. S \in Upto(N)
        BY <1>1, <3>1
      <4>2. g[S] = IF S = {} THEN 0
                   ELSE orders[c(S)].remaining_qty + g[S \ {c(S)}]
        <5> HIDE DEF Upto
        <5> QED
          BY <3>2 DEF IsSum
      <4> HIDE DEF Upto, c
      <4> QED
        BY <4>1, <4>2
    <3>4. ASSUME NEW S \in Upto(N), S # {}
          PROVE  g[S \ {c(S)}] = f[S \ {c(S)}]
      <4>1. c(S) \in S
        BY <3>4
      <4> HIDE DEF c, f
      <4>2. Cardinality(S \ {c(S)}) = Cardinality(S) - 1
        BY <1>1, <4>1, FS_RemoveElement
      <4>3. S \ {c(S)} \in Upto(N - 1)
        BY <1>1, <2>1, <4>2
      <4> QED
        BY <3>3, <4>3
    <3>5. f = h
      <4> HIDE DEF Upto, c
      <4>1. \A S \in Upto(N) : f[S] = h[S]
        <5> SUFFICES ASSUME NEW S \in Upto(N)
                     PROVE  f[S] = h[S]
          OBVIOUS
        <5>1. f[S] = IF S = {} THEN 0 ELSE orders[c(S)].remaining_qty + g[S \ {c(S)}]
          OBVIOUS
        <5>2. h[S] = IF S = {} THEN 0 ELSE orders[c(S)].remaining_qty + f[S \ {c(S)}]
          OBVIOUS
        <5> HIDE DEF f, h
        <5> QED
          BY <3>4, <5>1, <5>2
      <4> QED
        BY <4>1
    <3>6. IsSum(orders, Upto(N), f)
      BY <3>5 DEF IsSum
    <3> HIDE DEF Upto, f
    <3> QED
      BY <2>1, <3>6
  <2> QED
    BY <2>2, <2>3
<1>3. Cardinality(D) \in Nat
  BY FS_CardinalityType
<1>4. Upto(Cardinality(D)) = SUBSET D
  BY <1>1
<1>5. \E f : IsSum(orders, Upto(Cardinality(D)), f)
  <2> HIDE DEF Upto
  <2> QED
    BY <1>2, <1>3
<1> QED
  BY <1>4, <1>5

\* Two sums agree on a set if the quantities of its orders do: induction on the
\* set.
LEMMA SumsAgree ==
    ASSUME NEW o1, NEW o2, NEW D1, NEW D2, NEW f, NEW g,
           IsSum(o1, SUBSET D1, f), IsSum(o2, SUBSET D2, g),
           NEW D, IsFiniteSet(D), D \subseteq D1, D \subseteq D2,
           \A i \in D : o1[i].remaining_qty = o2[i].remaining_qty
    PROVE  f[D] = g[D]
<1> DEFINE bad == {S \in SUBSET D : f[S] # g[S]}
<1>1. bad = {}
  <2> SUFFICES ASSUME bad # {}
               PROVE  FALSE
    OBVIOUS
  <2>1. PICK S \in bad : \A x \in S : S \ {x} \notin bad
    BY MinimalSet
  <2> DEFINE c == CHOOSE i \in S : TRUE
  <2>2. f[S] = IF S = {} THEN 0 ELSE o1[c].remaining_qty + f[S \ {c}]
    BY <2>1 DEF IsSum
  <2>3. g[S] = IF S = {} THEN 0 ELSE o2[c].remaining_qty + g[S \ {c}]
    BY <2>1 DEF IsSum
  <2>4. CASE S = {}
    BY <2>1, <2>2, <2>3, <2>4
  <2>5. CASE S # {}
    <3>1. c \in S /\ c \in D
      BY <2>1, <2>5
    <3> HIDE DEF c
    <3>2. f[S \ {c}] = g[S \ {c}]
      BY <2>1, <3>1
    <3> QED
      BY <2>1, <2>2, <2>3, <2>5, <3>1, <3>2
  <2> QED
    BY <2>4, <2>5
<1> QED
  BY <1>1

\* What Total computes on the subsets of a set of order slots.
LEMMA TotalIsSum ==
    ASSUME NEW orders, NEW D, IsFiniteSet(D)
    PROVE  \E f : IsSum(orders, SUBSET D, f) /\ Total(orders, D) = f[D]
<1> DEFINE f == CHOOSE g : IsSum(orders, SUBSET D, g)
<1>1. IsSum(orders, SUBSET D, f)
  BY SumExists
<1>2. Total(orders, D) = f[D]
  BY DEF Total, IsSum
<1> QED
  BY <1>1, <1>2

\* It depends on the quantities of the set's orders only.
LEMMA TotalAgrees ==
    ASSUME NEW o1, NEW o2, NEW D, IsFiniteSet(D),
           \A i \in D : o1[i].remaining_qty = o2[i].remaining_qty
    PROVE  Total(o1, D) = Total(o2, D)
<1>1. PICK f : IsSum(o1, SUBSET D, f) /\ Total(o1, D) = f[D]
  BY TotalIsSum
<1>2. PICK g : IsSum(o2, SUBSET D, g) /\ Total(o2, D) = g[D]
  BY TotalIsSum
<1> QED
  BY <1>1, <1>2, SumsAgree

\* The sum over no orders.
LEMMA TotalEmpty ==
    ASSUME NEW orders
    PROVE  Total(orders, {}) = 0
<1>1. PICK f : IsSum(orders, SUBSET {}, f) /\ Total(orders, {}) = f[{}]
  BY TotalIsSum, FS_EmptySet
<1> QED
  BY <1>1 DEF IsSum

Quantified(orders, D) == \A i \in D : orders[i].remaining_qty \in Nat

\* A sum of naturals is a natural: induction on the set.
LEMMA SumType ==
    ASSUME NEW orders, NEW D, IsFiniteSet(D), NEW f, IsSum(orders, SUBSET D, f),
           Quantified(orders, D)
    PROVE  \A S \in SUBSET D : f[S] \in Nat
<1> DEFINE bad == {S \in SUBSET D : f[S] \notin Nat}
<1> SUFFICES ASSUME bad # {}
             PROVE  FALSE
  OBVIOUS
<1>1. PICK S \in bad : \A x \in S : S \ {x} \notin bad
  BY MinimalSet
<1> DEFINE c == CHOOSE i \in S : TRUE
<1>2. f[S] = IF S = {} THEN 0 ELSE orders[c].remaining_qty + f[S \ {c}]
  BY <1>1 DEF IsSum
<1>3. CASE S = {}
  BY <1>1, <1>2, <1>3
<1>4. CASE S # {}
  <2>1. c \in S /\ c \in D
    BY <1>1, <1>4
  <2> HIDE DEF c
  <2>2. f[S \ {c}] \in Nat
    BY <1>1, <2>1
  <2> QED
    BY <1>1, <1>2, <1>4, <2>1, <2>2 DEF Quantified
<1> QED
  BY <1>3, <1>4

\* The order in which the quantities are added does not matter: the sum splits
\* at any order of the set.  Induction on the set.
LEMMA SumSplits ==
    ASSUME NEW orders, NEW D, IsFiniteSet(D), NEW f, IsSum(orders, SUBSET D, f),
           Quantified(orders, D)
    PROVE  \A x \in D : f[D] = orders[x].remaining_qty + f[D \ {x}]
<1> DEFINE bad == {S \in SUBSET D : \E y \in S : f[S] # orders[y].remaining_qty + f[S \ {y}]}
<1>1. bad = {}
  <2> SUFFICES ASSUME bad # {}
               PROVE  FALSE
    OBVIOUS
  <2>1. PICK S \in bad : \A z \in S : S \ {z} \notin bad
    BY MinimalSet
  <2>2. PICK y \in S : f[S] # orders[y].remaining_qty + f[S \ {y}]
    BY <2>1
  <2> DEFINE c == CHOOSE i \in S : TRUE
  <2>3. f[S] = orders[c].remaining_qty + f[S \ {c}]
    BY <2>1, <2>2 DEF IsSum
  <2>4. c \in S
    BY <2>2
  <2> HIDE DEF c
  <2>5. c # y
    BY <2>2, <2>3
  <2>6. f[S \ {c}] = orders[y].remaining_qty + f[(S \ {c}) \ {y}]
    <3>1. y \in S \ {c}
      BY <2>5
    <3> QED
      BY <2>1, <2>4, <3>1
  <2>7. f[S \ {y}] = orders[c].remaining_qty + f[(S \ {y}) \ {c}]
    <3>1. c \in S \ {y}
      BY <2>4, <2>5
    <3> QED
      BY <2>1, <2>2, <3>1
  <2>8. (S \ {c}) \ {y} = (S \ {y}) \ {c}
    OBVIOUS
  <2>9. /\ orders[c].remaining_qty \in Nat /\ orders[y].remaining_qty \in Nat
        /\ f[(S \ {y}) \ {c}] \in Nat
    BY <2>1, <2>2, <2>4, SumType DEF Quantified
  <2> DEFINE R == f[(S \ {y}) \ {c}]
             u == orders[c].remaining_qty
             v == orders[y].remaining_qty
  <2>10. f[S] = u + (v + R) /\ f[S \ {y}] = u + R /\ f[S] # v + f[S \ {y}]
    BY <2>2, <2>3, <2>6, <2>7, <2>8
  <2>11. u \in Nat /\ v \in Nat /\ R \in Nat
    BY <2>9
  <2> HIDE DEF bad, R, u, v
  <2> QED
    BY <2>10, <2>11
<1> QED
  BY <1>1

\* Total gains the quantity of an order that joins the set.
LEMMA TotalSplits ==
    ASSUME NEW orders, NEW D, IsFiniteSet(D),
           Quantified(orders, D), NEW x \in D
    PROVE  /\ Total(orders, D) = orders[x].remaining_qty + Total(orders, D \ {x})
           /\ Total(orders, D \ {x}) \in Nat
<1> DEFINE E == D \ {x}
<1>1. PICK f : IsSum(orders, SUBSET D, f) /\ Total(orders, D) = f[D]
  BY TotalIsSum
<1>2. IsFiniteSet(E) /\ E \subseteq D
  BY FS_RemoveElement
<1>3. f[D] = orders[x].remaining_qty + f[E] /\ f[E] \in Nat
  <2>1. f[D] = orders[x].remaining_qty + f[D \ {x}]
    BY <1>1, SumSplits
  <2>2. f[E] \in Nat
    BY <1>1, <1>2, SumType
  <2> QED
    BY <2>1, <2>2
<1> HIDE DEF E
<1>4. PICK g : IsSum(orders, SUBSET E, g) /\ Total(orders, E) = g[E]
  BY <1>2, TotalIsSum
<1>5. f[E] = g[E]
  <2>1. IsSum(orders, SUBSET D, f) /\ IsSum(orders, SUBSET E, g)
    BY <1>1, <1>4
  <2>2. IsFiniteSet(E) /\ E \subseteq D /\ E \subseteq E
    BY <1>2
  <2> QED
    BY <2>1, <2>2, SumsAgree
<1> QED
  BY <1>1, <1>3, <1>4, <1>5 DEF E

\* A number is told by its quotient and its remainder.
LEMMA RemainderIs ==
    ASSUME NEW M \in Nat \ {0}, NEW a \in Int, NEW k \in Int, NEW r \in 0..(M - 1),
           a = (M * k) + r
    PROVE  a % M = r
  OBVIOUS

\* A wrapped total from which a quantity is taken or to which one is added.
LEMMA WrapSum ==
    ASSUME NEW a \in Int, NEW e \in Int
    PROVE  /\ ((a % QtyMod) + e) % QtyMod = (a + e) % QtyMod
           /\ ((a % QtyMod) - e) % QtyMod = (a - e) % QtyMod
           /\ 0 % QtyMod = 0
<1> DEFINE M == QtyMod
<1>1. M \in Nat \ {0}
  BY RequestAssumption
<1> HIDE DEF M
<1>2. \A c \in Int, t \in Int : (c + (M * t)) % M = c % M
  <2> SUFFICES ASSUME NEW c \in Int, NEW t \in Int
               PROVE  (c + (M * t)) % M = c % M
    OBVIOUS
  <2> DEFINE k == c \div M
             r == c % M
  <2>1. k \in Int /\ r \in 0..(M - 1) /\ c = (M * k) + r
    BY <1>1
  <2>2. c + (M * t) = (M * (k + t)) + r /\ k + t \in Int
    BY <1>1, <2>1
  <2> HIDE DEF k, r
  <2>3. c + (M * t) \in Int
    BY <1>1
  <2>4. (c + (M * t)) % M = r
    BY <1>1, <2>1, <2>2, <2>3, RemainderIs
  <2> QED
    BY <2>4 DEF r
<1> DEFINE k == a \div M
           r == a % M
<1>3. k \in Int /\ r \in 0..(M - 1) /\ a = (M * k) + r
  BY <1>1
<1> HIDE DEF k, r
<1>4. a + e = (r + e) + (M * k) /\ a - e = (r - e) + (M * k)
  BY <1>1, <1>3
<1>5. r + e \in Int /\ r - e \in Int
  BY <1>1, <1>3
<1>6. (r + e) % M = (a + e) % M /\ (r - e) % M = (a - e) % M
  BY <1>2, <1>3, <1>4, <1>5
<1>7. 0 % M = 0
  BY <1>1
<1> QED
  BY <1>6, <1>7 DEF r, M
-----------------------------------------------------------------------------
(* What the lists hold.  X is the set of orders on their way out: of the      *)
(* whole book, when a request is done, it is empty.                         *)

\* The orders of level l of side s.
On(b, s, l) == OrdersAt(b, s, b.levels[l].price)

\* The list of level l holds exactly the orders of S, each once.
Queued(b, l, S) ==
    \E n \in Nat : \E q \in [1..n -> OrderSlots] : Chain(b, l, n, q) /\ Entries(n, q) = S

QueuesBut(b, X) ==
    \A s \in Sides : \A l \in b.sides[s].tree : Queued(b, l, On(b, s, l) \ X)

TotalsBut(b, X) ==
    \A s \in Sides : \A l \in b.sides[s].tree :
        b.levels[l].total_qty = Total(b.orders, On(b, s, l) \ X) % QtyMod

PositiveBut(b, X) == \A i \in Live(b) \ X : b.orders[i].remaining_qty > 0

HeldBut(b, X) == QueuesBut(b, X) /\ TotalsBut(b, X) /\ PositiveBut(b, X)

\* What holds of a book between two requests, unless an assertion has failed;
\* and the assertion that has failed is not one of the code's own bookkeeping.
Held(b) ==
    /\ b.fault = "None" => HeldBut(b, {})
    /\ b.fault # "Internal"

\* Only one level stands for a side and a price.
LEMMA OwnLevel ==
    ASSUME NEW b \in Book, LevelsSound(b), NEW s \in Sides, NEW l \in b.sides[s].tree
    PROVE  \A r \in Sides : \A m \in b.sides[r].tree :
               /\ r = s /\ b.levels[m].price = b.levels[l].price <=> m = l
               /\ m \in LevelSlots /\ l \in LevelSlots
<1>1. \A m \in b.sides[s].tree : b.levels[m].price = b.levels[l].price => m = l
  BY TreeLevels
<1>2. \A r \in Sides \ {s} : l \notin b.sides[r].tree
  BY DEF LevelsSound, LevelsAccountedIn, Sides
<1>3. \A r \in Sides : b.sides[r].tree \subseteq LevelSlots
  BY TreeLevels
<1> QED
  BY <1>1, <1>2, <1>3

\* The orders of different levels are different.
LEMMA OnDisjoint ==
    ASSUME NEW b \in Book, LevelsSound(b), NEW s \in Sides, NEW l \in b.sides[s].tree,
           NEW r \in Sides, NEW m \in b.sides[r].tree, m # l
    PROVE  On(b, s, l) \cap On(b, r, m) = {}
<1>1. ~(r = s /\ b.levels[m].price = b.levels[l].price)
  BY OwnLevel
<1> QED
  BY <1>1 DEF On, OrdersAt

\* The orders of a level, as the sums need them.
LEMMA OnQuantified ==
    ASSUME NEW b \in Book, NEW s, NEW l
    PROVE  /\ On(b, s, l) \subseteq OrderSlots
           /\ Quantified(b.orders, On(b, s, l))
           /\ IsFiniteSet(On(b, s, l))
           /\ \A X : IsFiniteSet(On(b, s, l) \ X)
<1>1. On(b, s, l) \subseteq OrderSlots /\ IsFiniteSet(On(b, s, l))
  <2>1. IsFiniteSet(On(b, s, l))
    BY OrdersAtFinite DEF On
  <2> QED
    BY <2>1 DEF On, OrdersAt, Live
<1>2. \A i \in OrderSlots : b.orders[i].remaining_qty \in Nat
  BY RequestAssumption DEF Book, Order, Qtys
<1>3. \A X : On(b, s, l) \ X \in SUBSET On(b, s, l)
  OBVIOUS
<1> QED
  BY <1>1, <1>2, <1>3, FS_Subset DEF Quantified

\* A list stays when its ends and its links do.
LEMMA SameChain ==
    ASSUME NEW b, NEW c, NEW l, NEW n \in Nat, NEW q \in [1..n -> OrderSlots],
           Chain(b, l, n, q),
           c.levels[l].head_order_idx = b.levels[l].head_order_idx,
           c.levels[l].tail_order_idx = b.levels[l].tail_order_idx,
           \A i \in Entries(n, q) : c.orders[i].next_in_level = b.orders[i].next_in_level
    PROVE  Chain(c, l, n, q)
<1>1. \A m \in 1..n : q[m] \in Entries(n, q)
  BY DEF Entries
<1>2. Linked(c.orders, n, q)
  BY <1>1 DEF Chain, Linked
<1> QED
  BY <1>2 DEF Chain

\* The same of the set of orders a level queues.
LEMMA SameQueue ==
    ASSUME NEW b, NEW c, NEW l, NEW S, Queued(b, l, S),
           c.levels[l].head_order_idx = b.levels[l].head_order_idx,
           c.levels[l].tail_order_idx = b.levels[l].tail_order_idx,
           \A i \in S : c.orders[i].next_in_level = b.orders[i].next_in_level
    PROVE  Queued(c, l, S)
<1>1. PICK n \in Nat :
        \E q \in [1..n -> OrderSlots] : Chain(b, l, n, q) /\ Entries(n, q) = S
  BY DEF Queued
<1>2. PICK q \in [1..n -> OrderSlots] : Chain(b, l, n, q) /\ Entries(n, q) = S
  BY <1>1
<1>3. Chain(c, l, n, q)
  BY <1>2, SameChain
<1> QED
  BY <1>2, <1>3 DEF Queued
-----------------------------------------------------------------------------
(* The steps.                                                              *)

\* Quantity e leaves level l, on account of its order i: b becomes c.
TakesQty(b, c, i, l, e) ==
    /\ c.sides = b.sides
    /\ \A m \in LevelSlots :
        /\ c.levels[m].head_order_idx = b.levels[m].head_order_idx
        /\ c.levels[m].tail_order_idx = b.levels[m].tail_order_idx
        /\ c.levels[m].price = b.levels[m].price
        /\ c.levels[m].total_qty = IF m = l THEN (b.levels[m].total_qty - e) % QtyMod
                                   ELSE b.levels[m].total_qty
    /\ \A j \in OrderSlots :
        /\ c.orders[j].order_id = b.orders[j].order_id
        /\ c.orders[j].price = b.orders[j].price
        /\ c.orders[j].side = b.orders[j].side
        /\ c.orders[j].next_in_level = b.orders[j].next_in_level
        /\ j # i => c.orders[j].remaining_qty = b.orders[j].remaining_qty

\* The total of a level follows its orders, whether the order is on its way out
\* or keeps the rest.
LEMMA TakesHeld ==
    ASSUME NEW b \in Book, NEW c \in Book, LevelsSound(b), HeldBut(b, {}),
           NEW i \in Live(b), NEW l \in b.sides[b.orders[i].side].tree,
           b.levels[l].price = b.orders[i].price,
           NEW e \in Nat, TakesQty(b, c, i, l, e)
    PROVE  /\ QueuesBut(c, {}) /\ PositiveBut(c, {i})
           /\ e = b.orders[i].remaining_qty => TotalsBut(c, {i})
           /\ c.orders[i].remaining_qty = b.orders[i].remaining_qty - e => TotalsBut(c, {})
<1> DEFINE s == b.orders[i].side
<1>1. i \in OrderSlots /\ s \in Sides /\ i \in On(b, s, l)
  BY DEF Live, Book, Order, On, OrdersAt
<1>2. \A r \in Sides : b.sides[r].tree \subseteq LevelSlots
  BY TreeLevels
<1>3. \A r \in Sides : \A m \in b.sides[r].tree : On(c, r, m) = On(b, r, m)
  BY <1>2 DEF TakesQty, On, OrdersAt, Live
<1>4. QueuesBut(c, {})
  <2> SUFFICES ASSUME NEW r \in Sides, NEW m \in b.sides[r].tree
               PROVE  Queued(c, m, On(b, r, m))
    BY <1>3 DEF QueuesBut, TakesQty
  <2>1. Queued(b, m, On(b, r, m))
    BY DEF HeldBut, QueuesBut
  <2>2. m \in LevelSlots /\ \A j \in On(b, r, m) : j \in OrderSlots
    BY <1>2 DEF On, OrdersAt, Live
  <2> QED
    BY <2>1, <2>2, SameQueue DEF TakesQty
<1>5. PositiveBut(c, {i})
  BY DEF PositiveBut, HeldBut, TakesQty, Live
<1>6. ASSUME NEW r \in Sides, NEW m \in b.sides[r].tree, m # l
      PROVE  /\ c.levels[m].total_qty = Total(c.orders, On(c, r, m)) % QtyMod
             /\ i \notin On(c, r, m)
  <2>1. i \notin On(b, r, m)
    BY <1>1, <1>6, OnDisjoint
  <2>2. b.levels[m].total_qty = Total(b.orders, On(b, r, m)) % QtyMod
    BY DEF HeldBut, TotalsBut
  <2>3. \A j \in On(b, r, m) : b.orders[j].remaining_qty = c.orders[j].remaining_qty
    BY <2>1 DEF TakesQty, On, OrdersAt, Live
  <2>4. Total(b.orders, On(b, r, m)) = Total(c.orders, On(b, r, m))
    BY <2>3, OnQuantified, TotalAgrees
  <2> QED
    BY <1>2, <1>3, <1>6, <2>1, <2>2, <2>4 DEF TakesQty
<1> DEFINE D == On(b, s, l)
           T == Total(b.orders, D \ {i})
           u == b.orders[i].remaining_qty
<1>7. Total(b.orders, D) = u + T /\ T \in Nat /\ u \in Nat
  <2>1. Quantified(b.orders, D) /\ IsFiniteSet(D)
    BY OnQuantified
  <2>2. u \in Nat
    BY <1>1, <2>1 DEF Quantified
  <2> QED
    BY <1>1, <2>1, <2>2, TotalSplits
<1>8. b.levels[l].total_qty = (u + T) % QtyMod
  BY <1>1, <1>7 DEF HeldBut, TotalsBut
<1>9. c.levels[l].total_qty = ((u + T) - e) % QtyMod
  <2>1. c.levels[l].total_qty = (((u + T) % QtyMod) - e) % QtyMod
    BY <1>1, <1>2, <1>8 DEF TakesQty
  <2> HIDE DEF u, T
  <2>2. u + T \in Int /\ e \in Int
    BY <1>7
  <2> QED
    BY <2>1, <2>2, WrapSum
<1>10. Total(c.orders, D \ {i}) = T
  <2>1. \A j \in D \ {i} : c.orders[j].remaining_qty = b.orders[j].remaining_qty
    BY DEF TakesQty, On, OrdersAt, Live
  <2>2. IsFiniteSet(D \ {i})
    BY OnQuantified
  <2> QED
    BY <2>1, <2>2, TotalAgrees
<1>11. \A r \in Sides : l \in b.sides[r].tree => r = s
  BY <1>1 DEF LevelsSound, LevelsAccountedIn, Sides
<1>12. ASSUME e = u
       PROVE  TotalsBut(c, {i})
  <2>1. c.levels[l].total_qty = Total(c.orders, D \ {i}) % QtyMod
    <3> HIDE DEF T, u
    <3>1. (u + T) - e = T
      BY <1>7, <1>12
    <3> QED
      BY <1>9, <1>10, <3>1
  <2>2. \A r \in Sides : \A m \in b.sides[r].tree :
            m # l => On(c, r, m) \ {i} = On(c, r, m)
    BY <1>6
  <2>3. On(c, s, l) = D
    BY <1>1, <1>3
  <2> HIDE DEF D
  <2> SUFFICES ASSUME NEW r \in Sides, NEW m \in b.sides[r].tree
               PROVE  c.levels[m].total_qty = Total(c.orders, On(c, r, m) \ {i}) % QtyMod
    BY DEF TotalsBut, TakesQty
  <2>4. CASE m = l
    BY <1>11, <2>1, <2>3, <2>4
  <2>5. CASE m # l
    BY <1>6, <2>2, <2>5
  <2> QED
    BY <2>4, <2>5
<1>13. ASSUME c.orders[i].remaining_qty = u - e
       PROVE  TotalsBut(c, {})
  <2>1. Total(c.orders, D) = (u - e) + T
    <3>1. Quantified(c.orders, D) /\ IsFiniteSet(D)
      BY <1>1, <1>3, OnQuantified
    <3>2. Total(c.orders, D) = c.orders[i].remaining_qty + Total(c.orders, D \ {i})
      BY <1>1, <3>1, TotalSplits
    <3> QED
      BY <1>10, <1>13, <3>2
  <2>2. c.levels[l].total_qty = Total(c.orders, D) % QtyMod
    <3> HIDE DEF T, u
    <3>1. (u + T) - e = (u - e) + T
      BY <1>7
    <3> QED
      BY <1>9, <2>1, <3>1
  <2>3. On(c, s, l) = D
    BY <1>1, <1>3
  <2> HIDE DEF D
  <2> SUFFICES ASSUME NEW r \in Sides, NEW m \in b.sides[r].tree
               PROVE  c.levels[m].total_qty = Total(c.orders, On(c, r, m)) % QtyMod
    BY DEF TotalsBut, TakesQty
  <2>4. CASE m = l
    BY <1>11, <2>2, <2>3, <2>4
  <2>5. CASE m # l
    BY <1>6, <2>5
  <2> QED
    BY <2>4, <2>5
<1> QED
  BY <1>4, <1>5, <1>12, <1>13

\* The slot q[k] is taken out of the list of level l: b becomes c.
TakenOut(b, c, l, n, q, k) ==
    LET next == IF k = n THEN kInvalid ELSE q[k + 1]
    IN  /\ c.levels[l].head_order_idx = IF k = 1 THEN next ELSE q[1]
        /\ c.levels[l].tail_order_idx = IF k < n THEN q[n]
                                        ELSE IF k = 1 THEN kInvalid ELSE q[k - 1]
        /\ c.levels[l].price = b.levels[l].price
        /\ c.levels[l].total_qty = b.levels[l].total_qty
        /\ \A m \in LevelSlots \ {l} : c.levels[m] = b.levels[m]
        /\ c.orders = IF k = 1 THEN b.orders
                      ELSE [b.orders EXCEPT ![q[k - 1]].next_in_level = next]
        /\ c.sides = b.sides /\ c.fault = b.fault

\* What Unlink does to the ends and links of a list.
LEMMA UnlinkEnds ==
    ASSUME NEW b \in Book, NEW l \in LevelSlots, NEW n \in Nat,
           NEW q \in [1..n -> OrderSlots], Chain(b, l, n, q), NEW k \in 1..n
    PROVE  TakenOut(b, Unlink(b, l, q[k]), l, n, q, k)
<1> DEFINE i == q[k]
           u == Unlink(b, l, i)
           next == IF k = n THEN kInvalid ELSE q[k + 1]
           preds == {j \in OrderSlots : /\ j \in Slots(Fifo(b, l))
                                        /\ b.orders[j].next_in_level = i}
           pred == CHOOSE j \in preds : TRUE
<1>1. /\ i \in OrderSlots /\ i # kInvalid /\ b.orders[i].next_in_level = next
      /\ b.levels[l].head_order_idx = q[1] /\ b.levels[l].tail_order_idx = q[n]
      /\ b.levels \in [LevelSlots -> Level] /\ b.orders \in [OrderSlots -> Order]
  BY DEF Chain, Linked, OrderSlots, kInvalid, Book
<1>2. next = kInvalid <=> k = n
  BY DEF OrderSlots, kInvalid
<1>3. q[1] = i <=> k = 1
  BY DEF Chain
<1>4. CASE k = 1
  <2> DEFINE lvl == [b.levels[l] EXCEPT
                        !.head_order_idx = next,
                        !.tail_order_idx = IF next = kInvalid THEN kInvalid ELSE @]
  <2>1. /\ u.sides = b.sides /\ u.fault = b.fault /\ u.orders = b.orders
        /\ u.levels = [b.levels EXCEPT ![l] = lvl]
    <3> HIDE DEF next
    <3>1. u = [b EXCEPT !.levels[l].head_order_idx = next,
                        !.levels[l].tail_order_idx =
                              IF next = kInvalid THEN kInvalid ELSE @]
      BY <1>1, <1>3, <1>4 DEF Unlink
    <3>2. /\ u.sides = b.sides /\ u.fault = b.fault /\ u.orders = b.orders
      BY <1>1, <3>1 DEF Book
    <3>3. u.levels = [b.levels EXCEPT
                        ![l].head_order_idx = next,
                        ![l].tail_order_idx = IF next = kInvalid THEN kInvalid ELSE @]
      BY <1>1, <3>1 DEF Book
    <3>4. u.levels = [b.levels EXCEPT ![l] = lvl]
      <4> HIDE DEF u
      <4> QED
        BY <1>1, <3>3 DEF Level
    <3> QED
      BY <3>2, <3>4
  <2>2. /\ lvl.price = b.levels[l].price /\ lvl.total_qty = b.levels[l].total_qty
        /\ lvl.head_order_idx = next
        /\ lvl.tail_order_idx = IF next = kInvalid THEN kInvalid ELSE q[n]
    <3> HIDE DEF next
    <3> QED
      BY <1>1 DEF Level
  <2> HIDE DEF lvl, u, next
  <2>3. u.levels[l] = lvl /\ \A m \in LevelSlots \ {l} : u.levels[m] = b.levels[m]
    BY <1>1, <2>1
  <2> QED
    BY <1>2, <1>4, <2>1, <2>2, <2>3 DEF u, next, TakenOut
<1>5. CASE k # 1
  <2>1. preds = {q[k - 1]}
    <3>1. Slots(Fifo(b, l)) = Entries(n, q)
      BY FifoOfChain DEF Slots, Entries
    <3>2. k - 1 \in 1..n /\ k - 1 # n /\ q[k - 1] \in OrderSlots
          /\ b.orders[q[k - 1]].next_in_level = i
      BY <1>5 DEF Chain, Linked
    <3>3. ASSUME NEW m \in 1..n, b.orders[q[m]].next_in_level = i
          PROVE  m = k - 1
      <4>1. m # n /\ q[m + 1] = i /\ m + 1 \in 1..n
        BY <1>1, <3>3 DEF Chain, Linked
      <4> QED
        BY <4>1 DEF Chain
    <3> QED
      BY <3>1, <3>2, <3>3 DEF Entries
  <2>2. pred = q[k - 1] /\ q[k - 1] \in OrderSlots /\ preds # {}
    BY <1>5, <2>1
  <2> DEFINE lvl == [b.levels[l] EXCEPT
                        !.tail_order_idx = IF next = kInvalid THEN q[k - 1] ELSE @]
             p == q[k - 1]
  <2>3. /\ u.sides = b.sides /\ u.fault = b.fault
        /\ u.orders = [b.orders EXCEPT ![p].next_in_level = next]
        /\ u.levels = [b.levels EXCEPT ![l] = lvl]
    <3>1. u = [b EXCEPT !.orders[p].next_in_level = next,
                        !.levels[l].tail_order_idx =
                              IF next = kInvalid THEN p ELSE @]
      <4> HIDE DEF next, preds
      <4> QED
        BY <1>1, <1>3, <1>5, <2>1, <2>2 DEF Unlink, preds
    <3> HIDE DEF next, p, u
    <3> QED
      BY <1>1, <3>1 DEF Book, p
  <2>4. /\ lvl.price = b.levels[l].price /\ lvl.total_qty = b.levels[l].total_qty
        /\ lvl.head_order_idx = q[1]
        /\ lvl.tail_order_idx = IF next = kInvalid THEN p ELSE q[n]
    <3> HIDE DEF next, p
    <3> QED
      BY <1>1 DEF Level, p
  <2> HIDE DEF lvl, u, next, p
  <2>5. u.levels[l] = lvl /\ \A m \in LevelSlots \ {l} : u.levels[m] = b.levels[m]
    BY <1>1, <2>3
  <2> QED
    BY <1>2, <1>5, <2>3, <2>4, <2>5 DEF u, next, p, TakenOut
<1> QED
  BY <1>4, <1>5

\* The list without its k-th entry.
Shortened(n, q, k) == [m \in 1..(n - 1) |-> IF m < k THEN q[m] ELSE q[m + 1]]

\* Taking the k-th entry out of a list removes that order and leaves the others once.
LEMMA ShortenedEntries ==
    ASSUME NEW n \in Nat, NEW q \in [1..n -> OrderSlots], NEW k \in 1..n,
           \A m, j \in 1..n : q[m] = q[j] => m = j
    PROVE  /\ n - 1 \in Nat
           /\ Shortened(n, q, k) \in [1..(n - 1) -> OrderSlots]
           /\ Entries(n - 1, Shortened(n, q, k)) = Entries(n, q) \ {q[k]}
           /\ \A m, j \in 1..(n - 1) : Shortened(n, q, k)[m] = Shortened(n, q, k)[j] => m = j
<1> DEFINE w == Shortened(n, q, k)
<1>1. \A m \in 1..(n - 1) : w[m] = IF m < k THEN q[m] ELSE q[m + 1]
  BY DEF Shortened
<1>2. n - 1 \in Nat /\ w \in [1..(n - 1) -> OrderSlots]
  BY DEF Shortened
<1>3. \A m \in 1..(n - 1) : w[m] \in Entries(n, q) \ {q[k]}
  BY <1>1 DEF Entries
<1>4. ASSUME NEW j \in 1..n, j # k
      PROVE  q[j] \in Entries(n - 1, w)
  <2>1. CASE j < k
    BY <1>1, <2>1 DEF Entries
  <2>2. CASE j > k
    <3>1. j - 1 \in 1..(n - 1) /\ w[j - 1] = q[j]
      BY <1>1, <2>2
    <3> QED
      BY <3>1 DEF Entries
  <2> QED
    BY <1>4, <2>1, <2>2
<1>5. Entries(n - 1, w) = Entries(n, q) \ {q[k]}
  BY <1>3, <1>4 DEF Entries
<1>6. \A m, j \in 1..(n - 1) : w[m] = w[j] => m = j
  BY <1>1
<1> QED
  BY <1>2, <1>5, <1>6

\* Unlinking takes one order out of one list and leaves the rest in order.
LEMMA UnlinkQueue ==
    ASSUME NEW b \in Book, NEW l \in LevelSlots, NEW n \in Nat,
           NEW q \in [1..n -> OrderSlots], Chain(b, l, n, q), NEW k \in 1..n
    PROVE  Chain(Unlink(b, l, q[k]), l, n - 1, Shortened(n, q, k))
<1> DEFINE u == Unlink(b, l, q[k])
           w == Shortened(n, q, k)
           next == IF k = n THEN kInvalid ELSE q[k + 1]
<1>1. /\ u.levels[l].head_order_idx = IF k = 1 THEN next ELSE q[1]
      /\ u.levels[l].tail_order_idx = IF k < n THEN q[n]
                                      ELSE IF k = 1 THEN kInvalid ELSE q[k - 1]
      /\ u.orders = IF k = 1 THEN b.orders
                    ELSE [b.orders EXCEPT ![q[k - 1]].next_in_level = next]
  <2>1. TakenOut(b, u, l, n, q, k)
    BY UnlinkEnds
  <2> HIDE DEF u
  <2> QED
    BY <2>1 DEF TakenOut
<1>2. \A m \in 1..(n - 1) : w[m] = IF m < k THEN q[m] ELSE q[m + 1]
  BY DEF Shortened
<1>3. \A m, j \in 1..n : q[m] = q[j] => m = j
  BY DEF Chain
<1>4. \A m, j \in 1..(n - 1) : w[m] = w[j] => m = j
  BY <1>3, ShortenedEntries
<1>5. u.levels[l].head_order_idx = IF n - 1 = 0 THEN kInvalid ELSE w[1]
  BY <1>1, <1>2
<1>6. u.levels[l].tail_order_idx = IF n - 1 = 0 THEN kInvalid ELSE w[n - 1]
  BY <1>1, <1>2
<1>7. \A m \in 1..n : u.orders[q[m]].next_in_level =
                        IF m = k - 1 THEN next
                        ELSE IF m = n THEN kInvalid ELSE q[m + 1]
  <2> SUFFICES ASSUME NEW m \in 1..n
               PROVE  u.orders[q[m]].next_in_level =
                        IF m = k - 1 THEN next
                        ELSE IF m = n THEN kInvalid ELSE q[m + 1]
    OBVIOUS
  <2>1. b.orders[q[m]].next_in_level = IF m = n THEN kInvalid ELSE q[m + 1]
    BY DEF Chain, Linked
  <2>2. CASE k = 1
    BY <1>1, <2>1, <2>2
  <2>3. CASE k # 1
    <3>1. k - 1 \in 1..n /\ q[k - 1] \in OrderSlots /\ q[m] \in OrderSlots
      BY <2>3
    <3>2. b.orders \in [OrderSlots -> Order]
      BY DEF Book
    <3>3. q[m] = q[k - 1] <=> m = k - 1
      BY <1>3, <3>1
    <3> HIDE DEF next, u
    <3>4. u.orders[q[m]].next_in_level =
                IF q[m] = q[k - 1] THEN next ELSE b.orders[q[m]].next_in_level
      BY <1>1, <2>3, <3>1, <3>2 DEF Order
    <3> QED
      BY <2>1, <3>3, <3>4
  <2> QED
    BY <2>2, <2>3
<1>8. Linked(u.orders, n - 1, w)
  <2> SUFFICES ASSUME NEW m \in 1..(n - 1)
               PROVE  u.orders[w[m]].next_in_level =
                        IF m = n - 1 THEN kInvalid ELSE w[m + 1]
    BY DEF Linked
  <2> HIDE DEF u, w
  <2>1. CASE m < k
    BY <1>2, <1>7, <2>1
  <2>2. CASE ~(m < k)
    BY <1>2, <1>7, <2>2
  <2> QED
    BY <2>1, <2>2
<1> QED
  BY <1>4, <1>5, <1>6, <1>8 DEF Chain

\* Unlinking an order leaves every list with the orders that stay.
LEMMA UnlinkHeld ==
    ASSUME NEW b \in Book, LevelsSound(b), QueuesBut(b, {}),
           NEW i \in Live(b), NEW l \in b.sides[b.orders[i].side].tree,
           b.levels[l].price = b.orders[i].price,
           TotalsBut(b, {i}), PositiveBut(b, {i})
    PROVE  HeldBut(Unlink(b, l, i), {i})
<1> DEFINE s == b.orders[i].side
           u == Unlink(b, l, i)
<1>1. i \in OrderSlots /\ s \in Sides /\ i \in On(b, s, l)
  BY DEF Live, Book, Order, On, OrdersAt
<1>2. l \in LevelSlots /\ \A r \in Sides : b.sides[r].tree \subseteq LevelSlots
  BY <1>1, TreeLevels
<1>3. Queued(b, l, On(b, s, l))
  BY <1>1 DEF QueuesBut
<1>4. PICK n \in Nat :
        \E q \in [1..n -> OrderSlots] : Chain(b, l, n, q) /\ Entries(n, q) = On(b, s, l)
  BY <1>3 DEF Queued
<1>5. PICK q \in [1..n -> OrderSlots] : Chain(b, l, n, q) /\ Entries(n, q) = On(b, s, l)
  BY <1>4
<1>6. PICK k \in 1..n : q[k] = i
  BY <1>1, <1>5 DEF Entries
<1> DEFINE next == IF k = n THEN kInvalid ELSE q[k + 1]
<1>7. /\ \A m \in LevelSlots \ {l} : u.levels[m] = b.levels[m]
      /\ u.levels[l].price = b.levels[l].price
      /\ u.levels[l].total_qty = b.levels[l].total_qty
      /\ u.orders = IF k = 1 THEN b.orders
                    ELSE [b.orders EXCEPT ![q[k - 1]].next_in_level = next]
      /\ u.sides = b.sides
  <2>1. TakenOut(b, Unlink(b, l, q[k]), l, n, q, k)
    BY <1>2, <1>5, UnlinkEnds
  <2>2. TakenOut(b, u, l, n, q, k)
    BY <1>6, <2>1
  <2> HIDE DEF u
  <2> QED
    BY <2>2 DEF TakenOut
<1>8. Chain(u, l, n - 1, Shortened(n, q, k))
  BY <1>2, <1>5, <1>6, UnlinkQueue
<1>9. /\ n - 1 \in Nat /\ Shortened(n, q, k) \in [1..(n - 1) -> OrderSlots]
      /\ Entries(n - 1, Shortened(n, q, k)) = On(b, s, l) \ {i}
  <2>1. \A m, j \in 1..n : q[m] = q[j] => m = j
    BY <1>5 DEF Chain
  <2> QED
    BY <1>5, <1>6, <2>1, ShortenedEntries
<1>10. Queued(u, l, On(b, s, l) \ {i})
  BY <1>8, <1>9 DEF Queued
<1>11. \A j \in OrderSlots :
        /\ u.orders[j].order_id = b.orders[j].order_id
        /\ u.orders[j].price = b.orders[j].price
        /\ u.orders[j].side = b.orders[j].side
        /\ u.orders[j].remaining_qty = b.orders[j].remaining_qty
        /\ j \notin On(b, s, l) => u.orders[j].next_in_level = b.orders[j].next_in_level
  <2>1. CASE k = 1
    BY <1>7, <2>1
  <2>2. CASE k # 1
    <3>1. q[k - 1] \in OrderSlots /\ q[k - 1] \in On(b, s, l)
      <4>1. k - 1 \in 1..n
        BY <2>2
      <4> QED
        BY <1>5, <4>1 DEF Entries
    <3>2. b.orders \in [OrderSlots -> Order]
      BY DEF Book
    <3> HIDE DEF next, u
    <3> QED
      BY <1>7, <2>2, <3>1, <3>2 DEF Order
  <2> QED
    BY <2>1, <2>2
<1> HIDE DEF u, next
<1>12. Live(u) = Live(b)
  BY <1>11 DEF Live
<1>13. \A r \in Sides : \A m \in b.sides[r].tree :
            On(u, r, m) = On(b, r, m) /\ u.levels[m].total_qty = b.levels[m].total_qty
  <2>1. \A m \in LevelSlots : /\ u.levels[m].price = b.levels[m].price
                              /\ u.levels[m].total_qty = b.levels[m].total_qty
    BY <1>7
  <2>2. \A m \in LevelSlots : \A r : On(u, r, m) = On(b, r, m)
    BY <1>11, <1>12, <2>1 DEF On, OrdersAt, Live
  <2> QED
    BY <1>2, <2>1, <2>2
<1>14. \A r \in Sides : l \in b.sides[r].tree => r = s
  BY <1>1 DEF LevelsSound, LevelsAccountedIn, Sides
<1>15. QueuesBut(u, {i})
  <2> SUFFICES ASSUME NEW r \in Sides, NEW m \in b.sides[r].tree
               PROVE  Queued(u, m, On(b, r, m) \ {i})
    BY <1>7, <1>13 DEF QueuesBut
  <2>1. CASE m = l
    BY <1>10, <1>14, <2>1
  <2>2. CASE m # l
    <3>1. On(b, s, l) \cap On(b, r, m) = {}
      BY <1>1, <2>2, OnDisjoint
    <3>2. On(b, r, m) \ {i} = On(b, r, m)
      BY <1>1, <3>1
    <3>3. Queued(b, m, On(b, r, m))
      BY DEF QueuesBut
    <3>4. \A j \in On(b, r, m) : u.orders[j].next_in_level = b.orders[j].next_in_level
      BY <1>11, <3>1 DEF On, OrdersAt, Live
    <3>5. u.levels[m] = b.levels[m]
      BY <1>2, <1>7, <2>2
    <3> QED
      BY <3>2, <3>3, <3>4, <3>5, SameQueue
  <2> QED
    BY <2>1, <2>2
<1>16. TotalsBut(u, {i})
  <2> SUFFICES ASSUME NEW r \in Sides, NEW m \in b.sides[r].tree
               PROVE  u.levels[m].total_qty = Total(u.orders, On(u, r, m) \ {i}) % QtyMod
    BY <1>7 DEF TotalsBut
  <2>1. \A j \in On(b, r, m) \ {i} : u.orders[j].remaining_qty = b.orders[j].remaining_qty
    BY <1>11 DEF On, OrdersAt, Live
  <2>2. Total(u.orders, On(b, r, m) \ {i}) = Total(b.orders, On(b, r, m) \ {i})
    BY <2>1, OnQuantified, TotalAgrees
  <2> QED
    BY <1>13, <2>2 DEF TotalsBut
<1>17. PositiveBut(u, {i})
  BY <1>11, <1>12 DEF PositiveBut, Live
<1> QED
  BY <1>15, <1>16, <1>17 DEF HeldBut, u

\* Giving the slot of an unlinked order back leaves lists and totals of the rest.
LEMMA FreeHeld ==
    ASSUME NEW b \in Book, NEW i \in Live(b), NEW l \in LevelSlots, HeldBut(b, {i})
    PROVE  HeldBut(FreeOrder(b, l, i), {})
<1> DEFINE c == FreeOrder(b, l, i)
<1>1. i \in OrderSlots
  BY DEF Live
<1>2. \A r \in Sides : b.sides[r].tree \subseteq LevelSlots
  BY DEF Book, Side
<1>3. /\ c.sides = b.sides /\ c.orders = [b.orders EXCEPT ![i] = NoOrder]
      /\ c.levels = [b.levels EXCEPT ![l].order_count = @ - 1]
  BY DEF FreeOrder, Book
<1>4. \A m \in LevelSlots : /\ c.levels[m].price = b.levels[m].price
                            /\ c.levels[m].total_qty = b.levels[m].total_qty
                            /\ c.levels[m].head_order_idx = b.levels[m].head_order_idx
                            /\ c.levels[m].tail_order_idx = b.levels[m].tail_order_idx
  BY <1>3 DEF Book, Level
<1>5. /\ Live(c) = Live(b) \ {i}
      /\ \A j \in OrderSlots \ {i} : c.orders[j] = b.orders[j]
  BY <1>1, <1>3 DEF Live, NoOrder, Book
<1> HIDE DEF c
<1>6. \A r : \A m \in LevelSlots : On(c, r, m) = On(b, r, m) \ {i}
  BY <1>4, <1>5 DEF On, OrdersAt, Live
<1>7. QueuesBut(c, {})
  <2> SUFFICES ASSUME NEW r \in Sides, NEW m \in b.sides[r].tree
               PROVE  Queued(c, m, On(b, r, m) \ {i})
    BY <1>2, <1>3, <1>6 DEF QueuesBut
  <2>1. Queued(b, m, On(b, r, m) \ {i})
    BY DEF HeldBut, QueuesBut
  <2>2. \A j \in On(b, r, m) \ {i} : c.orders[j].next_in_level = b.orders[j].next_in_level
    BY <1>5 DEF On, OrdersAt, Live
  <2>3. m \in LevelSlots
    BY <1>2
  <2> QED
    BY <1>4, <2>1, <2>2, <2>3, SameQueue
<1>8. TotalsBut(c, {})
  <2> SUFFICES ASSUME NEW r \in Sides, NEW m \in b.sides[r].tree
               PROVE  c.levels[m].total_qty = Total(c.orders, On(c, r, m)) % QtyMod
    BY <1>3 DEF TotalsBut
  <2>1. m \in LevelSlots /\ On(c, r, m) = On(b, r, m) \ {i}
    BY <1>2, <1>6
  <2>2. \A j \in On(b, r, m) \ {i} : c.orders[j].remaining_qty = b.orders[j].remaining_qty
    BY <1>5 DEF On, OrdersAt, Live
  <2>3. Total(c.orders, On(b, r, m) \ {i}) = Total(b.orders, On(b, r, m) \ {i})
    BY <2>2, OnQuantified, TotalAgrees
  <2>4. b.levels[m].total_qty = Total(b.orders, On(b, r, m) \ {i}) % QtyMod
    BY DEF HeldBut, TotalsBut
  <2> QED
    BY <1>4, <2>1, <2>3, <2>4
<1>9. PositiveBut(c, {})
  BY <1>5 DEF HeldBut, PositiveBut, Live
<1> QED
  BY <1>7, <1>8, <1>9 DEF HeldBut, c

\* A level whose last order has gone has an empty list and nothing in its total:
\* destroy_level's assertions hold.
LEMMA EmptyDestroys ==
    ASSUME NEW b \in Book, NEW s \in Sides, NEW l \in b.sides[s].tree,
           HeldBut(b, {}), CountsIn(b), b.levels[l].order_count = 0
    PROVE  DestroyChecks(b, s, l)
<1>1. On(b, s, l) = {}
  BY OrdersAtFinite DEF CountsIn, On
<1>2. Queued(b, l, {})
  BY <1>1 DEF HeldBut, QueuesBut
<1>3. PICK n \in Nat :
        \E q \in [1..n -> OrderSlots] : Chain(b, l, n, q) /\ Entries(n, q) = {}
  BY <1>2 DEF Queued
<1>4. PICK q \in [1..n -> OrderSlots] : Chain(b, l, n, q) /\ Entries(n, q) = {}
  BY <1>3
<1>5. n = 0
  <2>1. n # 0 => q[1] \in Entries(n, q)
    BY DEF Entries
  <2> QED
    BY <1>4, <2>1
<1>6. b.levels[l].head_order_idx = kInvalid /\ b.levels[l].tail_order_idx = kInvalid
  BY <1>4, <1>5 DEF Chain
<1>7. b.levels[l].total_qty = 0
  <2>1. b.levels[l].total_qty = Total(b.orders, {}) % QtyMod
    BY <1>1 DEF HeldBut, TotalsBut
  <2> QED
    BY <2>1, TotalEmpty, WrapSum
<1> QED
  BY <1>6, <1>7 DEF DestroyChecks

\* Destroying an empty level leaves the other levels with their orders.
LEMMA CloseHeld ==
    ASSUME NEW b \in Book, LevelsSound(b), NEW s \in Sides, NEW l \in b.sides[s].tree,
           HeldBut(b, {}), CountsIn(b), b.levels[l].order_count = 0
    PROVE  LET d == RemoveAndDestroyLevel(b, s, l)
           IN  HeldBut(d, {}) /\ d.fault = b.fault
<1> DEFINE c == RemoveLevel(b, s, l)
           d == [c EXCEPT !.level_free = <<l>> \o @, !.levels[l] = NoLevel]
<1>1. RemoveAndDestroyLevel(b, s, l) = d
  BY EmptyDestroys DEF RemoveAndDestroyLevel
<1>2. l \in LevelSlots /\ \A r \in Sides : b.sides[r].tree \subseteq LevelSlots
  BY TreeLevels
<1>3. c \in Book
  BY <1>2, RemoveType
<1>4. c.levels = b.levels /\ c.orders = b.orders /\ c.fault = b.fault
  BY DEF Book, RemoveLevel
<1>5. c.sides[s].tree = b.sides[s].tree \ {l} /\ \A r \in Sides \ {s} : c.sides[r] = b.sides[r]
  BY DEF Book, RemoveLevel
<1> HIDE DEF c
<1>6. /\ d.orders = b.orders /\ d.fault = b.fault /\ d.sides = c.sides
      /\ \A m \in LevelSlots \ {l} : d.levels[m] = b.levels[m]
  BY <1>2, <1>3, <1>4 DEF Book
<1> HIDE DEF d
<1>7. \A r \in Sides \ {s} : l \notin b.sides[r].tree
  BY DEF LevelsSound, LevelsAccountedIn, Sides
<1>8. \A r \in Sides : \A m \in d.sides[r].tree :
        m \in b.sides[r].tree /\ d.levels[m] = b.levels[m] /\ On(d, r, m) = On(b, r, m)
  <2> SUFFICES ASSUME NEW r \in Sides, NEW m \in d.sides[r].tree
               PROVE  m \in b.sides[r].tree /\ d.levels[m] = b.levels[m]
                      /\ On(d, r, m) = On(b, r, m)
    OBVIOUS
  <2>1. m \in b.sides[r].tree /\ m # l
    BY <1>5, <1>6, <1>7
  <2>2. d.levels[m] = b.levels[m]
    BY <1>2, <1>6, <2>1
  <2> QED
    BY <1>6, <2>1, <2>2 DEF On, OrdersAt, Live
<1>9. QueuesBut(d, {})
  <2> SUFFICES ASSUME NEW r \in Sides, NEW m \in d.sides[r].tree
               PROVE  Queued(d, m, On(d, r, m))
    BY DEF QueuesBut
  <2>1. Queued(b, m, On(b, r, m))
    BY <1>8 DEF HeldBut, QueuesBut
  <2> QED
    BY <1>6, <1>8, <2>1, SameQueue
<1>10. TotalsBut(d, {})
  BY <1>6, <1>8 DEF TotalsBut, HeldBut
<1>11. PositiveBut(d, {})
  BY <1>6 DEF PositiveBut, HeldBut, Live
<1> QED
  BY <1>1, <1>6, <1>9, <1>10, <1>11 DEF HeldBut

\* delete_order_internal, once the order's quantity has left its level.
LEMMA DeleteInternalHeld ==
    ASSUME NEW b \in Book, LevelsSound(b), SettledBut(b, kInvalid),
           QueuesBut(b, {}), NEW i \in Live(b), TotalsBut(b, {i}), PositiveBut(b, {i}),
           NEW l \in b.sides[b.orders[i].side].tree, b.levels[l].price = b.orders[i].price
    PROVE  LET d == DeleteOrderInternal(b, i, b.orders[i].side, l)
           IN  HeldBut(d, {}) /\ d.fault = b.fault
<1> DEFINE s == b.orders[i].side
           u == Unlink(b, l, i)
           f == FreeOrder(u, l, i)
<1>1. i \in OrderSlots /\ s \in Sides /\ l \in LevelSlots
  <2>1. i \in OrderSlots /\ s \in Sides
    BY DEF Live, Book, Order
  <2> QED
    BY <2>1, TreeLevels
<1>2. HeldBut(u, {i})
  BY UnlinkHeld
<1>3. /\ u \in Book /\ SameContents(b, u) /\ SettledBut(u, kInvalid) /\ LevelsSound(u)
  <2>1. u \in Book /\ SameContents(b, u) /\ SameLevels(b, u)
    BY <1>1, UnlinkType, UnlinkSameContents, UnlinkSameLevels
  <2> QED
    BY <2>1, SameContentsSettled, SameLevelsSound
<1>4. /\ i \in Live(u) /\ u.orders[i].side = s /\ l \in u.sides[u.orders[i].side].tree
      /\ u.levels[l].price = u.orders[i].price /\ u.fault = b.fault
  BY <1>1, <1>3 DEF SameContents, Live
<1> HIDE DEF u
<1>5. HeldBut(f, {}) /\ SettledBut(f, l)
  BY <1>1, <1>2, <1>3, <1>4, FreeHeld, FreeSettled
<1>6. f \in Book /\ LevelsSound(f) /\ l \in f.sides[s].tree /\ f.fault = b.fault
  <2>1. f \in Book /\ SameLevels(u, f)
    BY <1>1, <1>3, FreeType, FreeSameLevels
  <2>2. f.fault = u.fault
    BY <1>3 DEF FreeOrder, Book
  <2> QED
    BY <1>3, <1>4, <2>1, <2>2, SameLevelsSound DEF SameLevels
<1> HIDE DEF f
<1>7. CASE f.levels[l].order_count = 0
  <2> DEFINE d == RemoveAndDestroyLevel(f, s, l)
  <2>1. HeldBut(d, {}) /\ d.fault = f.fault
    BY <1>1, <1>5, <1>6, <1>7, CloseHeld DEF SettledBut
  <2> QED
    BY <1>6, <1>7, <2>1 DEF DeleteOrderInternal, u, f
<1>8. CASE f.levels[l].order_count # 0
  BY <1>5, <1>6, <1>8 DEF DeleteOrderInternal, u, f
<1> QED
  BY <1>7, <1>8

\* Slot i, a free one, joins the list of level l with quantity q: b becomes c.
Joined(b, c, l, i, q) ==
    LET tail == b.levels[l].tail_order_idx
    IN  /\ \A m \in LevelSlots \ {l} : c.levels[m] = b.levels[m]
        /\ c.levels[l].head_order_idx =
                IF tail = kInvalid THEN i ELSE b.levels[l].head_order_idx
        /\ c.levels[l].tail_order_idx = i
        /\ c.levels[l].total_qty = (b.levels[l].total_qty + q) % QtyMod
        /\ c.orders[i].remaining_qty = q /\ c.orders[i].next_in_level = kInvalid
        /\ \A j \in OrderSlots \ {i} :
                /\ c.orders[j].remaining_qty = b.orders[j].remaining_qty
                /\ c.orders[j].next_in_level =
                        IF j = tail THEN i ELSE b.orders[j].next_in_level

\* What step 2 and the FIFO insertion of add_order do to list and orders.
LEMMA EnteredJoins ==
    ASSUME NEW b \in Book, b.order_free # << >>, NEW l \in LevelSlots, NEW id \in OrderIds,
           NEW s \in Sides, NEW p \in Nat, NEW q \in Qtys,
           b.levels[l].tail_order_idx # Head(b.order_free)
    PROVE  Joined(b, AppendToLevel(PlaceOrder(b, id, s, p, q), l, Head(b.order_free), q),
                  l, Head(b.order_free), q)
<1> DEFINE i == Head(b.order_free)
           a == PlaceOrder(b, id, s, p, q)
           c == AppendToLevel(a, l, i, q)
           tail == b.levels[l].tail_order_idx
<1>1. i \in OrderSlots /\ a \in Book
  BY PlaceType
<1>2. /\ a.levels = b.levels
      /\ a.orders[i].remaining_qty = q /\ a.orders[i].next_in_level = kInvalid
      /\ \A j \in OrderSlots \ {i} : a.orders[j] = b.orders[j]
  BY <1>1 DEF PlaceOrder, Book
<1> HIDE DEF a
<1>3. /\ c.levels = [a.levels EXCEPT ![l] = WithOrder(a.levels[l], i, q)]
      /\ c.orders = LinkedFrom(a.orders, a.levels[l].tail_order_idx, i)
  BY <1>1 DEF Book, AppendToLevel
<1> HIDE DEF c, i
<1>4. a.levels \in [LevelSlots -> Level] /\ a.orders \in [OrderSlots -> Order]
  BY <1>1 DEF Book
<1>5. \A m \in LevelSlots \ {l} : c.levels[m] = b.levels[m]
  BY <1>2, <1>3, <1>4
<1>6. c.levels[l] = WithOrder(b.levels[l], i, q) /\ b.levels[l] \in Level
  BY <1>2, <1>3, <1>4
<1>7. /\ c.levels[l].head_order_idx =
                IF tail = kInvalid THEN i ELSE b.levels[l].head_order_idx
      /\ c.levels[l].tail_order_idx = i
      /\ c.levels[l].total_qty = (b.levels[l].total_qty + q) % QtyMod
  BY <1>6 DEF WithOrder, Level
<1>8. \A j \in OrderSlots :
        /\ c.orders[j].remaining_qty = a.orders[j].remaining_qty
        /\ c.orders[j].next_in_level =
                IF tail # kInvalid /\ j = tail THEN i ELSE a.orders[j].next_in_level
  <2>1. c.orders = IF tail = kInvalid THEN a.orders
                   ELSE [a.orders EXCEPT ![tail].next_in_level = i]
    BY <1>2, <1>3 DEF LinkedFrom
  <2>2. tail \in OrderIdx
    BY <1>6 DEF Level
  <2> HIDE DEF tail
  <2> QED
    BY <1>4, <2>1, <2>2 DEF Order, OrderIdx
<1>9. \A j \in OrderSlots : j # kInvalid
  BY DEF OrderSlots, kInvalid
<1>10. tail # i
  BY DEF i
<1> HIDE DEF tail
<1> QED
  BY <1>1, <1>2, <1>5, <1>7, <1>8, <1>9, <1>10 DEF Joined, a, c, i, tail

\* The list with slot i behind its last entry.
Lengthened(n, q, i) == [m \in 1..(n + 1) |-> IF m = n + 1 THEN i ELSE q[m]]

\* In book c that is the list of level l, when it was q before.
HasJoined(c, l, n, q, i) ==
    /\ Lengthened(n, q, i) \in [1..(n + 1) -> OrderSlots]
    /\ Entries(n + 1, Lengthened(n, q, i)) = Entries(n, q) \cup {i}
    /\ Chain(c, l, n + 1, Lengthened(n, q, i))

\* The order joins the back of the list.
LEMMA JoinedChain ==
    ASSUME NEW b, NEW c, NEW l, NEW i \in OrderSlots, NEW e, Joined(b, c, l, i, e),
           NEW n \in Nat, NEW w \in [1..n -> OrderSlots], Chain(b, l, n, w),
           i \notin Entries(n, w)
    PROVE  HasJoined(c, l, n, w, i)
<1> DEFINE v == Lengthened(n, w, i)
           S == Entries(n, w)
           tail == b.levels[l].tail_order_idx
<1>3. n + 1 \in Nat /\ v \in [1..(n + 1) -> OrderSlots] /\ v[n + 1] = i
  BY DEF Lengthened
<1>4. \A m \in 1..n : v[m] = w[m] /\ w[m] \in S /\ w[m] # i /\ w[m] \in OrderSlots \ {i}
  BY DEF Entries, Lengthened
<1>5. tail = IF n = 0 THEN kInvalid ELSE w[n]
  BY DEF Chain
<1>6. tail = kInvalid <=> n = 0
  BY <1>5 DEF OrderSlots, kInvalid
<1> HIDE DEF v
<1>7. Entries(n + 1, v) = S \cup {i}
  <2>1. \A m \in 1..(n + 1) : v[m] \in S \cup {i}
    BY <1>3, <1>4
  <2>2. \A j \in S : \E m \in 1..(n + 1) : v[m] = j
    BY <1>4 DEF Entries
  <2>3. n + 1 \in 1..(n + 1)
    OBVIOUS
  <2> QED
    BY <1>3, <2>1, <2>2, <2>3 DEF Entries
<1>8. \A m, k \in 1..(n + 1) : v[m] = v[k] => m = k
  BY <1>3, <1>4 DEF Chain
<1>9. Linked(c.orders, n + 1, v)
  <2> SUFFICES ASSUME NEW m \in 1..(n + 1)
               PROVE  c.orders[v[m]].next_in_level =
                        IF m = n + 1 THEN kInvalid ELSE v[m + 1]
    BY DEF Linked
  <2>1. CASE m = n + 1
    BY <1>3, <2>1 DEF Joined
  <2>2. CASE m = n
    <3>1. v[m] = tail /\ v[m] \in OrderSlots \ {i} /\ m # n + 1 /\ m \in 1..n
      BY <1>3, <1>4, <1>5, <2>2
    <3>2. c.orders[v[m]].next_in_level = i
      BY <3>1 DEF Joined
    <3> QED
      BY <1>3, <2>2, <3>1, <3>2
  <2>3. CASE m # n /\ m # n + 1
    <3>1. m \in 1..n /\ m + 1 \in 1..n /\ n \in 1..n
      BY <2>3
    <3>2. w[m] # tail
      BY <1>5, <2>3, <3>1 DEF Chain
    <3>3. c.orders[w[m]].next_in_level = b.orders[w[m]].next_in_level
      BY <1>4, <3>1, <3>2 DEF Joined
    <3>4. b.orders[w[m]].next_in_level = w[m + 1]
      BY <2>3, <3>1 DEF Chain, Linked
    <3> QED
      BY <1>4, <2>3, <3>1, <3>3, <3>4
  <2> QED
    BY <2>1, <2>2, <2>3
<1>10. c.levels[l].head_order_idx = v[1] /\ c.levels[l].tail_order_idx = v[n + 1]
  <2>1. c.levels[l].tail_order_idx = v[n + 1]
    BY <1>3 DEF Joined
  <2>2. CASE n = 0
    BY <1>3, <1>6, <2>2 DEF Joined
  <2>3. CASE n # 0
    <3>1. b.levels[l].head_order_idx = w[1] /\ 1 \in 1..n
      BY <2>3 DEF Chain
    <3> QED
      BY <1>4, <1>6, <2>1, <2>3, <3>1 DEF Joined
  <2> QED
    BY <2>1, <2>2, <2>3
<1>11. Chain(c, l, n + 1, v)
  BY <1>8, <1>9, <1>10 DEF Chain
<1> QED
  BY <1>3, <1>7, <1>11 DEF v, S, HasJoined

\* The same of the set of orders the level queues.
LEMMA JoinedQueue ==
    ASSUME NEW b, NEW c, NEW l, NEW i \in OrderSlots, NEW q, Joined(b, c, l, i, q),
           NEW S, i \notin S, Queued(b, l, S)
    PROVE  Queued(c, l, S \cup {i})
<1>1. PICK n \in Nat :
        \E w \in [1..n -> OrderSlots] : Chain(b, l, n, w) /\ Entries(n, w) = S
  BY DEF Queued
<1>2. PICK w \in [1..n -> OrderSlots] : Chain(b, l, n, w) /\ Entries(n, w) = S
  BY <1>1
<1>3. HasJoined(c, l, n, w, i)
  <2>1. i \notin Entries(n, w) /\ Chain(b, l, n, w)
    BY <1>2
  <2> QED
    BY <2>1, JoinedChain
<1>4. n + 1 \in Nat
  OBVIOUS
<1> QED
  BY <1>2, <1>3, <1>4 DEF HasJoined, Queued

\* create_level and insert_level, for a price without a level: the new level's list
\* is empty, and no order waits for it.
LEMMA OpenHeld ==
    ASSUME NEW b \in Book, NEW s \in Sides, NEW p \in Nat, LevelsSound(b), Housed(b),
           HeldBut(b, {}), b.level_free # << >>,
           \A m \in b.sides[s].tree : b.levels[m].price # p
    PROVE  LET d == InsertLevel(CreateLevel(b, s, p), s, Head(b.level_free))
           IN  HeldBut(d, {}) /\ d.fault = b.fault
<1> DEFINE l == Head(b.level_free)
           c == CreateLevel(b, s, p)
           d == InsertLevel(c, s, l)
<1>1. b.level_free \in Seq(LevelSlots) /\ l \in LevelSlots /\ c \in Book
  BY CreateType DEF Book
<1>2. l \in Slots(b.level_free)
  BY <1>1, TailSlots DEF LevelsSound, LevelsAccountedIn
<1>3. /\ c.sides = b.sides /\ c.orders = b.orders /\ c.fault = b.fault
      /\ c.levels[l].price = p /\ c.levels[l].total_qty = 0
      /\ c.levels[l].head_order_idx = kInvalid /\ c.levels[l].tail_order_idx = kInvalid
      /\ \A m \in LevelSlots \ {l} : c.levels[m] = b.levels[m]
  BY <1>1 DEF Book, CreateLevel
<1> HIDE DEF c
<1>4. /\ d.orders = c.orders /\ d.levels = c.levels /\ d.fault = c.fault
      /\ d.sides[s].tree = c.sides[s].tree \cup {l}
      /\ \A r \in Sides \ {s} : d.sides[r] = c.sides[r]
  BY <1>1 DEF Book, InsertLevel
<1> HIDE DEF d, l
<1>5. \A r \in Sides : l \notin b.sides[r].tree /\ b.sides[r].tree \subseteq LevelSlots
  BY <1>2 DEF LevelsSound, LevelsAccountedIn, Sides, Book, Side
<1>6. \A r \in Sides : \A m \in d.sides[r].tree :
        \/ r = s /\ m = l
        \/ m \in b.sides[r].tree /\ d.levels[m] = b.levels[m]
  BY <1>3, <1>4, <1>5
<1>7. On(d, s, l) = {}
  BY <1>3, <1>4 DEF Housed, On, OrdersAt, Live
<1>8. \A r, m : d.levels[m] = b.levels[m] => On(d, r, m) = On(b, r, m)
  BY <1>3, <1>4 DEF On, OrdersAt, Live
<1>9. QueuesBut(d, {})
  <2> SUFFICES ASSUME NEW r \in Sides, NEW m \in d.sides[r].tree
               PROVE  Queued(d, m, On(d, r, m))
    BY DEF QueuesBut
  <2>1. CASE r = s /\ m = l
    <3> DEFINE q == [k \in 1..0 |-> 0]
    <3>1. q \in [1..0 -> OrderSlots] /\ Entries(0, q) = {} /\ Chain(d, l, 0, q)
      BY <1>3, <1>4 DEF Entries, Chain, Linked
    <3> QED
      BY <1>7, <2>1, <3>1 DEF Queued
  <2>2. CASE m \in b.sides[r].tree /\ d.levels[m] = b.levels[m]
    <3>1. Queued(b, m, On(b, r, m))
      BY <2>2 DEF HeldBut, QueuesBut
    <3> QED
      BY <1>3, <1>4, <1>8, <2>2, <3>1, SameQueue
  <2> QED
    BY <1>6, <2>1, <2>2
<1>10. TotalsBut(d, {})
  <2> SUFFICES ASSUME NEW r \in Sides, NEW m \in d.sides[r].tree
               PROVE  d.levels[m].total_qty = Total(d.orders, On(d, r, m)) % QtyMod
    BY DEF TotalsBut
  <2>1. CASE r = s /\ m = l
    <3>1. Total(d.orders, {}) = 0
      BY TotalEmpty
    <3>2. 0 % QtyMod = 0
      BY WrapSum
    <3>3. d.levels[m].total_qty = 0
      BY <1>3, <1>4, <2>1
    <3> QED
      BY <1>7, <2>1, <3>1, <3>2, <3>3
  <2>2. CASE m \in b.sides[r].tree /\ d.levels[m] = b.levels[m]
    BY <1>3, <1>4, <1>8, <2>2 DEF HeldBut, TotalsBut
  <2> QED
    BY <1>6, <2>1, <2>2
<1>11. PositiveBut(d, {})
  BY <1>3, <1>4 DEF HeldBut, PositiveBut, Live
<1> QED
  BY <1>3, <1>4, <1>9, <1>10, <1>11 DEF HeldBut, d, c, l

\* The tail of a level that has one is a live order.
LEMMA TailLive ==
    ASSUME NEW b \in Book, NEW l, NEW S \in SUBSET Live(b), Queued(b, l, S)
    PROVE  b.levels[l].tail_order_idx \in S \cup {kInvalid}
<1>1. PICK n \in Nat :
        \E q \in [1..n -> OrderSlots] : Chain(b, l, n, q) /\ Entries(n, q) = S
  BY DEF Queued
<1>2. PICK q \in [1..n -> OrderSlots] : Chain(b, l, n, q) /\ Entries(n, q) = S
  BY <1>1
<1>3. n # 0 => n \in 1..n
  OBVIOUS
<1> QED
  BY <1>2, <1>3 DEF Chain, Entries

\* Steps 2-4 of add_order: the order joins the back of its level's list, and its
\* quantity the level's total.
LEMMA EnterHeld ==
    ASSUME NEW b \in Book, OrdersAccountedIn(b), LevelsSound(b), HeldBut(b, {}),
           b.fault = "None", NEW s \in Sides, NEW l \in b.sides[s].tree,
           NEW id \in OrderIds, NEW q \in Qtys, q # 0
    PROVE  Held(EnterOrder(b, l, id, s, b.levels[l].price, q))
<1> DEFINE p == b.levels[l].price
           i == Head(b.order_free)
           c == AppendToLevel(PlaceOrder(b, id, s, p, q), l, i, q)
<1>1. l \in LevelSlots /\ p \in Nat /\ \A r \in Sides : b.sides[r].tree \subseteq LevelSlots
  BY TreeLevels
<1>2. CASE b.order_free = << >> \/ MapRefuses(b)
  <2>1. \A why \in {"OrderPool", "MapFull"} : Held(Fail(b, why))
    BY DEF Fail, Book, Held
  <2> QED
    BY <1>2, <2>1 DEF EnterOrder
<1>3. CASE b.order_free # << >> /\ ~MapRefuses(b)
  <2>1. EnterOrder(b, l, id, s, p, q) = c
    BY <1>3 DEF EnterOrder
  <2> HIDE DEF p
  <2>2. /\ c.sides = b.sides /\ c.fault = b.fault
        /\ i \in OrderSlots /\ i \notin Live(b) /\ Live(c) = Live(b) \cup {i}
        /\ \A m \in LevelSlots : c.levels[m].price = b.levels[m].price
        /\ c.orders[i].side = s /\ c.orders[i].price = p
        /\ \A j \in OrderSlots \ {i} : /\ c.orders[j].side = b.orders[j].side
                                       /\ c.orders[j].price = b.orders[j].price
    BY <1>1, <1>3, EnteredContents
  <2>3. \A r, m : On(b, r, m) \in SUBSET Live(b) /\ i \notin On(b, r, m)
    BY <2>2 DEF On, OrdersAt
  <2>4. b.levels[l].tail_order_idx # i
    <3>1. Queued(b, l, On(b, s, l))
      BY DEF HeldBut, QueuesBut
    <3>2. i # kInvalid
      BY <2>2 DEF OrderSlots, kInvalid
    <3> QED
      BY <2>3, <3>1, <3>2, TailLive
  <2>5. Joined(b, c, l, i, q)
    BY <1>1, <1>3, <2>4, EnteredJoins
  <2> HIDE DEF c, i
  <2>6. \A r \in Sides : \A m \in b.sides[r].tree :
            On(c, r, m) = IF m = l THEN On(b, r, m) \cup {i} ELSE On(b, r, m)
    <3>1. \A r \in Sides : \A m \in b.sides[r].tree :
            r = s /\ b.levels[m].price = p <=> m = l
      BY OwnLevel DEF p
    <3>2. \A r, t : OrdersAt(c, r, t) = IF r = s /\ t = p THEN OrdersAt(b, r, t) \cup {i}
                                       ELSE OrdersAt(b, r, t)
      BY <2>2 DEF OrdersAt, Live
    <3>3. \A r \in Sides : \A m \in b.sides[r].tree :
            /\ On(c, r, m) = OrdersAt(c, r, b.levels[m].price)
            /\ On(b, r, m) = OrdersAt(b, r, b.levels[m].price)
      BY <1>1, <2>2 DEF On
    <3> QED
      BY <3>1, <3>2, <3>3
  <2>7. QueuesBut(c, {})
    <3> SUFFICES ASSUME NEW r \in Sides, NEW m \in b.sides[r].tree
                 PROVE  Queued(c, m, On(c, r, m))
      BY <2>2 DEF QueuesBut
    <3>1. Queued(b, m, On(b, r, m))
      BY DEF HeldBut, QueuesBut
    <3>2. CASE m = l
      BY <2>2, <2>3, <2>5, <2>6, <3>1, <3>2, JoinedQueue
    <3>3. CASE m # l
      <4>1. c.levels[m] = b.levels[m]
        BY <1>1, <2>5, <3>3 DEF Joined
      <4>2. b.levels[l].tail_order_idx \notin On(b, r, m)
        <5>1. b.levels[l].tail_order_idx \in On(b, s, l) \cup {kInvalid}
          BY <2>3, TailLive DEF HeldBut, QueuesBut
        <5>2. On(b, s, l) \cap On(b, r, m) = {}
          BY <3>3, OnDisjoint
        <5>3. kInvalid \notin On(b, r, m)
          BY DEF On, OrdersAt, Live, OrderSlots, kInvalid
        <5> QED
          BY <5>1, <5>2, <5>3
      <4>3. \A j \in On(b, r, m) : c.orders[j].next_in_level = b.orders[j].next_in_level
        BY <2>3, <2>5, <4>2 DEF Joined, Live
      <4> QED
        BY <2>6, <3>1, <3>3, <4>1, <4>3, SameQueue
    <3> QED
      BY <3>2, <3>3
  <2>8. TotalsBut(c, {})
    <3> SUFFICES ASSUME NEW r \in Sides, NEW m \in b.sides[r].tree
                 PROVE  c.levels[m].total_qty = Total(c.orders, On(c, r, m)) % QtyMod
      BY <2>2 DEF TotalsBut
    <3>1. b.levels[m].total_qty = Total(b.orders, On(b, r, m)) % QtyMod
      BY DEF HeldBut, TotalsBut
    <3>2. \A j \in On(b, r, m) : c.orders[j].remaining_qty = b.orders[j].remaining_qty
      BY <2>3, <2>5 DEF Joined, Live
    <3>3. Total(c.orders, On(b, r, m)) = Total(b.orders, On(b, r, m))
      BY <3>2, OnQuantified, TotalAgrees
    <3>4. CASE m = l
      <4> DEFINE D == On(b, r, m)
                 T == Total(b.orders, D)
      <4>1. q \in Nat /\ c.orders[i].remaining_qty = q
        BY <2>5, RequestAssumption DEF Qtys, Joined
      <4>2. \A j \in D : b.orders[j].remaining_qty \in Nat
        BY OnQuantified DEF Quantified
      <4>3. Quantified(c.orders, D \cup {i})
        BY <3>2, <4>1, <4>2 DEF Quantified
      <4>4. IsFiniteSet(D \cup {i}) /\ (D \cup {i}) \ {i} = D
        BY <2>3, OnQuantified, FS_AddElement
      <4>5. Total(c.orders, D \cup {i}) = q + T /\ T \in Nat
        BY <3>3, <4>1, <4>3, <4>4, TotalSplits
      <4>6. c.levels[m].total_qty = ((T % QtyMod) + q) % QtyMod
        BY <2>5, <3>1, <3>4 DEF Joined
      <4>7. On(c, r, m) = D \cup {i}
        BY <2>6, <3>4
      <4> HIDE DEF T, D
      <4>8. T + q = q + T /\ T \in Int /\ q \in Int
        BY <4>1, <4>5
      <4> QED
        BY <4>5, <4>6, <4>7, <4>8, WrapSum
    <3>5. CASE m # l
      <4>1. c.levels[m] = b.levels[m]
        BY <1>1, <2>5, <3>5 DEF Joined
      <4> QED
        BY <2>6, <3>1, <3>3, <3>5, <4>1
    <3> QED
      BY <3>4, <3>5
  <2>9. PositiveBut(c, {})
    <3>1. q > 0
      BY RequestAssumption DEF Qtys
    <3> QED
      BY <2>2, <2>5, <3>1 DEF PositiveBut, HeldBut, Joined, Live
  <2> QED
    BY <2>1, <2>2, <2>7, <2>8, <2>9 DEF Held, HeldBut, p
<1> QED
  BY <1>2, <1>3
-----------------------------------------------------------------------------
(* The requests.                                                           *)

\* A failed request, or a full structure, is not the code's own bookkeeping.
LEMMA FailHeld ==
    ASSUME NEW b \in Book, NEW why, why # "None", why # "Internal"
    PROVE  Held(Fail(b, why))
BY DEF Fail, Book, Held

\* add_order.
LEMMA AddHeld ==
    ASSUME NEW b \in Book, OrdersAccountedIn(b), LevelsSound(b), SettledBut(b, kInvalid),
           HeldBut(b, {}), b.fault = "None",
           NEW id \in OrderIds, NEW s \in Sides, NEW p \in Nat, NEW q \in Qtys
    PROVE  Held(AddOrder(b, id, s, p, q))
<1> DEFINE l == FindByPrice(b, s, p)
           new == Head(b.level_free)
           c == CreateLevel(b, s, p)
           d == InsertLevel(c, s, new)
<1>1. \A why \in {"Request", "LevelPool", "TickRange"} : Held(Fail(b, why))
  BY FailHeld
<1>2. CASE q = 0
  BY <1>1, <1>2 DEF AddOrder
<1>3. CASE q # 0 /\ l # kInvalid
  <2>1. l \in b.sides[s].tree /\ b.levels[l].price = p
    BY <1>3, FindSound
  <2>2. Held(EnterOrder(b, l, id, s, p, q))
    BY <1>3, <2>1, EnterHeld
  <2> QED
    BY <1>1, <1>3, <2>2 DEF AddOrder
<1>4. CASE q # 0 /\ l = kInvalid /\ b.level_free # << >> /\ p < MaxTicks
  <2>1. c \in Book /\ new \in LevelSlots /\ c.levels[new].price = p
    BY <1>4, CreateType
  <2>2. d \in Book
    BY <1>4, <2>1, InsertType
  <2>3. LevelsSound(d) /\ HeldBut(d, {}) /\ d.fault = "None"
    <3>1. \A m \in b.sides[s].tree : b.levels[m].price # p
      BY <1>4, FindSound
    <3> QED
      BY <1>4, <3>1, OpenSound, OpenHeld DEF SettledBut
  <2>4. OrdersAccountedIn(d)
    <3>1. SameOrders(b, c) /\ OrdersAccountedIn(c)
      BY <2>1, CreateSame, SameOrdersAccounted
    <3> HIDE DEF c
    <3>2. SameOrders(c, d)
      BY <2>1, InsertSame
    <3> QED
      BY <2>1, <2>2, <3>1, <3>2, SameOrdersAccounted
  <2>5. new \in d.sides[s].tree /\ d.levels[new].price = p
    <3> HIDE DEF c, new
    <3> QED
      BY <2>1 DEF Book, InsertLevel
  <2> HIDE DEF d
  <2>6. Held(EnterOrder(d, new, id, s, p, q))
    BY <1>4, <2>2, <2>3, <2>4, <2>5, EnterHeld
  <2> QED
    BY <1>1, <1>4, <2>6 DEF AddOrder, d
<1>5. CASE q # 0 /\ l = kInvalid /\ (b.level_free = << >> \/ ~(p < MaxTicks))
  BY <1>1, <1>5, CapacityAssumption DEF AddOrder
<1> QED
  BY <1>2, <1>3, <1>4, <1>5

\* Taking off a level the quantity of one of its orders, or part of it.
LEMMA DropTakes ==
    ASSUME NEW b \in Book, NEW i \in OrderSlots, NEW l \in LevelSlots, NEW e \in Qtys
    PROVE  /\ TakesQty(b, DropQty(b, l, e), i, l, e)
           /\ TakesQty(b, DropQty([b EXCEPT !.orders[i].remaining_qty = @ - e], l, e), i, l, e)
BY DEF Book, Level, Order, DropQty, TakesQty

\* cancel_order and execute_order.
LEMMA CancelHeld ==
    ASSUME NEW b \in Book, OrdersAccountedIn(b), LevelsSound(b), SettledBut(b, kInvalid),
           HeldBut(b, {}), b.fault = "None", NEW id \in OrderIds, NEW q \in Qtys
    PROVE  Held(CancelOrder(b, id, q))
<1> DEFINE i == b.order_map[id]
           o == b.orders[i]
           l == FindByPrice(b, o.side, o.price)
           less == [b EXCEPT !.orders[i].remaining_qty = @ - q]
           r == DropQty(less, l, q)
<1>1. Held(Fail(b, "Request"))
  BY FailHeld
<1>2. CASE id \in DOMAIN b.order_map /\ q <= o.remaining_qty
  <2>1. /\ i \in Live(b) /\ i \in OrderSlots /\ o \in Order
        /\ o.side \in Sides /\ o.price \in Nat /\ o.remaining_qty \in Nat /\ q \in Nat
        /\ l # kInvalid /\ l \in LevelSlots /\ l \in b.sides[o.side].tree
        /\ b.levels[l].price = o.price
    BY <1>2, LookupHoused, QtyNat
  <2>2. [o EXCEPT !.remaining_qty = @ - q] \in Order
    <3>1. o \in Order
      BY <2>1
    <3> QED
      BY <1>2, <3>1, RequestAssumption DEF Order, Qtys
  <2>3. /\ less \in Book /\ SameLevels(b, less) /\ SameContents(b, less)
        /\ less.orders[i].remaining_qty = o.remaining_qty - q /\ less.fault = b.fault
    BY <2>1, <2>2 DEF Book, SameLevels, SameContents, Order
  <2>4. TakesQty(b, r, i, l, q)
    <3> HIDE DEF l
    <3> QED
      BY <2>1, DropTakes
  <2> HIDE DEF less, l
  <2>5. /\ r \in Book /\ SameLevels(less, r) /\ SameContents(less, r)
        /\ r.orders = less.orders /\ r.fault = less.fault
    BY <2>1, <2>3, DropType, DropSameLevels, DropSameContents DEF DropQty, Book
  <2> HIDE DEF r
  <2>6. LevelsSound(r) /\ SettledBut(r, kInvalid)
    BY <2>3, <2>5, SameLevelsSound, SameContentsSettled
  <2>7. /\ i \in Live(r) /\ r.orders[i].side = o.side
        /\ l \in r.sides[r.orders[i].side].tree /\ r.levels[l].price = r.orders[i].price
    BY <2>1, <2>3, <2>5 DEF SameContents, Live
  <2>8. /\ QueuesBut(r, {}) /\ PositiveBut(r, {i}) /\ TotalsBut(r, {})
        /\ q = o.remaining_qty => TotalsBut(r, {i})
    BY <2>1, <2>3, <2>4, <2>5, TakesHeld
  <2>9. CASE q = o.remaining_qty
    <3>1. Held(DeleteOrderInternal(r, i, o.side, l))
      BY <2>3, <2>5, <2>6, <2>7, <2>8, <2>9, DeleteInternalHeld DEF Held
    <3>2. ~(q > o.remaining_qty)
      BY <2>1, <2>9
    <3> QED
      BY <1>2, <2>1, <2>9, <3>1, <3>2 DEF CancelOrder, less, r, l
  <2>10. CASE q # o.remaining_qty
    <3>1. r.orders[i].remaining_qty > 0
      BY <1>2, <2>1, <2>3, <2>5, <2>10
    <3>2. Held(r)
      BY <2>3, <2>5, <2>8, <3>1 DEF Held, HeldBut, PositiveBut
    <3>3. ~(q > o.remaining_qty)
      BY <1>2, <2>1
    <3> QED
      BY <1>2, <2>1, <2>10, <3>2, <3>3 DEF CancelOrder, less, r, l
  <2> QED
    BY <2>9, <2>10
<1>3. CASE id \in DOMAIN b.order_map /\ q > o.remaining_qty
  BY <1>1, <1>3 DEF CancelOrder
<1>4. CASE id \notin DOMAIN b.order_map
  BY <1>1, <1>4 DEF CancelOrder
<1>5. id \in DOMAIN b.order_map => q <= o.remaining_qty \/ q > o.remaining_qty
  BY LookupType DEF Order, Qtys
<1> QED
  BY <1>2, <1>3, <1>4, <1>5

\* delete_order.
LEMMA DeleteHeld ==
    ASSUME NEW b \in Book, OrdersAccountedIn(b), LevelsSound(b), SettledBut(b, kInvalid),
           HeldBut(b, {}), b.fault = "None", NEW id \in OrderIds
    PROVE  Held(DeleteOrder(b, id))
<1> DEFINE i == b.order_map[id]
           o == b.orders[i]
           l == FindByPrice(b, o.side, o.price)
           r == DropQty(b, l, o.remaining_qty)
<1>1. Held(Fail(b, "Request"))
  BY FailHeld
<1>2. CASE id \in DOMAIN b.order_map
  <2>1. /\ i \in Live(b) /\ i \in OrderSlots /\ o \in Order
        /\ o.side \in Sides /\ o.price \in Nat /\ o.remaining_qty \in Qtys
        /\ o.remaining_qty \in Nat
        /\ l # kInvalid /\ l \in LevelSlots /\ l \in b.sides[o.side].tree
        /\ b.levels[l].price = o.price
    BY <1>2, LookupHoused, QtyNat
  <2> HIDE DEF l
  <2>2. /\ r \in Book /\ SameLevels(b, r) /\ SameContents(b, r)
        /\ TakesQty(b, r, i, l, o.remaining_qty) /\ r.fault = b.fault
    BY <2>1, DropType, DropSameLevels, DropSameContents, DropTakes DEF DropQty, Book
  <2> HIDE DEF r
  <2>3. LevelsSound(r) /\ SettledBut(r, kInvalid)
    BY <2>2, SameLevelsSound, SameContentsSettled
  <2>4. /\ i \in Live(r) /\ r.orders[i].side = o.side
        /\ l \in r.sides[r.orders[i].side].tree /\ r.levels[l].price = r.orders[i].price
    BY <2>1, <2>2 DEF SameContents, Live
  <2>5. QueuesBut(r, {}) /\ PositiveBut(r, {i}) /\ TotalsBut(r, {i})
    BY <2>1, <2>2, TakesHeld
  <2>6. Held(DeleteOrderInternal(r, i, o.side, l))
    BY <2>2, <2>3, <2>4, <2>5, DeleteInternalHeld DEF Held
  <2> QED
    BY <1>2, <2>1, <2>6 DEF DeleteOrder, r, l
<1> QED
  BY <1>1, <1>2 DEF DeleteOrder

\* The second half of replace_order and modify_order.
LEMMA ThenAddHeld ==
    ASSUME NEW b \in Book, OrdersAccountedIn(b), LevelsSound(b), Settled(b), Held(b),
           NEW id \in OrderIds, NEW s \in Sides, NEW p \in Nat, NEW q \in Qtys
    PROVE  Held(Then(b, AddOrder(b, id, s, p, q)))
BY AddHeld DEF Settled, Held, Then

\* replace_order.
LEMMA ReplaceHeld ==
    ASSUME NEW b \in Book, OrdersAccountedIn(b), LevelsSound(b), SettledBut(b, kInvalid),
           HeldBut(b, {}), b.fault = "None",
           NEW id \in OrderIds, NEW new \in OrderIds, NEW s \in Sides, NEW p \in Nat,
           NEW q \in Qtys
    PROVE  Held(ReplaceOrder(b, id, new, s, p, q))
BY DeleteType, DeleteAccounted, DeleteSound, DeleteSettled, DeleteHeld, ThenAddHeld
   DEF ReplaceOrder

\* modify_order.
LEMMA ModifyHeld ==
    ASSUME NEW b \in Book, OrdersAccountedIn(b), LevelsSound(b), SettledBut(b, kInvalid),
           HeldBut(b, {}), b.fault = "None", NEW id \in OrderIds, NEW q \in Qtys
    PROVE  Held(ModifyOrder(b, id, q))
<1> DEFINE o == b.orders[b.order_map[id]]
           d == DeleteOrder(b, id)
<1>1. Held(Fail(b, "Request"))
  BY FailHeld
<1>2. CASE id \in DOMAIN b.order_map
  <2>1. o.side \in Sides /\ o.price \in Nat /\ o.remaining_qty \in Qtys
    BY <1>2, LookupType DEF Order
  <2>2. q < o.remaining_qty => o.remaining_qty - q \in Qtys
    BY <2>1, RequestAssumption DEF Qtys
  <2>3. q < o.remaining_qty => Held(CancelOrder(b, id, o.remaining_qty - q))
    BY <2>2, CancelHeld
  <2>4. Held(Then(d, AddOrder(d, id, o.side, o.price, q)))
    BY <2>1, DeleteType, DeleteAccounted, DeleteSound, DeleteSettled, DeleteHeld, ThenAddHeld
  <2>5. Held(b)
    BY DEF Held
  <2> QED
    BY <1>2, <2>3, <2>4, <2>5 DEF ModifyOrder
<1> QED
  BY <1>1, <1>2 DEF ModifyOrder

\* A new book has neither orders nor levels.
LEMMA InitHeld == Held(InitialBook)
<1>1. \A s \in Sides : InitialBook.sides[s].tree = {}
  BY DEF InitialBook
<1>2. Live(InitialBook) = {} /\ InitialBook.fault = "None"
  BY DEF InitialBook, Live, NoOrder
<1> QED
  BY <1>1, <1>2 DEF Held, HeldBut, QueuesBut, TotalsBut, PositiveBut
-----------------------------------------------------------------------------
(* The theorems.                                                           *)

\* What a book that holds its lists says of a level is what LevelsExact says.
LEMMA HeldLevels ==
    ASSUME book \in Book, BookSound(book), Held(book)
    PROVE  LevelsExact
<1> SUFFICES ASSUME Running, NEW s \in Sides, NEW l \in book.sides[s].tree
    PROVE  LET lvl == book.levels[l]
               fifo == Fifo(book, l)
           IN  /\ fifo # << >> /\ NoDuplicates(fifo)
               /\ Slots(fifo) = {i \in LiveOrders : /\ book.orders[i].side = lvl.side
                                                   /\ book.orders[i].price = lvl.price}
               /\ \A i \in Slots(fifo) : book.orders[i].remaining_qty > 0
               /\ lvl.tail_order_idx = fifo[Len(fifo)]
               /\ book.orders[lvl.tail_order_idx].next_in_level = kInvalid
               /\ lvl.order_count = Len(fifo)
               /\ lvl.total_qty = SumQty(Slots(fifo))
  BY DEF LevelsExact, OpenLevels, Sides
<1> DEFINE lvl == book.levels[l]
           D == On(book, s, l)
<1>1. HeldBut(book, {}) /\ SettledBut(book, kInvalid) /\ LevelsSound(book)
  BY DEF Held, BookSound, Settled, Running
<1>2. l \in LevelSlots /\ l # kInvalid
  BY <1>1, TreeLevels DEF LevelSlots, kInvalid
<1>3. Queued(book, l, D)
  BY <1>1 DEF HeldBut, QueuesBut
<1>4. PICK n \in Nat :
        \E q \in [1..n -> OrderSlots] : Chain(book, l, n, q) /\ Entries(n, q) = D
  BY <1>3 DEF Queued
<1>5. PICK q \in [1..n -> OrderSlots] : Chain(book, l, n, q) /\ Entries(n, q) = D
  BY <1>4
<1>6. Fifo(book, l) = q
  BY <1>2, <1>5, FifoOfChain
<1>7. q \in Seq(OrderSlots) /\ Len(q) = n /\ DOMAIN q = 1..n
  <2>1. q \in Seq(OrderSlots)
    BY SeqDef
  <2> QED
    BY <2>1, LenProperties
<1>8. n # 0 /\ n \in 1..n
  <2>1. D # {}
    BY <1>1, <1>2 DEF SettledBut, InhabitedBut, On
  <2> QED
    BY <1>5, <2>1 DEF Entries
<1>9. q # << >> /\ NoDuplicates(q) /\ Slots(q) = D
  <2>1. Slots(q) = D
    BY <1>5, <1>7 DEF Slots, Entries
  <2>2. NoDuplicates(q)
    BY <1>5, <1>7 DEF NoDuplicates, Chain
  <2> QED
    BY <1>7, <1>8, <2>1, <2>2
<1>10. lvl.side = s
  BY <1>1 DEF LevelsSound, DenseExactIn
<1>11. D = {i \in LiveOrders : /\ book.orders[i].side = lvl.side
                               /\ book.orders[i].price = lvl.price}
  BY <1>10 DEF On, OrdersAt, LiveOrders
<1>12. \A i \in D : book.orders[i].remaining_qty > 0
  BY <1>1 DEF HeldBut, PositiveBut, On, OrdersAt
<1>13. lvl.tail_order_idx = q[n] /\ book.orders[q[n]].next_in_level = kInvalid
  BY <1>5, <1>8 DEF Chain, Linked
<1>14. lvl.order_count = n
  <2>1. lvl.order_count = Cardinality(D)
    BY <1>1 DEF SettledBut, CountsIn, On
  <2>2. q \in Surjection(1..n, D) /\ q \in Injection(1..n, D)
    <3>1. q \in [1..n -> D] /\ \A i \in D : \E m \in 1..n : q[m] = i
      BY <1>5 DEF Entries
    <3> QED
      BY <1>5, <3>1 DEF Surjection, Injection, IsInjective, Chain
  <2>3. IsFiniteSet(1..n) /\ Cardinality(1..n) = n
    BY FS_Interval
  <2>4. Cardinality(D) = Cardinality(1..n)
    BY <2>2, <2>3, FS_Surjection
  <2> QED
    BY <2>1, <2>3, <2>4
<1>15. lvl.total_qty = SumQty(D)
  <2>1. SumQty(D) = Total(book.orders, D) % QtyMod
    BY DEF SumQty, Total
  <2> QED
    BY <1>1, <2>1 DEF HeldBut, TotalsBut
<1> HIDE DEF D, lvl
<1> QED
  BY <1>6, <1>7, <1>9, <1>11, <1>12, <1>13, <1>14, <1>15 DEF lvl

\* Every reachable book holds its lists: unless an assertion has failed, the list of
\* each level is a chain, from head_order_idx to tail_order_idx, of exactly the live
\* orders of the level's side and price, whose quantities are positive and sum up to
\* total_qty; and the assertion that failed is not one about the lists.
THEOREM ListsAlwaysHeld == Spec => []Held(book)
<1>1. Init => Held(book)
  BY InitHeld DEF Init
<1>2. TypeOK /\ BookSound(book) /\ Held(book) /\ [Next]_book => Held(book)'
  <2> SUFFICES ASSUME book \in Book, OrdersAccountedIn(book), LevelsSound(book),
                      Settled(book), Held(book), [Next]_book
               PROVE  Held(book')
    BY DEF TypeOK, BookSound
  <2>1. CASE UNCHANGED book
    BY <2>1
  <2>2. CASE Running /\ Next
    <3>1. SettledBut(book, kInvalid) /\ HeldBut(book, {}) /\ book.fault = "None"
      BY <2>2 DEF Settled, Held, Running
    <3>2. CASE Add
      <4>1. PICK id \in OrderIds, s \in Sides, p \in Prices, q \in Qtys :
                    book' = AddOrder(book, id, s, p, q)
        BY <3>2 DEF Add
      <4>2. p \in Nat
        BY RequestAssumption
      <4> QED
        BY <3>1, <4>1, <4>2, AddHeld
    <3>3. CASE Cancel
      BY <3>1, <3>3, CancelHeld DEF Cancel
    <3>4. CASE Execute
      BY <3>1, <3>4, CancelHeld DEF Execute, ExecuteOrder
    <3>5. CASE Delete
      BY <3>1, <3>5, DeleteHeld DEF Delete
    <3>6. CASE Replace
      <4>1. PICK id \in OrderIds, new \in OrderIds, s \in Sides, p \in Prices, q \in Qtys :
                    book' = ReplaceOrder(book, id, new, s, p, q)
        BY <3>6 DEF Replace
      <4>2. p \in Nat
        BY RequestAssumption
      <4> QED
        BY <3>1, <4>1, <4>2, ReplaceHeld
    <3>7. CASE Modify
      BY <3>1, <3>7, ModifyHeld DEF Modify
    <3> QED
      BY <2>2, <3>2, <3>3, <3>4, <3>5, <3>6, <3>7 DEF Next
  <2>3. Next => Running
    BY DEF Next, Add, Cancel, Execute, Delete, Replace, Modify
  <2> QED
    BY <2>1, <2>2, <2>3
<1> QED
  BY <1>1, <1>2, TypeCorrect, BookAlwaysSound, PTL DEF Spec

\* Everything OrderBookVerifier checks of a level holds in every reachable book.
THEOREM LevelsAlwaysExact == Spec => []LevelsExact
<1>1. TypeOK /\ BookSound(book) /\ Held(book) => LevelsExact
  BY HeldLevels DEF TypeOK
<1> QED
  BY <1>1, TypeCorrect, BookAlwaysSound, ListsAlwaysHeld, PTL

\* No request, legal or not, makes an assertion about the book's own bookkeeping
\* fail: a lookup of a live order finds its level, and a level is only destroyed
\* once its list, its count and its total are all empty.
THEOREM NeverInternal == Spec => [](book.fault # "Internal")
<1>1. Held(book) => book.fault # "Internal"
  BY DEF Held
<1> QED
  BY <1>1, ListsAlwaysHeld, PTL

-----------------------------------------------------------------------------

(* The id map's capacity.                                                  *)

IsPower(N, f) == f = [k \in 0..N |-> IF k = 0 THEN 1 ELSE 2 * f[k - 1]]

\* The powers of two are defined, for every exponent: induction on the exponent.
LEMMA PowerExists ==
    ASSUME NEW N \in Nat
    PROVE  \E f : IsPower(N, f)
<1> DEFINE bad == {M \in Nat : ~ \E f : IsPower(M, f)}
<1> SUFFICES ASSUME bad # {}
             PROVE  FALSE
  OBVIOUS
<1>1. PICK M \in bad : \A K \in bad : M <= K
  BY LeastNatural
<1>2. CASE M = 0
  <2> DEFINE f == [k \in 0..0 |-> 1]
  <2>1. f = [k \in 0..0 |-> IF k = 0 THEN 1 ELSE 2 * f[k - 1]]
    OBVIOUS
  <2>2. IsPower(0, f)
    BY <2>1 DEF IsPower
  <2> QED
    BY <1>1, <1>2, <2>2
<1>3. CASE M # 0
  <2>1. M - 1 \in Nat /\ M - 1 \notin bad
    BY <1>1, <1>3
  <2>2. PICK g : IsPower(M - 1, g)
    BY <2>1
  <2> DEFINE f == [k \in 0..M |-> IF k = 0 THEN 1 ELSE 2 * g[k - 1]]
  <2>3. \A k \in 0..(M - 1) : f[k] = g[k]
    <3> SUFFICES ASSUME NEW k \in 0..(M - 1)
                 PROVE  f[k] = g[k]
      OBVIOUS
    <3>1. g[k] = IF k = 0 THEN 1 ELSE 2 * g[k - 1]
      BY <2>2 DEF IsPower
    <3>2. k \in 0..M
      BY <1>1
    <3> QED
      BY <3>1, <3>2
  <2>4. f = [k \in 0..M |-> IF k = 0 THEN 1 ELSE 2 * f[k - 1]]
    <3>1. \A k \in 0..M : k # 0 => g[k - 1] = f[k - 1]
      <4> SUFFICES ASSUME NEW k \in 0..M, k # 0
                   PROVE  g[k - 1] = f[k - 1]
        OBVIOUS
      <4>1. k - 1 \in 0..(M - 1)
        BY <1>1
      <4> HIDE DEF f
      <4> QED
        BY <2>3, <4>1
    <3> QED
      BY <3>1
  <2>5. IsPower(M, f)
    BY <2>4 DEF IsPower
  <2> QED
    BY <1>1, <2>5
<1> QED
  BY <1>2, <1>3

\* They are naturals above their exponent: induction on the exponent.
LEMMA PowerGrows ==
    ASSUME NEW N \in Nat, NEW f, IsPower(N, f)
    PROVE  \A k \in 0..N : f[k] \in Nat /\ f[k] > k
<1> DEFINE bad == {k \in Nat : k \in 0..N /\ ~(f[k] \in Nat /\ f[k] > k)}
<1> SUFFICES ASSUME bad # {}
             PROVE  FALSE
  OBVIOUS
<1>1. PICK k \in bad : \A j \in bad : k <= j
  BY LeastNatural
<1>2. f[k] = IF k = 0 THEN 1 ELSE 2 * f[k - 1]
  BY <1>1 DEF IsPower
<1>3. k # 0 => f[k - 1] \in Nat /\ f[k - 1] > k - 1
  BY <1>1
<1> QED
  BY <1>1, <1>2, <1>3

\* next_power_of_two finds a power of two.
LEMMA MapCapacityType == MapCapacity \in Nat
<1> DEFINE n == MaxOrders
           power == CHOOSE f : IsPower(n, f)
           enough == {k \in 0..n : power[k] >= n}
           least == CHOOSE k \in enough : \A j \in enough : k <= j
<1>1. n \in Nat
  BY CapacityAssumption
<1>2. IsPower(n, power)
  BY <1>1, PowerExists
<1>3. MapCapacity = power[least]
  BY DEF MapCapacity, NextPowerOfTwo, IsPower
<1> HIDE DEF power, n
<1>4. \A k \in 0..n : power[k] \in Nat /\ power[k] > k
  BY <1>1, <1>2, PowerGrows
<1>5. enough # {} /\ enough \in SUBSET Nat
  <2>1. n \in 0..n
    BY <1>1
  <2>2. power[n] > n /\ power[n] \in Nat
    BY <1>4, <2>1
  <2> QED
    BY <1>1, <2>1, <2>2
<1>6. least \in enough
  <2>1. \E k \in enough : \A j \in enough : k <= j
    BY <1>5, LeastNatural
  <2> QED
    BY <2>1
<1> QED
  BY <1>3, <1>4, <1>6

\* The map refuses exactly from its limit on.
LEMMA RefusesAtLimit ==
    ASSUME NEW b, Cardinality(DOMAIN b.order_map) \in Nat
    PROVE  /\ MapLimit \in Int /\ OrderLimit \in Int
           /\ MapRefuses(b) <=> Cardinality(DOMAIN b.order_map) >= MapLimit
           /\ OrderLimit <= MapLimit /\ OrderLimit <= MaxOrders
           /\ OrderLimit = MapLimit \/ OrderLimit = MaxOrders
<1> DEFINE n == Cardinality(DOMAIN b.order_map)
           C == MapCapacity
<1>1. C \in Nat /\ n \in Nat /\ MaxOrders \in Nat
  BY MapCapacityType, CapacityAssumption
<1> HIDE DEF n, C
<1>2. (3 * C - 1) \div 4 \in Int
  BY <1>1
<1>3. 4 * (n + 1) >= 3 * C <=> n >= (3 * C - 1) \div 4
  BY <1>1
<1>4. MapLimit = (3 * C - 1) \div 4 /\ (MapRefuses(b) <=> 4 * (n + 1) >= 3 * C)
  BY DEF MapLimit, MapRefuses, n, C
<1> QED
  BY <1>1, <1>2, <1>3, <1>4 DEF OrderLimit, n
-----------------------------------------------------------------------------
(* The queues a book stands for.                                           *)

\* Every request carries one of Prices, so every live order has one.
Asked(b) == \A i \in Live(b) : b.orders[i].price \in Prices

\* What the theorems of the other modules say of a running book.
Whole(b) ==
    /\ b.fault = "None" /\ b \in Book
    /\ OrdersAccountedIn(b) /\ LevelsSound(b)
    /\ SettledBut(b, kInvalid) /\ HeldBut(b, {})

\* q lists the orders of side s at price p, oldest first; without a level it is empty.
Lists(b, s, p, n, q) ==
    \/ n = 0 /\ \A l \in b.sides[s].tree : b.levels[l].price # p
    \/ \E l \in b.sides[s].tree : b.levels[l].price = p /\ Chain(b, l, n, q)

\* A list of orders, as the abstract book shows it.
Row(b, n, q) == [m \in 1..n |-> [id  |-> b.orders[q[m]].order_id,
                                 qty |-> b.orders[q[m]].remaining_qty]]

\* A list that holds exactly the orders of its side and price, each once.
FullList(b, s, p, n, q) ==
    /\ Lists(b, s, p, n, q) /\ Entries(n, q) = OrdersAt(b, s, p)
    /\ \A m, k \in 1..n : q[m] = q[k] => m = k

\* Every side and price has such a list ...
LEMMA ListsExist ==
    ASSUME NEW b, Whole(b), NEW s \in Sides, NEW p
    PROVE  \E n \in Nat : \E q \in [1..n -> OrderSlots] : FullList(b, s, p, n, q)
<1>1. CASE \E l \in b.sides[s].tree : b.levels[l].price = p
  <2>1. PICK l \in b.sides[s].tree : b.levels[l].price = p
    BY <1>1
  <2>2. Queued(b, l, OrdersAt(b, s, p))
    BY <2>1 DEF Whole, HeldBut, QueuesBut, On
  <2>3. PICK n \in Nat :
          \E q \in [1..n -> OrderSlots] : Chain(b, l, n, q) /\ Entries(n, q) = OrdersAt(b, s, p)
    BY <2>2 DEF Queued
  <2>4. PICK q \in [1..n -> OrderSlots] :
            Chain(b, l, n, q) /\ Entries(n, q) = OrdersAt(b, s, p)
    BY <2>3
  <2>5. FullList(b, s, p, n, q)
    BY <2>1, <2>4 DEF FullList, Lists, Chain
  <2> QED
    BY <2>5
<1>2. CASE \A l \in b.sides[s].tree : b.levels[l].price # p
  <2> DEFINE q == [m \in 1..0 |-> 0]
  <2>1. OrdersAt(b, s, p) = {}
    BY <1>2 DEF Whole, SettledBut, Housed, OrdersAt
  <2>2. FullList(b, s, p, 0, q) /\ q \in [1..0 -> OrderSlots]
    BY <1>2, <2>1 DEF FullList, Lists, Entries
  <2> QED
    BY <2>2
<1> QED
  BY <1>1, <1>2

\* ... and it is what the lookup and the walk deliver.
LEMMA ListsShown ==
    ASSUME NEW b \in Book, LevelsSound(b), b.fault = "None",
           NEW s \in Sides, NEW p \in Prices,
           NEW n \in Nat, NEW q \in [1..n -> OrderSlots], Lists(b, s, p, n, q)
    PROVE  RestingIn(b)[<<s, p>>] = Row(b, n, q)
<1> DEFINE l == FindByPrice(b, s, p)
           fifo == Fifo(b, l)
<1>1. p \in Nat /\ <<s, p>> \in Sides \X Prices
  BY RequestAssumption
<1>2. RestingIn(b)[<<s, p>>] =
        IF l = kInvalid THEN << >>
        ELSE [m \in DOMAIN fifo |-> [id  |-> b.orders[fifo[m]].order_id,
                                    qty |-> b.orders[fifo[m]].remaining_qty]]
  BY <1>1 DEF RestingIn
<1>3. /\ l # kInvalid => l \in b.sides[s].tree /\ b.levels[l].price = p
      /\ (\E m \in b.sides[s].tree : b.levels[m].price = p) => l # kInvalid
  BY <1>1, FindSound
<1> HIDE DEF l
<1>4. CASE l = kInvalid
  <2>1. n = 0
    BY <1>3, <1>4 DEF Lists
  <2>2. [m \in 1..0 |-> [id  |-> b.orders[q[m]].order_id,
                         qty |-> b.orders[q[m]].remaining_qty]] = << >>
    OBVIOUS
  <2> QED
    BY <1>2, <1>4, <2>1, <2>2 DEF Row
<1>5. CASE l # kInvalid
  <2>1. Chain(b, l, n, q) /\ l \in LevelSlots
    BY <1>3, <1>5, TreeLevels DEF Lists
  <2>2. fifo = q
    BY <2>1, FifoOfChain
  <2> HIDE DEF fifo
  <2> QED
    BY <1>2, <1>5, <2>2 DEF Row
<1> QED
  BY <1>4, <1>5

\* The abstract book has one queue per side and price.
LEMMA QueuesAre == Promise!Queues = Sides \X Prices
BY DEF Promise!Queues, Promise!Sides, Sides

\* The queues of a whole book are queues of the abstract book.
LEMMA RestingType ==
    ASSUME NEW b, Whole(b), Asked(b)
    PROVE  RestingIn(b) \in [Promise!Queues -> Seq(Promise!Entry)]
<1>1. RestingIn(b) = [k \in Sides \X Prices |-> RestingIn(b)[k]]
  BY DEF RestingIn
<1>2. ASSUME NEW s \in Sides, NEW p \in Prices
      PROVE  RestingIn(b)[<<s, p>>] \in Seq(Promise!Entry)
  <2>1. PICK n \in Nat : \E q \in [1..n -> OrderSlots] : FullList(b, s, p, n, q)
    BY ListsExist
  <2>2. PICK q \in [1..n -> OrderSlots] : FullList(b, s, p, n, q)
    BY <2>1
  <2>3. RestingIn(b)[<<s, p>>] = Row(b, n, q)
    BY <2>2, ListsShown DEF FullList, Whole
  <2>4. ASSUME NEW m \in 1..n
        PROVE  Row(b, n, q)[m] \in Promise!Entry
    <3>1. q[m] \in Live(b) /\ q[m] \in OrderSlots
      BY <2>2 DEF FullList, Entries, OrdersAt, Live
    <3>2. b.orders[q[m]].remaining_qty > 0 /\ b.orders[q[m]] \in Order
      BY <3>1 DEF Whole, HeldBut, PositiveBut, Book
    <3>3. b.orders[q[m]].remaining_qty \in 1..MaxQty /\ b.orders[q[m]].order_id \in OrderIds
      BY <3>1, <3>2, RequestAssumption DEF Order, Qtys, Live
    <3> QED
      BY <3>3 DEF Row, Promise!Entry
  <2>5. Row(b, n, q) \in [1..n -> Promise!Entry]
    BY <2>4 DEF Row
  <2> QED
    BY <2>3, <2>5, SeqDef
<1>3. \A k \in Sides \X Prices : RestingIn(b)[k] \in Seq(Promise!Entry)
  BY <1>2
<1> QED
  BY <1>1, <1>3, QueuesAre
-----------------------------------------------------------------------------
(* What the steps of the requests do to the lists.                         *)

\* A list stays when its level does and the links of its entries do.
LEMMA SameLists ==
    ASSUME NEW b, NEW c, NEW s, NEW p, NEW n \in Nat, NEW q \in [1..n -> OrderSlots],
           Lists(b, s, p, n, q), c.sides[s].tree = b.sides[s].tree,
           \A l \in b.sides[s].tree :
                /\ c.levels[l].price = b.levels[l].price
                /\ b.levels[l].price = p =>
                        /\ c.levels[l].head_order_idx = b.levels[l].head_order_idx
                        /\ c.levels[l].tail_order_idx = b.levels[l].tail_order_idx,
           \A i \in Entries(n, q) : c.orders[i].next_in_level = b.orders[i].next_in_level
    PROVE  Lists(c, s, p, n, q)
<1>1. CASE n = 0 /\ \A l \in b.sides[s].tree : b.levels[l].price # p
  BY <1>1 DEF Lists
<1>2. CASE \E l \in b.sides[s].tree : b.levels[l].price = p /\ Chain(b, l, n, q)
  <2>1. PICK l \in b.sides[s].tree : b.levels[l].price = p /\ Chain(b, l, n, q)
    BY <1>2
  <2>2. /\ c.levels[l].head_order_idx = b.levels[l].head_order_idx
        /\ c.levels[l].tail_order_idx = b.levels[l].tail_order_idx
        /\ c.levels[l].price = p
    BY <2>1
  <2>3. Chain(c, l, n, q)
    BY <2>1, <2>2, SameChain
  <2> QED
    BY <2>1, <2>2, <2>3 DEF Lists
<1> QED
  BY <1>1, <1>2 DEF Lists

\* Opening a level for a price without one: the list of that price was empty and is.
LEMMA OpenLists ==
    ASSUME NEW b \in Book, NEW s \in Sides, NEW p \in Nat, LevelsSound(b),
           b.level_free # << >>, \A m \in b.sides[s].tree : b.levels[m].price # p,
           NEW r \in Sides, NEW t, NEW n \in Nat, NEW q \in [1..n -> OrderSlots],
           Lists(b, r, t, n, q)
    PROVE  LET d == InsertLevel(CreateLevel(b, s, p), s, Head(b.level_free))
           IN  Lists(d, r, t, n, q) /\ d.orders = b.orders
<1> DEFINE l == Head(b.level_free)
           c == CreateLevel(b, s, p)
           d == InsertLevel(c, s, l)
<1>1. b.level_free \in Seq(LevelSlots) /\ l \in LevelSlots /\ c \in Book
  BY CreateType DEF Book
<1>2. l \in Slots(b.level_free)
  BY <1>1, TailSlots DEF LevelsSound, LevelsAccountedIn
<1>3. /\ c.sides = b.sides /\ c.orders = b.orders /\ c.levels[l].price = p
      /\ c.levels[l].head_order_idx = kInvalid /\ c.levels[l].tail_order_idx = kInvalid
      /\ \A m \in LevelSlots \ {l} : c.levels[m] = b.levels[m]
  BY <1>1 DEF Book, CreateLevel
<1> HIDE DEF c
<1>4. /\ d.orders = c.orders /\ d.levels = c.levels
      /\ d.sides[s].tree = c.sides[s].tree \cup {l}
      /\ \A x \in Sides \ {s} : d.sides[x] = c.sides[x]
  BY <1>1 DEF Book, InsertLevel
<1> HIDE DEF d, l
<1>5. \A x \in Sides : l \notin b.sides[x].tree /\ b.sides[x].tree \subseteq LevelSlots
  BY <1>2 DEF LevelsSound, LevelsAccountedIn, Sides, Book, Side
<1>6. CASE \E m \in b.sides[r].tree : b.levels[m].price = t /\ Chain(b, m, n, q)
  <2>1. PICK m \in b.sides[r].tree : b.levels[m].price = t /\ Chain(b, m, n, q)
    BY <1>6
  <2>2. m \in d.sides[r].tree /\ d.levels[m] = b.levels[m]
    BY <1>3, <1>4, <1>5
  <2>3. Chain(d, m, n, q)
    <3>1. d.orders = b.orders
      BY <1>3, <1>4
    <3> QED
      BY <2>1, <2>2, <3>1, SameChain
  <2>4. Lists(d, r, t, n, q)
    BY <2>1, <2>2, <2>3 DEF Lists
  <2> QED
    BY <1>3, <1>4, <2>4 DEF d, c, l
<1>7. CASE n = 0 /\ \A m \in b.sides[r].tree : b.levels[m].price # t
  <2>1. CASE r = s /\ t = p
    <3>1. Chain(d, l, n, q) /\ l \in d.sides[r].tree /\ d.levels[l].price = t
      BY <1>3, <1>4, <1>7, <2>1 DEF Chain, Linked
    <3> QED
      BY <1>3, <1>4, <3>1 DEF Lists, d, c, l
  <2>2. CASE ~(r = s /\ t = p)
    <3>1. \A m \in d.sides[r].tree : d.levels[m].price # t
      BY <1>3, <1>4, <1>5, <1>7, <2>2
    <3> QED
      BY <1>3, <1>4, <1>7, <3>1 DEF Lists, d, c, l
  <2> QED
    BY <2>1, <2>2
<1> QED
  BY <1>6, <1>7 DEF Lists

\* An order enters: it joins the back of its own list, and no other list changes.
LEMMA EnterLists ==
    ASSUME NEW b \in Book, LevelsSound(b), QueuesBut(b, {}), NEW c, NEW i \in OrderSlots,
           i \notin Live(b), NEW s \in Sides, NEW l \in b.sides[s].tree, NEW e,
           c.sides = b.sides, Joined(b, c, l, i, e), c.levels[l].price = b.levels[l].price,
           NEW r \in Sides, NEW t, NEW n \in Nat, NEW q \in [1..n -> OrderSlots],
           FullList(b, r, t, n, q)
    PROVE  IF r = s /\ t = b.levels[l].price
           THEN Lists(c, r, t, n + 1, Lengthened(n, q, i)) /\ HasJoined(c, l, n, q, i)
           ELSE Lists(c, r, t, n, q)
<1>1. \A x \in Sides : b.sides[x].tree \subseteq LevelSlots
  BY TreeLevels
<1>2. \A m \in LevelSlots : c.levels[m].price = b.levels[m].price
  BY DEF Joined
<1>3. i \notin Entries(n, q) /\ Entries(n, q) \subseteq OrderSlots
  BY DEF FullList, OrdersAt, Live
<1>4. CASE r = s /\ t = b.levels[l].price
  <2>1. Chain(b, l, n, q)
    BY <1>4, TreeLevels DEF FullList, Lists
  <2>2. HasJoined(c, l, n, q, i)
    BY <1>3, <2>1, JoinedChain
  <2> QED
    BY <1>4, <2>2 DEF HasJoined, Lists
<1>5. CASE ~(r = s /\ t = b.levels[l].price)
  <2>1. \A m \in b.sides[r].tree : b.levels[m].price = t => m # l /\ c.levels[m] = b.levels[m]
    <3> SUFFICES ASSUME NEW m \in b.sides[r].tree, b.levels[m].price = t
                 PROVE  m # l /\ c.levels[m] = b.levels[m]
      OBVIOUS
    <3>1. m # l
      BY <1>5, OwnLevel
    <3> QED
      BY <1>1, <3>1 DEF Joined
  <2>2. b.levels[l].tail_order_idx \notin Entries(n, q)
    <3>1. Queued(b, l, On(b, s, l)) /\ On(b, s, l) \in SUBSET Live(b)
      BY DEF QueuesBut, On, OrdersAt
    <3>2. b.levels[l].tail_order_idx \in On(b, s, l) \cup {kInvalid}
      BY <3>1, TailLive
    <3>3. On(b, s, l) \cap OrdersAt(b, r, t) = {}
      BY <1>5 DEF On, OrdersAt
    <3>4. kInvalid \notin Entries(n, q)
      BY <1>3 DEF OrderSlots, kInvalid
    <3> QED
      BY <3>2, <3>3, <3>4 DEF FullList
  <2>3. \A j \in Entries(n, q) : c.orders[j].next_in_level = b.orders[j].next_in_level
    BY <1>3, <2>2 DEF Joined
  <2>4. Lists(b, r, t, n, q)
    BY DEF FullList
  <2>5. Lists(c, r, t, n, q)
    BY <1>1, <1>2, <2>1, <2>3, <2>4, SameLists
  <2> QED
    BY <1>5, <2>5
<1> QED
  BY <1>4, <1>5

\* What the abstract book sees of an order.
SameOrder(b, c, j) == /\ c.orders[j].order_id = b.orders[j].order_id
                      /\ c.orders[j].remaining_qty = b.orders[j].remaining_qty

\* Slot i has gone from the list q, if it was on it.
HasLeft(c, i, s, p, n, q) ==
    IF i \in Entries(n, q)
    THEN \E k \in 1..n : q[k] = i /\ Lists(c, s, p, n - 1, Shortened(n, q, k))
    ELSE Lists(c, s, p, n, q)

\* Unlinking takes the order out of its own list, and no other list changes.
LEMMA UnlinkLists ==
    ASSUME NEW b \in Book, LevelsSound(b), QueuesBut(b, {}),
           NEW i \in Live(b), NEW l \in b.sides[b.orders[i].side].tree,
           b.levels[l].price = b.orders[i].price,
           NEW r \in Sides, NEW t, NEW n \in Nat, NEW q \in [1..n -> OrderSlots],
           FullList(b, r, t, n, q)
    PROVE  /\ HasLeft(Unlink(b, l, i), i, r, t, n, q)
           /\ \A j \in OrderSlots : SameOrder(b, Unlink(b, l, i), j)
<1> DEFINE s == b.orders[i].side
           u == Unlink(b, l, i)
<1>1. /\ i \in OrderSlots /\ s \in Sides /\ i \in On(b, s, l)
      /\ l \in LevelSlots /\ \A x \in Sides : b.sides[x].tree \subseteq LevelSlots
  <2>1. i \in OrderSlots /\ s \in Sides /\ i \in On(b, s, l)
    BY DEF Live, Book, Order, On, OrdersAt
  <2> QED
    BY <2>1, TreeLevels
<1>2. PICK m \in Nat :
        \E w \in [1..m -> OrderSlots] : Chain(b, l, m, w) /\ Entries(m, w) = On(b, s, l)
  BY <1>1 DEF QueuesBut, Queued
<1>3. PICK w \in [1..m -> OrderSlots] : Chain(b, l, m, w) /\ Entries(m, w) = On(b, s, l)
  BY <1>2
<1>4. PICK k \in 1..m : w[k] = i
  BY <1>1, <1>3 DEF Entries
<1>5. TakenOut(b, u, l, m, w, k)
  BY <1>1, <1>3, <1>4, UnlinkEnds
<1> HIDE DEF u
<1>6. /\ u.sides = b.sides /\ u.levels[l].price = b.levels[l].price
      /\ \A x \in LevelSlots \ {l} : u.levels[x] = b.levels[x]
      /\ \A j \in OrderSlots :
            /\ SameOrder(b, u, j)
            /\ j \notin On(b, s, l) => u.orders[j].next_in_level = b.orders[j].next_in_level
  <2>1. CASE k = 1
    BY <1>5, <2>1 DEF TakenOut, SameOrder
  <2>2. CASE k # 1
    <3> DEFINE next == IF k = m THEN kInvalid ELSE w[k + 1]
    <3>1. w[k - 1] \in OrderSlots /\ w[k - 1] \in On(b, s, l)
      <4>1. k - 1 \in 1..m
        BY <2>2
      <4> QED
        BY <1>3, <4>1 DEF Entries
    <3>2. b.orders \in [OrderSlots -> Order]
      BY DEF Book
    <3>3. /\ u.orders = [b.orders EXCEPT ![w[k - 1]].next_in_level = next]
          /\ u.sides = b.sides /\ u.levels[l].price = b.levels[l].price
          /\ \A x \in LevelSlots \ {l} : u.levels[x] = b.levels[x]
      BY <1>5, <2>2 DEF TakenOut
    <3> HIDE DEF next
    <3> QED
      BY <3>1, <3>2, <3>3 DEF Order, SameOrder
  <2> QED
    BY <2>1, <2>2
<1>7. CASE r = s /\ t = b.levels[l].price
  <2>1. Chain(b, l, n, q) /\ i \in Entries(n, q)
    BY <1>1, <1>7, TreeLevels DEF FullList, Lists, On
  <2>2. PICK h \in 1..n : q[h] = i
    BY <2>1 DEF Entries
  <2>3. Chain(Unlink(b, l, q[h]), l, n - 1, Shortened(n, q, h))
    BY <1>1, <2>1, UnlinkQueue
  <2>4. Lists(u, r, t, n - 1, Shortened(n, q, h))
    BY <1>6, <1>7, <2>2, <2>3 DEF Lists, u
  <2> QED
    BY <1>6, <2>1, <2>2, <2>4 DEF HasLeft, u
<1>8. CASE ~(r = s /\ t = b.levels[l].price)
  <2>1. On(b, s, l) \cap Entries(n, q) = {} /\ Entries(n, q) \subseteq OrderSlots
    BY <1>8 DEF FullList, On, OrdersAt, Live
  <2>2. \A x \in b.sides[r].tree : b.levels[x].price = t => x # l
    BY <1>1, <1>8, OwnLevel
  <2>3. Lists(b, r, t, n, q)
    BY DEF FullList
  <2>4. \A j \in Entries(n, q) : u.orders[j].next_in_level = b.orders[j].next_in_level
    BY <1>6, <2>1
  <2>5. \A x \in b.sides[r].tree :
            /\ u.levels[x].price = b.levels[x].price
            /\ b.levels[x].price = t =>
                    /\ u.levels[x].head_order_idx = b.levels[x].head_order_idx
                    /\ u.levels[x].tail_order_idx = b.levels[x].tail_order_idx
    BY <1>1, <1>6, <2>2
  <2>6. Lists(u, r, t, n, q)
    BY <1>6, <2>3, <2>4, <2>5, SameLists
  <2> QED
    BY <1>1, <1>6, <2>1, <2>6 DEF HasLeft, u
<1> QED
  BY <1>7, <1>8

\* Giving back a slot that is on no list changes no list.
LEMMA FreeLists ==
    ASSUME NEW b \in Book, NEW l \in LevelSlots, NEW i \in OrderSlots,
           NEW r \in Sides, NEW t, NEW n \in Nat, NEW q \in [1..n -> OrderSlots],
           Lists(b, r, t, n, q), i \notin Entries(n, q)
    PROVE  Lists(FreeOrder(b, l, i), r, t, n, q)
<1> DEFINE c == FreeOrder(b, l, i)
<1>1. /\ c.sides = b.sides /\ c.orders = [b.orders EXCEPT ![i] = NoOrder]
      /\ c.levels = [b.levels EXCEPT ![l].order_count = @ - 1]
  BY DEF FreeOrder, Book
<1>2. \A m \in LevelSlots : /\ c.levels[m].price = b.levels[m].price
                            /\ c.levels[m].head_order_idx = b.levels[m].head_order_idx
                            /\ c.levels[m].tail_order_idx = b.levels[m].tail_order_idx
  BY <1>1 DEF Book, Level
<1>3. \A j \in OrderSlots \ {i} : c.orders[j] = b.orders[j]
  BY <1>1 DEF Book
<1>4. b.sides[r].tree \subseteq LevelSlots /\ Entries(n, q) \subseteq OrderSlots
  BY DEF Book, Side, Entries
<1>5. c.sides[r].tree = b.sides[r].tree
  BY <1>1
<1>6. \A j \in Entries(n, q) : c.orders[j].next_in_level = b.orders[j].next_in_level
  BY <1>3, <1>4
<1> HIDE DEF c
<1>7. Lists(c, r, t, n, q)
  BY <1>2, <1>4, <1>5, <1>6, SameLists
<1> QED
  BY <1>7 DEF c

\* Destroying an empty level changes no list: its own was empty.
LEMMA CloseLists ==
    ASSUME NEW b \in Book, LevelsSound(b), NEW s \in Sides, NEW l \in b.sides[s].tree,
           DestroyChecks(b, s, l),
           NEW r \in Sides, NEW t, NEW n \in Nat, NEW q \in [1..n -> OrderSlots],
           Lists(b, r, t, n, q)
    PROVE  LET d == RemoveAndDestroyLevel(b, s, l)
           IN  Lists(d, r, t, n, q) /\ d.orders = b.orders
<1> DEFINE c == RemoveLevel(b, s, l)
           d == [c EXCEPT !.level_free = <<l>> \o @, !.levels[l] = NoLevel]
<1>1. RemoveAndDestroyLevel(b, s, l) = d
  BY DEF RemoveAndDestroyLevel
<1>2. l \in LevelSlots /\ \A x \in Sides : b.sides[x].tree \subseteq LevelSlots
  BY TreeLevels
<1>3. c \in Book
  BY <1>2, RemoveType
<1>4. /\ c.levels = b.levels /\ c.orders = b.orders
      /\ c.sides[s].tree = b.sides[s].tree \ {l}
      /\ \A x \in Sides \ {s} : c.sides[x] = b.sides[x]
  BY DEF Book, RemoveLevel
<1> HIDE DEF c
<1>5. /\ d.orders = b.orders /\ d.sides = c.sides
      /\ \A m \in LevelSlots \ {l} : d.levels[m] = b.levels[m]
  BY <1>2, <1>3, <1>4 DEF Book
<1> HIDE DEF d
<1>6. \A m \in d.sides[r].tree : m \in b.sides[r].tree \ {l}
  BY <1>4, <1>5 DEF LevelsSound, LevelsAccountedIn, Sides
<1>7. CASE n = 0 /\ \A m \in b.sides[r].tree : b.levels[m].price # t
  BY <1>1, <1>2, <1>5, <1>6, <1>7 DEF Lists
<1>8. CASE \E m \in b.sides[r].tree : b.levels[m].price = t /\ Chain(b, m, n, q)
  <2>1. PICK m \in b.sides[r].tree : b.levels[m].price = t /\ Chain(b, m, n, q)
    BY <1>8
  <2>2. CASE m = l
    <3>1. r = s /\ \A x \in b.sides[r].tree \ {l} : b.levels[x].price # t
      BY <2>1, <2>2, OwnLevel
    <3>2. n = 0
      <4>1. n # 0 => q[1] \in OrderSlots /\ b.levels[l].head_order_idx = q[1]
        BY <2>1, <2>2 DEF Chain
      <4> QED
        BY <4>1 DEF DestroyChecks, OrderSlots, kInvalid
    <3> QED
      BY <1>1, <1>2, <1>5, <1>6, <3>1, <3>2 DEF Lists
  <2>3. CASE m # l
    <3>1. m \in d.sides[r].tree /\ d.levels[m] = b.levels[m]
      BY <1>2, <1>4, <1>5, <2>1, <2>3
    <3>2. Chain(d, m, n, q)
      BY <1>5, <2>1, <3>1, SameChain
    <3> QED
      BY <1>1, <1>5, <2>1, <3>1, <3>2 DEF Lists
  <2> QED
    BY <2>2, <2>3
<1> QED
  BY <1>7, <1>8 DEF Lists

\* delete_order_internal takes the order out of its list, closes the gap, and leaves
\* every other list and order.
LEMMA DeleteInternalLists ==
    ASSUME NEW b \in Book, LevelsSound(b), SettledBut(b, kInvalid),
           QueuesBut(b, {}), NEW i \in Live(b), TotalsBut(b, {i}), PositiveBut(b, {i}),
           NEW l \in b.sides[b.orders[i].side].tree, b.levels[l].price = b.orders[i].price,
           NEW r \in Sides, NEW t, NEW n \in Nat, NEW q \in [1..n -> OrderSlots],
           FullList(b, r, t, n, q)
    PROVE  LET d == DeleteOrderInternal(b, i, b.orders[i].side, l)
           IN  /\ HasLeft(d, i, r, t, n, q)
               /\ \A j \in OrderSlots \ {i} : SameOrder(b, d, j)
<1> DEFINE s == b.orders[i].side
           u == Unlink(b, l, i)
           f == FreeOrder(u, l, i)
           d == DeleteOrderInternal(b, i, s, l)
<1>1. i \in OrderSlots /\ s \in Sides /\ l \in LevelSlots
  <2>1. i \in OrderSlots /\ s \in Sides
    BY DEF Live, Book, Order
  <2> QED
    BY <2>1, TreeLevels
<1>2. /\ HeldBut(u, {i}) /\ HasLeft(u, i, r, t, n, q)
      /\ \A j \in OrderSlots : SameOrder(b, u, j)
  BY UnlinkHeld, UnlinkLists
<1>3. /\ u \in Book /\ SameContents(b, u) /\ SettledBut(u, kInvalid) /\ LevelsSound(u)
  <2>1. u \in Book /\ SameContents(b, u) /\ SameLevels(b, u)
    BY <1>1, UnlinkType, UnlinkSameContents, UnlinkSameLevels
  <2> QED
    BY <2>1, SameContentsSettled, SameLevelsSound
<1>4. /\ i \in Live(u) /\ u.orders[i].side = s /\ l \in u.sides[u.orders[i].side].tree
      /\ u.levels[l].price = u.orders[i].price
  BY <1>1, <1>3 DEF SameContents, Live
<1> HIDE DEF u
<1>5. HeldBut(f, {}) /\ SettledBut(f, l)
  BY <1>1, <1>2, <1>3, <1>4, FreeHeld, FreeSettled
<1>6. f \in Book /\ LevelsSound(f) /\ l \in f.sides[s].tree
  <2>1. f \in Book /\ SameLevels(u, f)
    BY <1>1, <1>3, FreeType, FreeSameLevels
  <2> QED
    BY <1>3, <1>4, <2>1, SameLevelsSound DEF SameLevels
<1>7. \A j \in OrderSlots \ {i} : SameOrder(b, f, j)
  <2>1. f.orders = [u.orders EXCEPT ![i] = NoOrder]
    BY <1>3 DEF FreeOrder, Book
  <2>2. \A j \in OrderSlots \ {i} : f.orders[j] = u.orders[j]
    BY <1>3, <2>1 DEF Book
  <2> HIDE DEF f
  <2> QED
    BY <1>2, <2>2 DEF SameOrder
<1>8. HasLeft(f, i, r, t, n, q)
  <2>1. CASE i \notin Entries(n, q)
    BY <1>1, <1>2, <1>3, <2>1, FreeLists DEF HasLeft
  <2>2. CASE i \in Entries(n, q)
    <3>1. PICK k \in 1..n : q[k] = i /\ Lists(u, r, t, n - 1, Shortened(n, q, k))
      BY <1>2, <2>2 DEF HasLeft
    <3> DEFINE w == Shortened(n, q, k)
    <3>2. n - 1 \in Nat /\ w \in [1..(n - 1) -> OrderSlots] /\ i \notin Entries(n - 1, w)
      BY <3>1, ShortenedEntries DEF FullList
    <3> HIDE DEF w
    <3>3. Lists(u, r, t, n - 1, w)
      BY <3>1 DEF w
    <3>4. Lists(f, r, t, n - 1, w)
      BY <1>1, <1>3, <3>2, <3>3, FreeLists
    <3> QED
      BY <2>2, <3>1, <3>4 DEF HasLeft, w
  <2> QED
    BY <2>1, <2>2
<1> HIDE DEF f
<1>9. CASE f.levels[l].order_count = 0
  <2>1. DestroyChecks(f, s, l)
    BY <1>1, <1>5, <1>6, <1>9, EmptyDestroys DEF SettledBut
  <2>2. d = RemoveAndDestroyLevel(f, s, l)
    BY <1>9 DEF DeleteOrderInternal, u, f
  <2>3. d.orders = f.orders
    <3>1. Lists(f, s, f.levels[l].price, 0, [m \in 1..0 |-> 0])
          \/ \E m \in Nat : \E w \in [1..m -> OrderSlots] : Lists(f, s, f.levels[l].price, m, w)
      <4>1. Queued(f, l, On(f, s, l))
        BY <1>1, <1>5, <1>6 DEF HeldBut, QueuesBut
      <4> QED
        BY <1>6, <4>1 DEF Queued, Lists
    <3>2. [m \in 1..0 |-> 0] \in [1..0 -> OrderSlots]
      OBVIOUS
    <3> QED
      BY <1>1, <1>6, <2>1, <2>2, <3>1, <3>2, CloseLists
  <2>4. HasLeft(d, i, r, t, n, q)
    <3>1. CASE i \notin Entries(n, q)
      BY <1>1, <1>6, <1>8, <2>1, <2>2, <3>1, CloseLists DEF HasLeft
    <3>2. CASE i \in Entries(n, q)
      <4>1. PICK k \in 1..n : q[k] = i /\ Lists(f, r, t, n - 1, Shortened(n, q, k))
        BY <1>8, <3>2 DEF HasLeft
      <4> DEFINE w == Shortened(n, q, k)
      <4>2. n - 1 \in Nat /\ w \in [1..(n - 1) -> OrderSlots]
        BY <4>1, ShortenedEntries DEF FullList
      <4> HIDE DEF w
      <4>3. Lists(f, r, t, n - 1, w)
        BY <4>1 DEF w
      <4>4. Lists(d, r, t, n - 1, w)
        BY <1>1, <1>6, <2>1, <2>2, <4>2, <4>3, CloseLists
      <4> QED
        BY <3>2, <4>1, <4>4 DEF HasLeft, w
    <3> QED
      BY <3>1, <3>2
  <2> QED
    BY <1>7, <2>3, <2>4 DEF SameOrder
<1>10. CASE f.levels[l].order_count # 0
  BY <1>7, <1>8, <1>10 DEF DeleteOrderInternal, u, f
<1> QED
  BY <1>9, <1>10
-----------------------------------------------------------------------------
(* What the abstract book sees of the steps.                               *)

\* What a shown list consists of.
RowIs(b, n, q) ==
    /\ DOMAIN Row(b, n, q) = 1..n /\ Len(Row(b, n, q)) = n
    /\ \A m \in 1..n : /\ Row(b, n, q)[m].id = b.orders[q[m]].order_id
                      /\ Row(b, n, q)[m].qty = b.orders[q[m]].remaining_qty

\* A shown list is as long as the list.
LEMMA RowShape ==
    ASSUME NEW b, NEW n \in Nat, NEW q
    PROVE  RowIs(b, n, q)
<1> DEFINE row == Row(b, n, q)
           S == {row[m] : m \in 1..n}
<1>1. row \in [1..n -> S] /\ DOMAIN row = 1..n
  BY DEF Row
<1>2. \A m \in 1..n : /\ row[m].id = b.orders[q[m]].order_id
                      /\ row[m].qty = b.orders[q[m]].remaining_qty
  BY DEF Row
<1> HIDE DEF row
<1>3. row \in Seq(S)
  BY <1>1, SeqDef
<1>4. Len(row) = n
  BY <1>1, <1>3, LenProperties
<1> QED
  BY <1>1, <1>2, <1>4 DEF row, RowIs

\* An id stands for one order.
LEMMA OneOrder ==
    ASSUME NEW b, OrdersAccountedIn(b), NEW i \in Live(b), NEW j \in Live(b),
           b.orders[i].order_id = b.orders[j].order_id
    PROVE  i = j
BY DEF OrdersAccountedIn

\* In book c, slot i has left every list of b, and the other orders are the same.
Departed(b, c, i) ==
    /\ \A t : \A r \in Sides : \A n \in Nat : \A q \in [1..n -> OrderSlots] :
            FullList(b, r, t, n, q) => HasLeft(c, i, r, t, n, q)
    /\ \A j \in OrderSlots \ {i} : SameOrder(b, c, j)

\* An order that departs leaves its queue, and nobody else's place changes.
LEMMA ShownWithout ==
    ASSUME NEW b, Whole(b), NEW c \in Book, LevelsSound(c), c.fault = "None",
           NEW i \in Live(b), Departed(b, c, i)
    PROVE  RestingIn(c) = Promise!Without(RestingIn(b), b.orders[i].order_id)
<1> DEFINE id == b.orders[i].order_id
<1>1. ASSUME NEW s \in Sides, NEW p \in Prices
      PROVE  RestingIn(c)[<<s, p>>] =
                IF id \in Promise!Ids(RestingIn(b)[<<s, p>>])
                THEN Promise!Leave(RestingIn(b)[<<s, p>>],
                                   Promise!Place(RestingIn(b)[<<s, p>>], id))
                ELSE RestingIn(b)[<<s, p>>]
  <2>1. PICK n \in Nat : \E q \in [1..n -> OrderSlots] : FullList(b, s, p, n, q)
    BY ListsExist
  <2>2. PICK q \in [1..n -> OrderSlots] : FullList(b, s, p, n, q)
    BY <2>1
  <2> DEFINE row == Row(b, n, q)
  <2>3. RestingIn(b)[<<s, p>>] = row
    BY <2>2, ListsShown DEF FullList, Whole
  <2>4. /\ DOMAIN row = 1..n /\ Len(row) = n
        /\ \A m \in 1..n : row[m].id = b.orders[q[m]].order_id
    <3>1. RowIs(b, n, q)
      BY RowShape
    <3> QED
      BY <3>1 DEF RowIs
  <2>5. \A m \in 1..n : q[m] \in Live(b) /\ q[m] \in OrderSlots
    BY <2>2 DEF FullList, Entries, OrdersAt, Live
  <2>6. \A m \in 1..n : row[m].id = id <=> q[m] = i
    BY <2>4, <2>5, OneOrder DEF Whole
  <2>7. HasLeft(c, i, s, p, n, q)
    BY <2>2 DEF Departed
  <2>8. \A m \in 1..n : q[m] # i => SameOrder(b, c, q[m])
    BY <2>5 DEF Departed
  <2>9. CASE i \notin Entries(n, q)
    <3>1. RestingIn(c)[<<s, p>>] = Row(c, n, q)
      BY <2>7, <2>9, ListsShown DEF HasLeft
    <3>2. Row(c, n, q) = row
      BY <2>8, <2>9 DEF Row, SameOrder, Entries
    <3>3. id \notin Promise!Ids(row)
      BY <2>4, <2>6, <2>9 DEF Promise!Ids, Entries
    <3> QED
      BY <2>3, <3>1, <3>2, <3>3
  <2>10. CASE i \in Entries(n, q)
    <3>1. PICK k \in 1..n : q[k] = i /\ Lists(c, s, p, n - 1, Shortened(n, q, k))
      BY <2>7, <2>10 DEF HasLeft
    <3> DEFINE w == Shortened(n, q, k)
    <3>2. n - 1 \in Nat /\ w \in [1..(n - 1) -> OrderSlots]
          /\ \A m \in 1..(n - 1) : w[m] = IF m < k THEN q[m] ELSE q[m + 1]
      BY DEF Shortened
    <3>3. RestingIn(c)[<<s, p>>] = Row(c, n - 1, w)
      <4>1. Lists(c, s, p, n - 1, w)
        BY <3>1
      <4> HIDE DEF w
      <4> QED
        BY <3>2, <4>1, ListsShown
    <3>4. \A m \in 1..n : q[m] = i <=> m = k
      BY <2>2, <3>1 DEF FullList
    <3>5. id \in Promise!Ids(row) /\ Promise!Place(row, id) = k
      <4> HIDE DEF row
      <4>1. \A m \in DOMAIN row : row[m].id = id <=> m = k
        BY <2>4, <2>6, <3>4
      <4>2. k \in DOMAIN row
        BY <2>4
      <4> QED
        BY <4>1, <4>2 DEF Promise!Ids, Promise!Place
    <3>6. Promise!Leave(row, k) =
            [m \in 1..(n - 1) |-> IF m < k THEN row[m] ELSE row[m + 1]]
      BY <2>4 DEF Promise!Leave
    <3>7. ASSUME NEW m \in 1..(n - 1)
          PROVE  Row(c, n - 1, w)[m] = IF m < k THEN row[m] ELSE row[m + 1]
      <4> DEFINE h == IF m < k THEN m ELSE m + 1
      <4>1. h \in 1..n /\ h # k /\ w[m] = q[h]
        BY <3>2
      <4> HIDE DEF h, w
      <4>2. SameOrder(b, c, q[h])
        BY <2>8, <3>4, <4>1
      <4>3. Row(c, n - 1, w)[m] = row[h]
        BY <4>1, <4>2 DEF Row, SameOrder
      <4> QED
        BY <4>3 DEF h
    <3>8. Row(c, n - 1, w) = Promise!Leave(row, k)
      <4>1. Row(c, n - 1, w) = [m \in 1..(n - 1) |-> Row(c, n - 1, w)[m]]
        BY DEF Row
      <4> HIDE DEF w, row
      <4> QED
        BY <3>6, <3>7, <4>1
    <3> QED
      BY <2>3, <3>3, <3>5, <3>8
  <2> QED
    BY <2>9, <2>10
<1>2. RestingIn(c) = [k \in Sides \X Prices |-> RestingIn(c)[k]]
  BY DEF RestingIn
<1> HIDE DEF id
<1>3. \A k \in Sides \X Prices : RestingIn(c)[k] =
                IF id \in Promise!Ids(RestingIn(b)[k])
                THEN Promise!Leave(RestingIn(b)[k], Promise!Place(RestingIn(b)[k], id))
                ELSE RestingIn(b)[k]
  BY <1>1
<1>4. RestingIn(c) = Promise!Without(RestingIn(b), id)
  BY <1>2, <1>3, QueuesAre DEF Promise!Without
<1> QED
  BY <1>4 DEF id
-----------------------------------------------------------------------------
(* The places in the queues.                                               *)

\* The slot of the order at place m of queue k.
Slot(b, k, m) == b.order_map[RestingIn(b)[k][m].id]

\* That order is of the queue's side and price, and is shown as it is.
Shown(b, k, m) ==
    LET e == RestingIn(b)[k][m]
        i == Slot(b, k, m)
    IN  /\ e.id \in DOMAIN b.order_map /\ e.id \in OrderIds /\ i \in OrdersAt(b, k[1], k[2])
        /\ e = [id |-> b.orders[i].order_id, qty |-> b.orders[i].remaining_qty]

\* A queue has a place for each order of its side and price, and no other.
Placed(b, k) ==
    LET r == RestingIn(b)[k]
    IN  /\ Len(r) \in Nat /\ DOMAIN r = 1..Len(r) /\ (r = << >> <=> Len(r) = 0)
        /\ \A m \in 1..Len(r) : Shown(b, k, m)
        /\ \A m, h \in 1..Len(r) : Slot(b, k, m) = Slot(b, k, h) => m = h
        /\ \A i \in OrdersAt(b, k[1], k[2]) : \E m \in 1..Len(r) : Slot(b, k, m) = i

\* The places of a queue are the entries of its list.
SlotsAre(b, k, n, q) ==
    LET r == RestingIn(b)[k]
    IN  /\ r = Row(b, n, q) /\ DOMAIN r = 1..n /\ Len(r) = n
        /\ \A m \in 1..n : /\ Slot(b, k, m) = q[m] /\ q[m] \in OrdersAt(b, k[1], k[2])
                           /\ r[m] = [id  |-> b.orders[q[m]].order_id,
                                       qty |-> b.orders[q[m]].remaining_qty]

\* FullList, seen through the id map.
LEMMA SlotsListed ==
    ASSUME NEW b, Whole(b), NEW s \in Sides, NEW p \in Prices,
           NEW n \in Nat, NEW q \in [1..n -> OrderSlots], FullList(b, s, p, n, q)
    PROVE  SlotsAre(b, <<s, p>>, n, q)
<1> DEFINE k == <<s, p>>
           r == RestingIn(b)[k]
<1>1. r = Row(b, n, q)
  BY ListsShown DEF FullList, Whole
<1>2. DOMAIN r = 1..n /\ Len(r) = n
  <2>1. RowIs(b, n, q)
    BY RowShape
  <2> QED
    BY <1>1, <2>1 DEF RowIs
<1>3. \A m \in 1..n : r[m] = [id  |-> b.orders[q[m]].order_id,
                              qty |-> b.orders[q[m]].remaining_qty]
  BY <1>1 DEF Row
<1>4. \A m \in 1..n : q[m] \in OrdersAt(b, s, p)
  BY DEF FullList, Entries
<1>5. ASSUME NEW m \in 1..n
      PROVE  Slot(b, k, m) = q[m]
  <2>1. b.order_map[b.orders[q[m]].order_id] = q[m]
    BY <1>4 DEF OrdersAt, Whole, OrdersAccountedIn
  <2>2. r[m].id = b.orders[q[m]].order_id
    <3>1. r[m] = [id |-> b.orders[q[m]].order_id, qty |-> b.orders[q[m]].remaining_qty]
      BY <1>3
    <3> QED
      BY <3>1
  <2> QED
    BY <2>1, <2>2 DEF Slot
<1> QED
  BY <1>1, <1>2, <1>3, <1>4, <1>5 DEF SlotsAre

\* Every queue is placed so.
LEMMA QueuesPlaced ==
    ASSUME NEW b, Whole(b), NEW k \in Promise!Queues
    PROVE  Placed(b, k)
<1> DEFINE s == k[1]
           p == k[2]
           r == RestingIn(b)[k]
<1>1. s \in Sides /\ p \in Prices /\ k = <<s, p>>
  BY QueuesAre
<1> HIDE DEF s, p
<1>2. PICK n \in Nat : \E q \in [1..n -> OrderSlots] : FullList(b, s, p, n, q)
  BY <1>1, ListsExist
<1>3. PICK q \in [1..n -> OrderSlots] : FullList(b, s, p, n, q)
  BY <1>2
<1>4. SlotsAre(b, k, n, q)
  BY <1>1, <1>3, SlotsListed
<1>5. r = Row(b, n, q) /\ DOMAIN r = 1..n /\ Len(r) = n
  BY <1>4 DEF SlotsAre
<1>6. \A m \in 1..n : /\ Slot(b, k, m) = q[m] /\ q[m] \in OrdersAt(b, s, p)
                      /\ r[m] = [id  |-> b.orders[q[m]].order_id,
                                  qty |-> b.orders[q[m]].remaining_qty]
  BY <1>4 DEF SlotsAre, s, p
<1>7. \A m \in 1..n : Slot(b, k, m) = q[m]
  BY <1>6
<1>8. \A i \in OrdersAt(b, s, p) : /\ i \in Live(b) /\ i \in OrderSlots
                                   /\ b.orders[i].order_id \in DOMAIN b.order_map
                                   /\ b.orders[i].order_id \in OrderIds
  BY DEF OrdersAt, Live, Whole, OrdersAccountedIn, Book, Order
<1>10. \A m \in 1..n : Shown(b, k, m)
  <2> SUFFICES ASSUME NEW m \in 1..n
               PROVE  Shown(b, k, m)
    OBVIOUS
  <2>1. r[m] = [id |-> b.orders[q[m]].order_id, qty |-> b.orders[q[m]].remaining_qty]
        /\ q[m] \in OrdersAt(b, s, p) /\ Slot(b, k, m) = q[m]
    BY <1>6
  <2>2. b.orders[q[m]].order_id \in DOMAIN b.order_map /\ b.orders[q[m]].order_id \in OrderIds
    BY <1>8, <2>1
  <2> QED
    BY <2>1, <2>2 DEF Shown, s, p
<1>11. \A m, h \in 1..n : Slot(b, k, m) = Slot(b, k, h) => m = h
  BY <1>3, <1>7 DEF FullList
<1>12. \A i \in OrdersAt(b, s, p) : \E m \in 1..n : Slot(b, k, m) = i
  BY <1>3, <1>7 DEF FullList, Entries
<1>13. r = << >> <=> n = 0
  <2>1. DOMAIN << >> = 1..0
    OBVIOUS
  <2>2. n = 0 => r = << >>
    <3>1. n = 0 => Row(b, n, q) = << >>
      BY DEF Row
    <3> QED
      BY <1>5, <3>1
  <2> HIDE DEF r
  <2> QED
    BY <1>5, <2>1, <2>2
<1> HIDE DEF r
<1>14. /\ n \in Nat /\ \A m \in 1..Len(r) : Shown(b, k, m)
       /\ \A m, h \in 1..Len(r) : Slot(b, k, m) = Slot(b, k, h) => m = h
       /\ \A i \in OrdersAt(b, k[1], k[2]) : \E m \in 1..Len(r) : Slot(b, k, m) = i
  BY <1>5, <1>10, <1>11, <1>12 DEF s, p
<1> QED
  BY <1>5, <1>13, <1>14 DEF Placed, r

\* Every live order has a place.
LEMMA LivePlaced ==
    ASSUME NEW b, Whole(b), Asked(b), NEW i \in Live(b)
    PROVE  \E k \in Promise!Queues : \E m \in 1..Len(RestingIn(b)[k]) : Slot(b, k, m) = i
<1> DEFINE k == <<b.orders[i].side, b.orders[i].price>>
<1>1. k \in Promise!Queues
  <2>1. b.orders[i].side \in Sides /\ b.orders[i].price \in Prices
    BY DEF Asked, Whole, Live, Book, Order
  <2> QED
    BY <2>1, QueuesAre
<1>2. i \in OrdersAt(b, k[1], k[2])
  BY DEF OrdersAt
<1> HIDE DEF k
<1>3. Placed(b, k)
  BY <1>1, QueuesPlaced
<1> QED
  BY <1>1, <1>2, <1>3 DEF Placed

\* The ids that rest are the ids of the map.
LEMMA RestsMapped ==
    ASSUME NEW b, Whole(b), Asked(b), NEW id
    PROVE  Promise!Rests(RestingIn(b), id) <=> id \in DOMAIN b.order_map
<1>1. ASSUME NEW k \in Promise!Queues, id \in Promise!Ids(RestingIn(b)[k])
      PROVE  id \in DOMAIN b.order_map
  <2>1. PICK m \in DOMAIN RestingIn(b)[k] : RestingIn(b)[k][m].id = id
    BY <1>1 DEF Promise!Ids
  <2>2. Shown(b, k, m)
    BY QueuesPlaced DEF Placed
  <2> QED
    BY <2>1, <2>2 DEF Shown
<1>2. ASSUME id \in DOMAIN b.order_map
      PROVE  Promise!Rests(RestingIn(b), id)
  <2> DEFINE i == b.order_map[id]
  <2>1. i \in Live(b) /\ b.orders[i].order_id = id
    BY <1>2, LookupLive DEF Whole, OrdersAccountedIn
  <2>2. PICK k \in Promise!Queues : \E m \in 1..Len(RestingIn(b)[k]) : Slot(b, k, m) = i
    BY <2>1, LivePlaced
  <2>3. PICK m \in 1..Len(RestingIn(b)[k]) : Slot(b, k, m) = i
    BY <2>2
  <2>4. Shown(b, k, m) /\ m \in DOMAIN RestingIn(b)[k]
    BY QueuesPlaced DEF Placed
  <2>5. RestingIn(b)[k][m].id = id
    BY <2>1, <2>3, <2>4 DEF Shown
  <2> QED
    BY <2>4, <2>5 DEF Promise!Rests, Promise!Ids
<1> QED
  BY <1>1, <1>2 DEF Promise!Rests
-----------------------------------------------------------------------------
(* When a queue has room.                                                  *)

\* The order pool is used up when every slot is live, and the map has an entry for
\* each live order.
LEMMA LiveCounted ==
    ASSUME NEW b \in Book, OrdersAccountedIn(b)
    PROVE  /\ IsFiniteSet(Live(b)) /\ Cardinality(Live(b)) \in Nat
           /\ Cardinality(DOMAIN b.order_map) = Cardinality(Live(b))
           /\ Cardinality(Live(b)) <= MaxOrders
           /\ b.order_free # << >> <=> Cardinality(Live(b)) < MaxOrders
<1> DEFINE S == OrderSlots
           ids == DOMAIN b.order_map
<1>1. IsFiniteSet(S) /\ Cardinality(S) = MaxOrders
  BY CapacityAssumption, FS_Interval DEF OrderSlots
<1>2. Live(b) \in SUBSET S
  BY DEF Live
<1>3. /\ IsFiniteSet(Live(b)) /\ Cardinality(Live(b)) <= MaxOrders
      /\ Cardinality(Live(b)) = MaxOrders => Live(b) = S
  BY <1>1, <1>2, FS_Subset
<1>4. Cardinality(Live(b)) \in Nat
  BY <1>3, FS_CardinalityType
<1>5. Cardinality(ids) = Cardinality(Live(b))
  <2> DEFINE f == [i \in Live(b) |-> b.orders[i].order_id]
  <2>1. f \in Surjection(Live(b), ids) /\ f \in Injection(Live(b), ids)
    <3>1. f \in [Live(b) -> ids] /\ \A i, j \in Live(b) : f[i] = f[j] => i = j
      BY DEF OrdersAccountedIn
    <3>2. \A id \in ids : \E i \in Live(b) : f[i] = id
      BY LookupLive DEF OrdersAccountedIn
    <3> QED
      BY <3>1, <3>2 DEF Surjection, Injection, IsInjective
  <2> QED
    BY <1>3, <2>1, FS_Surjection
<1>6. b.order_free = << >> => Live(b) = S
  <2>1. DOMAIN << >> = {}
    OBVIOUS
  <2>2. Slots(<< >>) = {}
    BY <2>1 DEF Slots
  <2> QED
    BY <1>2, <2>2 DEF OrdersAccountedIn
<1>7. b.order_free # << >> => Live(b) # S
  <2>1. b.order_free # << >> => Head(b.order_free) \in Slots(b.order_free)
    BY TailSlots DEF OrdersAccountedIn, Book
  <2> QED
    BY <2>1 DEF OrdersAccountedIn
<1> HIDE DEF S
<1> QED
  BY <1>1, <1>3, <1>4, <1>5, <1>6, <1>7, CapacityAssumption

\* The book is full at the limit the abstract book has for orders.
LEMMA FullAtLimit ==
    ASSUME NEW b \in Book, OrdersAccountedIn(b)
    PROVE  /\ OrderLimit \in Int
           /\ b.order_free = << >> \/ MapRefuses(b) <=> Cardinality(Live(b)) >= OrderLimit
<1>1. /\ Cardinality(Live(b)) \in Nat
      /\ Cardinality(DOMAIN b.order_map) = Cardinality(Live(b))
      /\ Cardinality(Live(b)) <= MaxOrders
      /\ b.order_free # << >> <=> Cardinality(Live(b)) < MaxOrders
  BY LiveCounted
<1> QED
  BY <1>1, RefusesAtLimit, CapacityAssumption

\* A place within the abstract book's limit.
Places(b) == {x \in Promise!Queues \X (1..OrderLimit) : x[2] <= Len(RestingIn(b)[x[1]])}

\* Counting the places up to the limit is counting the live orders up to it.
LEMMA DepthCounted ==
    ASSUME NEW b, Whole(b), Asked(b)
    PROVE  /\ IsFiniteSet(Places(b)) /\ Cardinality(Places(b)) \in Nat
           /\ Cardinality(Places(b)) >= OrderLimit <=> Cardinality(Live(b)) >= OrderLimit
<1> DEFINE D == Places(b)
           L == OrderLimit
           R == RestingIn(b)
           f == [x \in D |-> Slot(b, x[1], x[2])]
<1>1. IsFiniteSet(Live(b)) /\ Cardinality(Live(b)) \in Nat /\ L \in Int
  BY LiveCounted, FullAtLimit DEF Whole
<1> HIDE DEF L, R
<1>2. \A x \in D : x[1] \in Promise!Queues /\ x[2] \in 1..L /\ x[2] \in 1..Len(R[x[1]])
      /\ x = <<x[1], x[2]>>
  <2> SUFFICES ASSUME NEW x \in D
               PROVE  x[1] \in Promise!Queues /\ x[2] \in 1..L /\ x[2] \in 1..Len(R[x[1]])
                      /\ x = <<x[1], x[2]>>
    OBVIOUS
  <2>1. x[1] \in Promise!Queues /\ x[2] \in 1..L /\ x[2] <= Len(R[x[1]])
        /\ x = <<x[1], x[2]>>
    BY DEF Places, L, R
  <2>2. Len(R[x[1]]) \in Nat
    BY <2>1, QueuesPlaced DEF Placed, R
  <2> QED
    BY <1>1, <2>1, <2>2
<1>3. f \in Injection(D, Live(b))
  <2>1. \A x \in D : f[x] \in OrdersAt(b, x[1][1], x[1][2])
    BY <1>2, QueuesPlaced DEF Placed, Shown, R
  <2>2. ASSUME NEW x \in D, NEW y \in D, f[x] = f[y]
        PROVE  x = y
    <3>1. x[1][1] = y[1][1] /\ x[1][2] = y[1][2]
      BY <2>1, <2>2 DEF OrdersAt
    <3>2. x[1] = y[1]
      BY <1>2, <3>1, QueuesAre
    <3>3. x[2] = y[2]
      BY <1>2, <2>2, <3>2, QueuesPlaced DEF Placed, R
    <3> QED
      BY <1>2, <3>2, <3>3
  <2>3. f \in [D -> Live(b)]
    BY <2>1 DEF OrdersAt
  <2> QED
    BY <2>2, <2>3 DEF Injection, IsInjective
<1>4. IsFiniteSet(D) /\ Cardinality(D) <= Cardinality(Live(b))
  BY <1>1, <1>3, FS_Injection
<1>5. Cardinality(D) \in Nat
  BY <1>4, FS_CardinalityType
<1>6. CASE \E k \in Promise!Queues : Len(R[k]) >= L
  <2>1. PICK k \in Promise!Queues : Len(R[k]) >= L
    BY <1>6
  <2> DEFINE g == [m \in 1..L |-> <<k, m>>]
  <2>2. Len(R[k]) \in Nat
    BY QueuesPlaced DEF Placed, R
  <2>3. \A m \in 1..L : <<k, m>> \in D
    BY <1>1, <2>1, <2>2 DEF Places, L, R
  <2>4. g \in Injection(1..L, D)
    BY <2>3 DEF Injection, IsInjective
  <2>5. Cardinality(1..L) <= Cardinality(D)
    BY <1>4, <2>4, FS_Injection
  <2>6. Cardinality(1..L) = IF 1 > L THEN 0 ELSE L - 1 + 1
    BY <1>1, FS_Interval
  <2>7. Cardinality(D) >= L
    BY <1>1, <1>5, <2>5, <2>6
  <2> QED
    BY <1>1, <1>4, <1>5, <2>7 DEF L
<1>7. CASE \A k \in Promise!Queues : ~(Len(R[k]) >= L)
  <2>1. ASSUME NEW i \in Live(b)
        PROVE  \E x \in D : f[x] = i
    <3>1. PICK k \in Promise!Queues : \E m \in 1..Len(R[k]) : Slot(b, k, m) = i
      BY LivePlaced DEF R
    <3>2. PICK m \in 1..Len(R[k]) : Slot(b, k, m) = i
      BY <3>1
    <3>3. Len(R[k]) \in Nat /\ ~(Len(R[k]) >= L)
      BY <1>7, QueuesPlaced DEF Placed, R
    <3>4. <<k, m>> \in D
      BY <1>1, <3>3 DEF Places, L, R
    <3> QED
      BY <3>2, <3>4
  <2>2. f \in Surjection(D, Live(b))
    BY <1>3, <2>1 DEF Surjection, Injection
  <2>3. Cardinality(Live(b)) <= Cardinality(D)
    BY <1>4, <2>2, FS_Surjection
  <2> QED
    BY <1>1, <1>4, <1>5, <2>3 DEF L
<1> QED
  BY <1>4, <1>5, <1>6, <1>7

\* The level pool is used up when every slot is in a tree.
LEMMA LevelsCounted ==
    ASSUME NEW b \in Book, LevelsSound(b)
    PROVE  LET T == b.sides[0].tree \cup b.sides[1].tree
           IN  /\ T \subseteq LevelSlots /\ IsFiniteSet(T)
               /\ Cardinality(T) \in Nat /\ Cardinality(T) <= MaxLevels
               /\ b.level_free # << >> <=> Cardinality(T) < MaxLevels
<1> DEFINE T == b.sides[0].tree \cup b.sides[1].tree
           S == LevelSlots
<1>1. IsFiniteSet(S) /\ Cardinality(S) = MaxLevels
  BY CapacityAssumption, FS_Interval DEF LevelSlots
<1>2. T \in SUBSET S
  BY DEF Book, Side, Sides
<1>3. IsFiniteSet(T) /\ Cardinality(T) <= MaxLevels /\ (Cardinality(T) = MaxLevels => T = S)
  BY <1>1, <1>2, FS_Subset
<1>4. Cardinality(T) \in Nat
  BY <1>3, FS_CardinalityType
<1>5. Slots(b.level_free) = S \ T
  BY DEF LevelsSound, LevelsAccountedIn
<1>6. b.level_free = << >> => T = S
  <2>1. DOMAIN << >> = {}
    OBVIOUS
  <2>2. Slots(<< >>) = {}
    BY <2>1 DEF Slots
  <2> QED
    BY <1>2, <1>5, <2>2
<1>7. b.level_free # << >> => T # S
  <2>1. b.level_free # << >> => Head(b.level_free) \in Slots(b.level_free)
    BY TailSlots DEF LevelsSound, LevelsAccountedIn, Book
  <2> QED
    BY <1>5, <2>1
<1> HIDE DEF S, T
<1>8. /\ T \subseteq S /\ IsFiniteSet(T)
      /\ Cardinality(T) \in Nat /\ Cardinality(T) <= MaxLevels
      /\ b.level_free # << >> <=> Cardinality(T) < MaxLevels
  BY <1>1, <1>2, <1>3, <1>4, <1>6, <1>7, CapacityAssumption
<1> QED
  BY <1>8 DEF S, T

\* There are as many queues with orders as levels.
LEMMA OpenCounted ==
    ASSUME NEW b, Whole(b), Asked(b)
    PROVE  LET open == Promise!OpenLevels(RestingIn(b))
           IN  /\ IsFiniteSet(open) /\ Cardinality(open) \in Nat
               /\ Cardinality(open) <= MaxLevels
               /\ b.level_free # << >> <=> Cardinality(open) < MaxLevels
<1> DEFINE T == b.sides[0].tree \cup b.sides[1].tree
           O == Promise!OpenLevels(RestingIn(b))
           LevelOf(k) == CHOOSE l \in b.sides[k[1]].tree : b.levels[l].price = k[2]
           f == [k \in O |-> LevelOf(k)]
<1>1. /\ IsFiniteSet(T) /\ Cardinality(T) \in Nat /\ Cardinality(T) <= MaxLevels
      /\ b.level_free # << >> <=> Cardinality(T) < MaxLevels
  BY LevelsCounted DEF Whole
<1>2. \A k \in Promise!Queues : k[1] \in Sides /\ k = <<k[1], k[2]>>
  BY QueuesAre
<1>3. \A k \in Promise!Queues : k \in O <=> OrdersAt(b, k[1], k[2]) # {}
  <2> SUFFICES ASSUME NEW k \in Promise!Queues
               PROVE  k \in O <=> OrdersAt(b, k[1], k[2]) # {}
    OBVIOUS
  <2> DEFINE n == Len(RestingIn(b)[k])
  <2>1. /\ n \in Nat /\ (RestingIn(b)[k] = << >> <=> n = 0)
        /\ \A m \in 1..n : Slot(b, k, m) \in OrdersAt(b, k[1], k[2])
        /\ \A i \in OrdersAt(b, k[1], k[2]) : \E m \in 1..n : Slot(b, k, m) = i
    BY QueuesPlaced DEF Placed, Shown
  <2> HIDE DEF n
  <2>2. n # 0 => 1 \in 1..n
    BY <2>1
  <2>3. n # 0 <=> OrdersAt(b, k[1], k[2]) # {}
    BY <2>1, <2>2
  <2> QED
    BY <2>1, <2>3 DEF Promise!OpenLevels
<1>4. \A k \in O : k \in Promise!Queues
  BY DEF Promise!OpenLevels
<1> HIDE DEF O
<1>5. \A k \in O : f[k] \in b.sides[k[1]].tree /\ b.levels[f[k]].price = k[2]
  <2> SUFFICES ASSUME NEW k \in O
               PROVE  LevelOf(k) \in b.sides[k[1]].tree /\ b.levels[LevelOf(k)].price = k[2]
    OBVIOUS
  <2>1. \E l \in b.sides[k[1]].tree : b.levels[l].price = k[2]
    BY <1>3, <1>4 DEF OrdersAt, Whole, SettledBut, Housed
  <2> QED
    BY <2>1
<1>6. f \in [O -> T]
  <2>1. \A k \in O : f[k] \in T
    BY <1>2, <1>4, <1>5 DEF Sides
  <2> QED
    BY <2>1
<1> HIDE DEF f
<1>7. \A s, r \in Sides : \A l \in b.sides[s].tree : l \in b.sides[r].tree => s = r
  BY DEF Whole, LevelsSound, LevelsAccountedIn, Sides
<1>8. \A k, h \in O : f[k] = f[h] => k = h
  BY <1>2, <1>4, <1>5, <1>7
<1>9. ASSUME NEW l \in T
      PROVE  \E k \in O : f[k] = l
  <2>1. PICK s \in Sides : l \in b.sides[s].tree
    BY DEF Sides
  <2> DEFINE k == <<s, b.levels[l].price>>
  <2>2. l # kInvalid
    BY <2>1, TreeLevels DEF LevelSlots, kInvalid, Whole
  <2>3. OrdersAt(b, s, b.levels[l].price) # {}
    BY <2>1, <2>2 DEF Whole, SettledBut, InhabitedBut
  <2>4. k \in Promise!Queues
    BY <2>3, QueuesAre DEF OrdersAt, Asked
  <2>5. k \in O
    BY <1>3, <2>3, <2>4
  <2>6. f[k] = l
    BY <1>5, <2>1, <2>5, TreeLevels DEF Whole
  <2> QED
    BY <2>5, <2>6
<1> HIDE DEF T
<1>10. f \in Injection(O, T) /\ f \in Surjection(O, T)
  BY <1>6, <1>8, <1>9 DEF Injection, Surjection, IsInjective
<1>11. IsFiniteSet(O) /\ Cardinality(O) = Cardinality(T)
  BY <1>1, <1>10, FS_Injection
<1> QED
  BY <1>1, <1>11 DEF O

\* The abstract book counts as the book does.
LEMMA SameCount ==
    ASSUME NEW S
    PROVE  Promise!Cardinality(S) = Cardinality(S)
BY DEF Cardinality, Promise!Cardinality

\* A queue of the abstract book has room exactly when add_order finds what it needs.
LEMMA RoomIs ==
    ASSUME NEW b, Whole(b), Asked(b), NEW k
    PROVE  Promise!Room(RestingIn(b), k) <=>
                /\ b.order_free # << >> /\ ~MapRefuses(b)
                /\ RestingIn(b)[k] # << >> \/ b.level_free # << >>
<1>1. Promise!Depth(RestingIn(b)) = Cardinality(Places(b))
  BY SameCount DEF Promise!Depth, Places
<1>2. b.order_free # << >> /\ ~MapRefuses(b) <=> Cardinality(Live(b)) < OrderLimit
  BY LiveCounted, FullAtLimit DEF Whole
<1>3. Cardinality(Places(b)) < OrderLimit <=> Cardinality(Live(b)) < OrderLimit
  BY DepthCounted, LiveCounted, FullAtLimit DEF Whole
<1> QED
  BY <1>1, <1>2, <1>3, SameCount, OpenCounted DEF Promise!Room
-----------------------------------------------------------------------------
(* add_order, as the abstract book sees it.                                *)

\* In book c, slot i has joined the back of the list of side s and price p of book b,
\* and the other lists and orders are the same.
Arrived(b, c, i, s, p) ==
    /\ \A t : \A r \in Sides : \A n \in Nat : \A q \in [1..n -> OrderSlots] :
            FullList(b, r, t, n, q) =>
                IF r = s /\ t = p THEN Lists(c, r, t, n + 1, Lengthened(n, q, i))
                ELSE Lists(c, r, t, n, q)
    /\ \A j \in OrderSlots \ {i} : SameOrder(b, c, j)

\* Steps 2-4 of add_order.
LEMMA EnterArrives ==
    ASSUME NEW b \in Book, b.order_free # << >>, OrdersAccountedIn(b), LevelsSound(b),
           QueuesBut(b, {}), NEW s \in Sides, NEW l \in b.sides[s].tree,
           NEW id \in OrderIds, NEW q \in Qtys
    PROVE  LET i == Head(b.order_free)
               p == b.levels[l].price
               c == AppendToLevel(PlaceOrder(b, id, s, p, q), l, i, q)
           IN  /\ Arrived(b, c, i, s, p) /\ i \in OrderSlots /\ i \notin Live(b)
               /\ c.orders[i].order_id = id /\ c.orders[i].remaining_qty = q
<1> DEFINE i == Head(b.order_free)
           p == b.levels[l].price
           a == PlaceOrder(b, id, s, p, q)
           c == AppendToLevel(a, l, i, q)
<1>1. l \in LevelSlots /\ p \in Nat
  BY TreeLevels
<1> HIDE DEF p
<1>2. /\ c.sides = b.sides /\ i \in OrderSlots /\ i \notin Live(b)
      /\ c.levels[l].price = b.levels[l].price
  BY <1>1, EnteredContents
<1>3. b.levels[l].tail_order_idx # i
  <2>1. Queued(b, l, On(b, s, l)) /\ On(b, s, l) \in SUBSET Live(b)
    BY DEF QueuesBut, On, OrdersAt
  <2>2. i # kInvalid
    BY <1>2 DEF OrderSlots, kInvalid
  <2> QED
    BY <1>2, <2>1, <2>2, TailLive
<1>4. Joined(b, c, l, i, q)
  BY <1>1, <1>3, EnteredJoins
<1>5. /\ c.orders[i].order_id = id /\ c.orders[i].remaining_qty = q
      /\ \A j \in OrderSlots \ {i} : SameOrder(b, c, j)
  <2>1. a \in Book /\ a.orders[i].order_id = id
        /\ \A j \in OrderSlots \ {i} : a.orders[j] = b.orders[j]
    <3>1. a \in Book
      BY <1>1, PlaceType
    <3> QED
      BY <1>2, <3>1 DEF PlaceOrder, Book
  <2> HIDE DEF a
  <2>2. c.orders = LinkedFrom(a.orders, a.levels[l].tail_order_idx, i)
    BY <1>2, <2>1 DEF Book, AppendToLevel
  <2>3. \A tail : \A j \in OrderSlots :
            LinkedFrom(a.orders, tail, i)[j].order_id = a.orders[j].order_id
    BY <2>1 DEF Book, Order, LinkedFrom
  <2> HIDE DEF c
  <2> QED
    BY <1>2, <1>4, <2>1, <2>2, <2>3 DEF Joined, SameOrder
<1> HIDE DEF c, i
<1>6. ASSUME NEW r \in Sides, NEW t, NEW n \in Nat, NEW w \in [1..n -> OrderSlots],
             FullList(b, r, t, n, w)
      PROVE  IF r = s /\ t = p THEN Lists(c, r, t, n + 1, Lengthened(n, w, i))
             ELSE Lists(c, r, t, n, w)
  BY <1>2, <1>4, <1>6, EnterLists DEF p
<1>7. Arrived(b, c, i, s, p)
  BY <1>5, <1>6 DEF Arrived
<1> QED
  BY <1>2, <1>5, <1>7 DEF c, i, a, p

\* u is a sequence of n entries.
Listed(n, u) == u = [m \in 1..n |-> u[m]]

\* A sequence with one more entry is the shorter one with that entry appended.
LEMMA LongerAppended ==
    ASSUME NEW n \in Nat, NEW u, NEW v, Listed(n, u), Listed(n + 1, v),
           \A m \in 1..n : v[m] = u[m]
    PROVE  v = Append(u, v[n + 1])
<1> DEFINE V == {v[m] : m \in 1..(n + 1)}
           new == v[n + 1]
<1>1. v \in [1..(n + 1) -> V] /\ u \in [1..n -> V] /\ new \in V
  BY DEF Listed
<1> HIDE DEF V, new
<1>2. n + 1 \in Nat
  OBVIOUS
<1>3. v \in Seq(V) /\ u \in Seq(V)
  BY <1>1, <1>2, SeqDef
<1>4. Len(v) = n + 1 /\ Len(u) = n
  BY <1>1, <1>3, LenProperties
<1>5. /\ Append(u, new) \in Seq(V) /\ Len(Append(u, new)) = n + 1
      /\ \A m \in 1..n : Append(u, new)[m] = u[m]
      /\ Append(u, new)[n + 1] = new
  BY <1>1, <1>3, <1>4, AppendProperties
<1>6. ASSUME NEW m \in 1..(n + 1)
      PROVE  v[m] = Append(u, new)[m]
  <2>1. CASE m = n + 1
    BY <1>5, <2>1 DEF new
  <2>2. CASE m \in 1..n
    BY <1>5, <2>2
  <2>3. m = n + 1 \/ m \in 1..n
    OBVIOUS
  <2> QED
    BY <2>1, <2>2, <2>3
<1>7. v = Append(u, new)
  BY <1>3, <1>4, <1>5, <1>6, SeqEqual
<1> QED
  BY <1>7 DEF new

\* An order that arrives joins the back of its queue, and no other queue changes.
LEMMA ShownArrived ==
    ASSUME NEW b, Whole(b), NEW c \in Book, LevelsSound(c), c.fault = "None",
           NEW i \in OrderSlots, i \notin Live(b), NEW s \in Sides, NEW p \in Prices,
           Arrived(b, c, i, s, p)
    PROVE  LET new == [id |-> c.orders[i].order_id, qty |-> c.orders[i].remaining_qty]
               r == RestingIn(b)
           IN  RestingIn(c) = [r EXCEPT ![<<s, p>>] = Append(r[<<s, p>>], new)]
<1> DEFINE new == [id |-> c.orders[i].order_id, qty |-> c.orders[i].remaining_qty]
           R == RestingIn(b)
           S == RestingIn(c)
<1>1. ASSUME NEW r \in Sides, NEW t \in Prices
      PROVE  S[<<r, t>>] = IF r = s /\ t = p THEN Append(R[<<r, t>>], new) ELSE R[<<r, t>>]
  <2>1. PICK n \in Nat : \E q \in [1..n -> OrderSlots] : FullList(b, r, t, n, q)
    BY ListsExist
  <2>2. PICK q \in [1..n -> OrderSlots] : FullList(b, r, t, n, q)
    BY <2>1
  <2>3. R[<<r, t>>] = Row(b, n, q)
    BY <2>2, ListsShown DEF FullList, Whole
  <2>4. \A m \in 1..n : q[m] \in OrderSlots \ {i}
    BY <2>2 DEF FullList, Entries, OrdersAt, Live
  <2>5. \A m \in 1..n : SameOrder(b, c, q[m])
    BY <2>4 DEF Arrived
  <2>6. Row(c, n, q) = Row(b, n, q)
    BY <2>5 DEF Row, SameOrder
  <2>7. CASE r = s /\ t = p
    <3> DEFINE w == Lengthened(n, q, i)
    <3>1. w \in [1..(n + 1) -> OrderSlots] /\ w[n + 1] = i /\ \A m \in 1..n : w[m] = q[m]
      BY DEF Lengthened
    <3>2. Lists(c, r, t, n + 1, w)
      BY <2>2, <2>7 DEF Arrived
    <3> HIDE DEF w
    <3>3. S[<<r, t>>] = Row(c, n + 1, w)
      BY <3>1, <3>2, ListsShown
    <3>4. Row(c, n + 1, w) = Append(Row(c, n, q), new)
      <4> DEFINE u == Row(c, n, q)
                 v == Row(c, n + 1, w)
      <4>1. /\ v[n + 1] = new /\ \A m \in 1..n : v[m] = u[m]
            /\ Listed(n, u) /\ Listed(n + 1, v)
        BY <3>1 DEF Row, Listed
      <4> HIDE DEF u, v, new
      <4>2. v = Append(u, new)
        BY <4>1, LongerAppended
      <4> QED
        BY <4>2 DEF u, v
    <3> QED
      BY <2>3, <2>6, <2>7, <3>3, <3>4
  <2>8. CASE ~(r = s /\ t = p)
    <3>1. Lists(c, r, t, n, q)
      BY <2>2, <2>8 DEF Arrived
    <3>2. S[<<r, t>>] = Row(c, n, q)
      BY <3>1, ListsShown
    <3> QED
      BY <2>3, <2>6, <2>8, <3>2
  <2> QED
    BY <2>7, <2>8
<1>2. R = [k \in Sides \X Prices |-> R[k]] /\ S = [k \in Sides \X Prices |-> S[k]]
  BY DEF RestingIn
<1> HIDE DEF R, S, new
<1>3. \A k \in Sides \X Prices : S[k] = IF k = <<s, p>> THEN Append(R[<<s, p>>], new) ELSE R[k]
  BY <1>1
<1>4. S = [R EXCEPT ![<<s, p>>] = Append(R[<<s, p>>], new)]
  BY <1>2, <1>3
<1> QED
  BY <1>4 DEF R, S, new

\* The reasons the abstract book accepts for a request not being served.
Refused(b, fault) ==
    \/ fault = "Request"
    \/ fault = "TickRange" /\ \E p \in Prices : p >= MaxTicks
    \/ fault \in CapacityFaults /\ \E k \in Promise!Queues : ~Promise!Room(RestingIn(b), k)

\* What add_order makes of a book.
Added(b, c) ==
    IF c.fault = "None" THEN Promise!Enter(RestingIn(b), RestingIn(c)) /\ Asked(c)
    ELSE Refused(b, c.fault)

\* Order id is the last of the queue of side s and price p, and the rest is as it was.
LastOf(b, c, id, s, p, q) ==
    LET r == RestingIn(b)
    IN  RestingIn(c) = [r EXCEPT ![<<s, p>>] = Append(r[<<s, p>>], [id |-> id, qty |-> q])]
Entered(b, c, id, s, p, q) == Added(b, c) /\ (c.fault = "None" => LastOf(b, c, id, s, p, q))

\* Book d has the orders and the lists of book b: at most a level has been opened.
Carried(b, d) ==
    /\ d.orders = b.orders /\ SameOrders(b, d)
    /\ \A t : \A r \in Sides : \A n \in Nat : \A q \in [1..n -> OrderSlots] :
            Lists(b, r, t, n, q) => Lists(d, r, t, n, q)

\* An order that arrives is one that enters the abstract book.
LEMMA ArrivedEnters ==
    ASSUME NEW b, Whole(b), Asked(b), NEW c \in Book, LevelsSound(c), c.fault = "None",
           NEW i \in OrderSlots, i \notin Live(b), NEW s \in Sides, NEW p \in Prices,
           Arrived(b, c, i, s, p), p < MaxTicks, c.orders[i].order_id \notin DOMAIN b.order_map,
           b.order_free # << >>, ~MapRefuses(b),
           RestingIn(b)[<<s, p>>] # << >> \/ b.level_free # << >>
    PROVE  Promise!Enter(RestingIn(b), RestingIn(c))
<1> DEFINE k == <<s, p>>
           new == [id |-> c.orders[i].order_id, qty |-> c.orders[i].remaining_qty]
           r == RestingIn(b)
           t == RestingIn(c)
<1>1. t = [r EXCEPT ![k] = Append(r[k], new)]
  BY ShownArrived
<1>2. k \in Promise!Queues /\ k[2] < MaxTicks
  BY QueuesAre
<1>3. Promise!Room(r, k)
  BY RoomIs
<1>4. ~Promise!Rests(r, new.id)
  BY RestsMapped
<1>5. r[k] \in Seq(Promise!Entry) /\ r = [h \in Promise!Queues |-> r[h]]
  <2>1. r \in [Promise!Queues -> Seq(Promise!Entry)]
    BY RestingType
  <2> HIDE DEF r, k
  <2> QED
    BY <1>2, <2>1
<1> HIDE DEF r, t, k, new
<1>6. t[k] = Append(r[k], new)
  BY <1>1, <1>2, <1>5
<1>7. t[k] # << >> /\ t[k][Len(t[k])] = new
  <2> DEFINE V == Promise!Entry \cup {new}
  <2>1. r[k] \in Seq(V) /\ new \in V
    BY <1>5, SeqMonotonic
  <2> HIDE DEF V
  <2> QED
    BY <1>6, <2>1, AppendProperties
<1> QED
  BY <1>1, <1>2, <1>3, <1>4, <1>7 DEF Promise!Enter, r, t

\* Steps 2-4 of add_order, on a level of the order's side and price.
LEMMA EnterStep ==
    ASSUME NEW b, Whole(b), Asked(b), NEW d \in Book, Carried(b, d), d.fault = "None",
           LevelsSound(d), QueuesBut(d, {}),
           NEW s \in Sides, NEW p \in Prices, NEW l \in d.sides[s].tree, d.levels[l].price = p,
           RestingIn(b)[<<s, p>>] # << >> \/ b.level_free # << >>,
           NEW id \in OrderIds, id \notin DOMAIN b.order_map, NEW q \in Qtys
    PROVE  Entered(b, EnterOrder(d, l, id, s, p, q), id, s, p, q)
<1> DEFINE i == Head(d.order_free)
           c == AppendToLevel(PlaceOrder(d, id, s, p, q), l, i, q)
           k == <<s, p>>
<1>1. /\ b \in Book /\ OrdersAccountedIn(d) /\ d.order_free = b.order_free
      /\ d.order_map = b.order_map
      /\ MapRefuses(d) <=> MapRefuses(b)
  BY SameOrdersAccounted DEF Whole, Carried, SameOrders, MapRefuses
<1>2. l \in LevelSlots /\ p \in Nat /\ p < MaxTicks /\ k \in Promise!Queues
  <2>1. l \in LevelSlots /\ p \in 0..(MaxTicks - 1)
    BY TreeLevels
  <2> QED
    BY <2>1, QueuesAre, CapacityAssumption
<1>3. CASE b.order_free = << >> \/ MapRefuses(b)
  <2>1. ~Promise!Room(RestingIn(b), k)
    BY <1>3, RoomIs
  <2>2. EnterOrder(d, l, id, s, p, q) \in {Fail(d, "OrderPool"), Fail(d, "MapFull")}
    BY <1>1, <1>3 DEF EnterOrder
  <2>3. EnterOrder(d, l, id, s, p, q).fault \in {"OrderPool", "MapFull"}
    BY <2>2 DEF Fail, Book
  <2> QED
    BY <1>2, <2>1, <2>3 DEF Entered, Added, Refused, CapacityFaults
<1>4. CASE b.order_free # << >> /\ ~MapRefuses(b)
  <2>1. EnterOrder(d, l, id, s, p, q) = c
    BY <1>1, <1>4 DEF EnterOrder
  <2>2. c \in Book /\ LevelsSound(c)
    <3>1. EnterOrder(d, l, id, s, p, q) \in Book /\ LevelsSound(EnterOrder(d, l, id, s, p, q))
      BY <1>2, EnterType, EnterSound
    <3> QED
      BY <2>1, <3>1
  <2>3. /\ c.fault = "None" /\ i \in OrderSlots /\ Live(c) = Live(d) \cup {i}
        /\ c.orders[i].price = p
        /\ \A j \in OrderSlots \ {i} : c.orders[j].price = d.orders[j].price
    BY <1>1, <1>2, <1>4, EnteredContents
  <2>4. /\ Arrived(d, c, i, s, p) /\ i \notin Live(d)
        /\ c.orders[i].order_id = id /\ c.orders[i].remaining_qty = q
    BY <1>1, <1>4, EnterArrives
  <2> HIDE DEF c, i
  <2>5. Live(d) = Live(b)
    BY DEF Carried, Live
  <2>6. Arrived(b, c, i, s, p)
    <3>1. \A r, t : OrdersAt(d, r, t) = OrdersAt(b, r, t)
      BY <2>5 DEF Carried, OrdersAt
    <3>2. ASSUME NEW r \in Sides, NEW t, NEW n \in Nat, NEW w \in [1..n -> OrderSlots],
                 FullList(b, r, t, n, w)
          PROVE  FullList(d, r, t, n, w)
      BY <3>1, <3>2 DEF FullList, Carried
    <3>3. \A j \in OrderSlots \ {i} : SameOrder(b, c, j)
      BY <2>4 DEF Arrived, SameOrder, Carried
    <3> QED
      BY <2>4, <3>2, <3>3 DEF Arrived
  <2>7. Promise!Enter(RestingIn(b), RestingIn(c))
    BY <1>2, <1>4, <2>2, <2>3, <2>4, <2>5, <2>6, ArrivedEnters
  <2>8. Asked(c)
    BY <2>3, <2>5 DEF Asked, Carried, Live
  <2>9. LastOf(b, c, id, s, p, q)
    BY <2>2, <2>3, <2>4, <2>5, <2>6, ShownArrived DEF LastOf
  <2> QED
    BY <2>1, <2>3, <2>7, <2>8, <2>9 DEF Entered, Added
<1> QED
  BY <1>3, <1>4

\* add_order.
LEMMA AddStep ==
    ASSUME NEW b, Whole(b), Asked(b), NEW id \in OrderIds, NEW s \in Sides,
           NEW p \in Prices, NEW q \in Qtys
    PROVE  Entered(b, AddOrder(b, id, s, p, q), id, s, p, q)
<1> DEFINE l == FindByPrice(b, s, p)
           new == Head(b.level_free)
           c == CreateLevel(b, s, p)
           d == InsertLevel(c, s, new)
           k == <<s, p>>
<1>1. p \in Nat /\ k \in Promise!Queues /\ b \in Book
  BY RequestAssumption, QueuesAre DEF Whole
<1>2. \A why : Fail(b, why).fault = why
  BY <1>1 DEF Fail, Book
<1>3. CASE q = 0 \/ p = 0 \/ id \in DOMAIN b.order_map
  BY <1>2, <1>3 DEF AddOrder, Entered, Added, Refused
<1>4. CASE ~(q = 0 \/ p = 0 \/ id \in DOMAIN b.order_map) /\ l # kInvalid
  <2>1. l \in b.sides[s].tree /\ b.levels[l].price = p
    BY <1>1, <1>4, FindSound DEF Whole
  <2>2. RestingIn(b)[k] # << >>
    <3>1. l # kInvalid
      BY <1>4
    <3>2. OrdersAt(b, s, p) # {}
      BY <2>1, <3>1 DEF Whole, SettledBut, InhabitedBut
    <3>3. \E m \in 1..Len(RestingIn(b)[k]) : TRUE
      BY <1>1, <3>2, QueuesPlaced DEF Placed
    <3> QED
      BY <1>1, <3>3, QueuesPlaced DEF Placed
  <2>3. Carried(b, b)
    BY DEF Carried, SameOrders
  <2>4. Entered(b, EnterOrder(b, l, id, s, p, q), id, s, p, q)
    BY <1>1, <1>4, <2>1, <2>2, <2>3, EnterStep DEF Whole, HeldBut
  <2> QED
    BY <1>4, <2>4 DEF AddOrder
<1>5. CASE ~(q = 0 \/ p = 0 \/ id \in DOMAIN b.order_map) /\ l = kInvalid
  <2>1. \A m \in b.sides[s].tree : b.levels[m].price # p
    BY <1>1, <1>5, FindSound DEF Whole
  <2>2. RestingIn(b)[k] = << >>
    BY <1>1, <1>5 DEF RestingIn, Whole
  <2>3. CASE b.level_free = << >>
    <3>1. ~Promise!Room(RestingIn(b), k)
      BY <2>2, <2>3, RoomIs
    <3> QED
      BY <1>1, <1>2, <1>5, <2>3, <3>1 DEF AddOrder, Entered, Added, Refused, CapacityFaults
  <2>4. CASE b.level_free # << >> /\ p >= MaxTicks
    BY <1>1, <1>2, <1>5, <2>4 DEF AddOrder, Entered, Added, Refused
  <2>5. CASE b.level_free # << >> /\ ~(p >= MaxTicks)
    <3>1. p < MaxTicks
      BY <1>1, <2>5, CapacityAssumption
    <3>2. c \in Book /\ new \in LevelSlots /\ c.levels[new].price = p
      BY <1>1, <2>5, CreateType
    <3>3. d \in Book
      BY <1>1, <3>1, <3>2, InsertType
    <3>4. LevelsSound(d) /\ HeldBut(d, {}) /\ d.fault = "None"
      BY <1>1, <2>1, <2>5, <3>1, OpenSound, OpenHeld DEF Whole, SettledBut
    <3>5. Carried(b, d)
      <4>1. ASSUME NEW r \in Sides, NEW t, NEW n \in Nat, NEW w \in [1..n -> OrderSlots],
                   Lists(b, r, t, n, w)
            PROVE  Lists(d, r, t, n, w)
        BY <1>1, <2>1, <2>5, <4>1, OpenLists DEF Whole
      <4>2. d.orders = b.orders
        <5>1. d.orders = c.orders /\ c.orders = b.orders
          BY <1>1, <3>2 DEF InsertLevel, CreateLevel, Book
        <5> QED
          BY <5>1
      <4>3. SameOrders(b, d)
        <5>1. SameOrders(b, c)
          BY <1>1, CreateSame
        <5> HIDE DEF c
        <5>2. SameOrders(c, d)
          BY <3>2, InsertSame
        <5> QED
          BY <5>1, <5>2 DEF SameOrders
      <4> HIDE DEF d
      <4> QED
        BY <4>1, <4>2, <4>3 DEF Carried
    <3>6. new \in d.sides[s].tree /\ d.levels[new].price = p
      <4> HIDE DEF c, new
      <4> QED
        BY <3>2 DEF Book, InsertLevel
    <3> HIDE DEF d
    <3>7. Entered(b, EnterOrder(d, new, id, s, p, q), id, s, p, q)
      BY <1>5, <2>5, <3>3, <3>4, <3>5, <3>6, EnterStep DEF HeldBut
    <3> QED
      BY <1>5, <2>5, <3>7 DEF AddOrder, d
  <2> QED
    BY <2>3, <2>4, <2>5
<1> QED
  BY <1>4, <1>5, <1>3
-----------------------------------------------------------------------------
(* The other requests, as the abstract book sees them.                     *)

\* delete_order_internal removes the one order, and leaves the prices of the others.
LEMMA DeleteInternalAsked ==
    ASSUME NEW b \in Book, Asked(b), NEW i \in OrderSlots, NEW s \in Sides, NEW l \in LevelSlots
    PROVE  Asked(DeleteOrderInternal(b, i, s, l))
<1> DEFINE u == Unlink(b, l, i)
           f == FreeOrder(u, l, i)
           d == DeleteOrderInternal(b, i, s, l)
<1>1. u \in Book /\ SameContents(b, u)
  BY UnlinkType, UnlinkSameContents
<1> HIDE DEF u
<1>2. f.orders = [u.orders EXCEPT ![i] = NoOrder] /\ f \in Book
  BY <1>1, FreeType DEF FreeOrder, Book
<1> HIDE DEF f
<1>3. RemoveAndDestroyLevel(f, s, l).orders = f.orders
  <2>1. RemoveLevel(f, s, l).orders = f.orders /\ RemoveLevel(f, s, l) \in Book
    BY <1>2, RemoveType DEF RemoveLevel, Book
  <2> QED
    BY <1>2, <2>1 DEF RemoveAndDestroyLevel, Fail, Book
<1>4. d.orders = f.orders
  BY <1>3 DEF DeleteOrderInternal, f, u
<1> HIDE DEF d
<1>5. ASSUME NEW j \in Live(d)
      PROVE  d.orders[j].price \in Prices
  <2>1. j \in OrderSlots /\ d.orders[j].order_id # kInvalid
    BY DEF Live
  <2>2. j # i
    BY <1>1, <1>2, <1>4, <2>1 DEF Book, NoOrder
  <2>3. d.orders[j] = u.orders[j]
    BY <1>1, <1>2, <1>4, <2>1, <2>2 DEF Book
  <2>4. d.orders[j].price = b.orders[j].price /\ j \in Live(b)
    BY <1>1, <2>1, <2>3 DEF SameContents, Live
  <2> QED
    BY <2>4 DEF Asked
<1> QED
  BY <1>5 DEF Asked, d

\* A list stays when only quantities change.
LEMMA TakesLists ==
    ASSUME NEW b \in Book, NEW c \in Book, LevelsSound(b), NEW i, NEW l, NEW e,
           TakesQty(b, c, i, l, e),
           NEW r \in Sides, NEW t, NEW n \in Nat, NEW q \in [1..n -> OrderSlots],
           FullList(b, r, t, n, q)
    PROVE  FullList(c, r, t, n, q)
<1>1. c.sides[r].tree = b.sides[r].tree /\ b.sides[r].tree \subseteq LevelSlots
  BY TreeLevels DEF TakesQty
<1>2. \A m \in LevelSlots : /\ c.levels[m].head_order_idx = b.levels[m].head_order_idx
                            /\ c.levels[m].tail_order_idx = b.levels[m].tail_order_idx
                            /\ c.levels[m].price = b.levels[m].price
  BY DEF TakesQty
<1>3. \A j \in Entries(n, q) : c.orders[j].next_in_level = b.orders[j].next_in_level
  BY DEF TakesQty, Entries
<1>4. Lists(b, r, t, n, q)
  BY DEF FullList
<1>5. Lists(c, r, t, n, q)
  BY <1>1, <1>2, <1>3, <1>4, SameLists
<1>6. OrdersAt(c, r, t) = OrdersAt(b, r, t)
  BY DEF OrdersAt, Live, TakesQty
<1> QED
  BY <1>5, <1>6 DEF FullList

\* An order whose whole quantity has been taken off its level leaves its queue.
LEMMA TakenDeparts ==
    ASSUME NEW b, Whole(b), Asked(b), NEW i \in Live(b),
           NEW l \in b.sides[b.orders[i].side].tree, b.levels[l].price = b.orders[i].price,
           NEW c \in Book, SameLevels(b, c), SameContents(b, c),
           TakesQty(b, c, i, l, b.orders[i].remaining_qty)
    PROVE  LET d == DeleteOrderInternal(c, i, b.orders[i].side, l)
           IN  /\ d.fault = "None" /\ Asked(d)
               /\ RestingIn(d) = Promise!Without(RestingIn(b), b.orders[i].order_id)
<1> DEFINE s == b.orders[i].side
           e == b.orders[i].remaining_qty
           d == DeleteOrderInternal(c, i, s, l)
<1>1. /\ b \in Book /\ i \in OrderSlots /\ s \in Sides /\ e \in Nat /\ l \in LevelSlots
  <2>1. b \in Book /\ i \in OrderSlots /\ s \in Sides /\ e \in Nat
    BY RequestAssumption DEF Whole, Live, Book, Order, Qtys
  <2> QED
    BY <2>1, TreeLevels DEF Whole
<1>2. /\ LevelsSound(c) /\ SettledBut(c, kInvalid) /\ c.fault = "None" /\ Asked(c)
      /\ i \in Live(c) /\ c.orders[i].side = s
      /\ l \in c.sides[c.orders[i].side].tree /\ c.levels[l].price = c.orders[i].price
  <2>1. LevelsSound(c) /\ SettledBut(c, kInvalid)
    BY <1>1, SameLevelsSound, SameContentsSettled DEF Whole
  <2> QED
    BY <1>1, <2>1 DEF Whole, SameContents, Live, Asked
<1>3. QueuesBut(c, {}) /\ PositiveBut(c, {i}) /\ TotalsBut(c, {i})
  BY <1>1, TakesHeld DEF Whole
<1>4. d \in Book /\ LevelsSound(d) /\ Asked(d)
  BY <1>1, <1>2, DeleteInternalType, DeleteInternalSound, DeleteInternalAsked
<1>5. d.fault = "None"
  BY <1>2, <1>3, DeleteInternalHeld
<1>6. ASSUME NEW r \in Sides, NEW t, NEW n \in Nat, NEW q \in [1..n -> OrderSlots],
             FullList(b, r, t, n, q)
      PROVE  HasLeft(d, i, r, t, n, q)
  <2>1. FullList(c, r, t, n, q)
    BY <1>1, <1>6, TakesLists DEF Whole
  <2> QED
    BY <1>2, <1>3, <2>1, DeleteInternalLists
<1>7. \A j \in OrderSlots \ {i} : SameOrder(b, d, j)
  <2>1. PICK n \in Nat : \E q \in [1..n -> OrderSlots] : FullList(b, s, b.orders[i].price, n, q)
    BY <1>1, ListsExist
  <2>2. PICK q \in [1..n -> OrderSlots] : FullList(b, s, b.orders[i].price, n, q)
    BY <2>1
  <2>3. FullList(c, s, b.orders[i].price, n, q)
    BY <1>1, <2>2, TakesLists DEF Whole
  <2>4. \A j \in OrderSlots \ {i} : SameOrder(c, d, j)
    BY <1>1, <1>2, <1>3, <2>3, DeleteInternalLists
  <2> QED
    BY <2>4 DEF SameOrder, TakesQty
<1> HIDE DEF d
<1>8. Departed(b, d, i)
  BY <1>6, <1>7 DEF Departed
<1> QED
  BY <1>4, <1>5, <1>8, ShownWithout DEF d

\* delete_order.
LEMMA DeleteStep ==
    ASSUME NEW b, Whole(b), Asked(b), NEW id \in OrderIds
    PROVE  LET d == DeleteOrder(b, id)
           IN  IF id \in DOMAIN b.order_map
               THEN /\ d.fault = "None" /\ Asked(d)
                    /\ RestingIn(d) = Promise!Without(RestingIn(b), id)
               ELSE d.fault = "Request"
<1> DEFINE i == b.order_map[id]
           o == b.orders[i]
           l == FindByPrice(b, o.side, o.price)
           r == DropQty(b, l, o.remaining_qty)
           d == DeleteOrder(b, id)
<1>1. CASE id \in DOMAIN b.order_map
  <2>1. /\ i \in Live(b) /\ i \in OrderSlots /\ o \in Order /\ b \in Book
        /\ o.side \in Sides /\ o.price \in Nat /\ o.remaining_qty \in Qtys
        /\ l # kInvalid /\ l \in LevelSlots /\ l \in b.sides[o.side].tree
        /\ b.levels[l].price = o.price
    BY <1>1, LookupHoused DEF Whole
  <2>2. o.order_id = id
    BY <1>1 DEF Whole, OrdersAccountedIn
  <2> HIDE DEF l
  <2>3. /\ r \in Book /\ SameLevels(b, r) /\ SameContents(b, r)
        /\ TakesQty(b, r, i, l, o.remaining_qty)
    BY <2>1, DropType, DropSameLevels, DropSameContents, DropTakes
  <2>4. d = DeleteOrderInternal(r, i, o.side, l)
    BY <1>1, <2>1 DEF DeleteOrder, l
  <2> HIDE DEF r, d
  <2>5. /\ d.fault = "None" /\ Asked(d)
        /\ RestingIn(d) = Promise!Without(RestingIn(b), o.order_id)
    BY <2>1, <2>3, <2>4, TakenDeparts
  <2> QED
    BY <1>1, <2>2, <2>5 DEF d
<1>2. CASE id \notin DOMAIN b.order_map
  BY <1>2 DEF DeleteOrder, Fail, Whole, Book
<1> QED
  BY <1>1, <1>2

\* Part of an order leaves: it keeps its place, and nobody else's entry changes.
LEMMA ShownReduced ==
    ASSUME NEW b, Whole(b), NEW c \in Book, LevelsSound(c), c.fault = "None",
           SameContents(b, c), NEW i \in Live(b), NEW l, NEW e, TakesQty(b, c, i, l, e),
           NEW k \in Promise!Queues, NEW m \in 1..Len(RestingIn(b)[k]), Slot(b, k, m) = i
    PROVE  RestingIn(c) = [RestingIn(b) EXCEPT ![k][m].qty = c.orders[i].remaining_qty]
<1> DEFINE R == RestingIn(b)
           x == c.orders[i].remaining_qty
           id == b.orders[i].order_id
<1>1. Placed(b, k) /\ i \in OrderSlots /\ c.orders[i].order_id = id
  BY QueuesPlaced DEF SameContents, Live
<1>2. i \in OrdersAt(b, k[1], k[2])
  <2>1. Shown(b, k, m)
    BY <1>1 DEF Placed
  <2> QED
    BY <2>1 DEF Shown
<1>3. ASSUME NEW s \in Sides, NEW p \in Prices
      PROVE  RestingIn(c)[<<s, p>>] = IF <<s, p>> = k
                                      THEN [R[k] EXCEPT ![m].qty = x] ELSE R[<<s, p>>]
  <2>1. PICK n \in Nat : \E q \in [1..n -> OrderSlots] : FullList(b, s, p, n, q)
    BY ListsExist
  <2>2. PICK q \in [1..n -> OrderSlots] : FullList(b, s, p, n, q)
    BY <2>1
  <2>3. SlotsAre(b, <<s, p>>, n, q)
    BY <2>2, SlotsListed
  <2>4. /\ R[<<s, p>>] = Row(b, n, q)
        /\ \A h \in 1..n : Slot(b, <<s, p>>, h) = q[h] /\ q[h] \in OrdersAt(b, s, p)
    BY <2>3 DEF SlotsAre
  <2>5. FullList(c, s, p, n, q)
    BY <2>2, TakesLists DEF Whole
  <2>6. RestingIn(c)[<<s, p>>] = Row(c, n, q)
    BY <2>5, ListsShown DEF FullList
  <2>7. \A h \in 1..n : /\ q[h] \in OrderSlots
                        /\ c.orders[q[h]].order_id = b.orders[q[h]].order_id
                        /\ q[h] # i => c.orders[q[h]].remaining_qty = b.orders[q[h]].remaining_qty
    BY DEF SameContents, TakesQty
  <2>8. CASE <<s, p>> # k
    <3>1. \A h \in 1..n : q[h] # i
      <4>1. <<s, p>> # <<k[1], k[2]>>
        BY <2>8, QueuesAre
      <4> QED
        BY <1>2, <2>4, <4>1 DEF OrdersAt
    <3>2. Row(c, n, q) = Row(b, n, q)
      BY <2>7, <3>1 DEF Row
    <3> QED
      BY <2>4, <2>6, <2>8, <3>2
  <2>9. CASE <<s, p>> = k
    <3>1. Len(R[k]) = n /\ Row(b, n, q) = R[k]
      BY <2>3, <2>9 DEF SlotsAre
    <3>2. \A h \in 1..n : q[h] = i <=> h = m
      <4>1. \A h, j \in 1..n : Slot(b, k, h) = Slot(b, k, j) => h = j
        BY <1>1, <3>1 DEF Placed
      <4>2. \A h \in 1..n : Slot(b, k, h) = q[h]
        BY <2>4, <2>9
      <4> QED
        BY <3>1, <4>1, <4>2
    <3> DEFINE w == [Row(b, n, q) EXCEPT ![m].qty = x]
    <3>3. \A h \in 1..n : Row(c, n, q)[h] = w[h]
      <4> SUFFICES ASSUME NEW h \in 1..n
                   PROVE  Row(c, n, q)[h] = w[h]
        OBVIOUS
      <4>1. CASE h = m
        <5>1. w[h] = [Row(b, n, q)[h] EXCEPT !.qty = x]
          BY <4>1 DEF Row
        <5>2. w[h] = [id |-> id, qty |-> x]
          BY <3>2, <4>1, <5>1 DEF Row
        <5> HIDE DEF w
        <5> QED
          BY <1>1, <3>2, <4>1, <5>2 DEF Row
      <4>2. CASE h # m
        <5>1. w[h] = Row(b, n, q)[h]
          BY <4>2 DEF Row
        <5> HIDE DEF w
        <5> QED
          BY <2>7, <3>2, <4>2, <5>1 DEF Row
      <4> QED
        BY <4>1, <4>2
    <3>4. w = [h \in 1..n |-> w[h]] /\ Row(c, n, q) = [h \in 1..n |-> Row(c, n, q)[h]]
      BY DEF Row
    <3>5. Row(c, n, q) = w
      <4> HIDE DEF w
      <4> QED
        BY <3>3, <3>4
    <3> QED
      BY <2>6, <2>9, <3>1, <3>5
  <2> QED
    BY <2>8, <2>9
<1>4. /\ RestingIn(c) = [h \in Sides \X Prices |-> RestingIn(c)[h]]
      /\ R = [h \in Sides \X Prices |-> R[h]]
  BY DEF RestingIn
<1>5. \A h \in Sides \X Prices : RestingIn(c)[h] = IF h = k
                                      THEN [R[k] EXCEPT ![m].qty = x] ELSE R[h]
  BY <1>3
<1> HIDE DEF R, x
<1>6. RestingIn(c) = [R EXCEPT ![k] = [R[k] EXCEPT ![m].qty = x]]
  BY <1>4, <1>5, QueuesAre
<1> QED
  BY <1>6 DEF R, x

\* Quantity q leaves order id, which keeps its place unless that was all it had.
Took(b, c, id, q) ==
    LET i == b.order_map[id]
        R == RestingIn(b)
    IN  IF q = b.orders[i].remaining_qty THEN RestingIn(c) = Promise!Without(R, id)
        ELSE \E k \in Promise!Queues : \E m \in 1..Len(R[k]) :
                /\ Slot(b, k, m) = i
                /\ RestingIn(c) = [R EXCEPT ![k][m].qty = b.orders[i].remaining_qty - q]

\* cancel_order and execute_order.
LEMMA CancelStep ==
    ASSUME NEW b, Whole(b), Asked(b), NEW id \in OrderIds, NEW q \in Qtys
    PROVE  LET c == CancelOrder(b, id, q)
           IN  IF id \in DOMAIN b.order_map /\ q <= b.orders[b.order_map[id]].remaining_qty
               THEN /\ c.fault = "None" /\ Asked(c) /\ Took(b, c, id, q)
                    /\ Promise!Reduce(RestingIn(b), RestingIn(c), id)
               ELSE c.fault = "Request"
<1> DEFINE i == b.order_map[id]
           o == b.orders[i]
           l == FindByPrice(b, o.side, o.price)
           less == [b EXCEPT !.orders[i].remaining_qty = @ - q]
           r == DropQty(less, l, q)
           c == CancelOrder(b, id, q)
<1>1. Fail(b, "Request").fault = "Request"
  BY DEF Fail, Whole, Book
<1>2. CASE id \in DOMAIN b.order_map /\ q <= o.remaining_qty
  <2>1. /\ i \in Live(b) /\ i \in OrderSlots /\ o \in Order /\ b \in Book
        /\ o.side \in Sides /\ o.price \in Nat /\ o.remaining_qty \in Nat /\ q \in Nat
        /\ l # kInvalid /\ l \in LevelSlots /\ l \in b.sides[o.side].tree
        /\ b.levels[l].price = o.price
    BY <1>2, LookupHoused, QtyNat DEF Whole
  <2>2. o.order_id = id
    BY <1>2 DEF Whole, OrdersAccountedIn
  <2>3. [o EXCEPT !.remaining_qty = @ - q] \in Order
    <3>1. o \in Order
      BY <2>1
    <3> QED
      BY <1>2, <3>1, RequestAssumption DEF Order, Qtys
  <2>4. /\ less \in Book /\ SameLevels(b, less) /\ SameContents(b, less)
        /\ less.orders[i].remaining_qty = o.remaining_qty - q /\ less.fault = b.fault
    BY <2>1, <2>3 DEF Book, SameLevels, SameContents, Order
  <2>5. TakesQty(b, r, i, l, q)
    <3> HIDE DEF l
    <3> QED
      BY <2>1, DropTakes
  <2> HIDE DEF less, l
  <2>6. /\ r \in Book /\ SameLevels(less, r) /\ SameContents(less, r)
        /\ r.orders = less.orders /\ r.fault = less.fault
    BY <2>1, <2>4, DropType, DropSameLevels, DropSameContents DEF DropQty, Book
  <2> HIDE DEF r
  <2>7. SameLevels(b, r) /\ SameContents(b, r)
    BY <2>4, <2>6 DEF SameLevels, SameContents
  <2>8. CASE q = o.remaining_qty
    <3> DEFINE d == DeleteOrderInternal(r, i, o.side, l)
    <3>1. c = d
      <4>1. ~(q > o.remaining_qty)
        BY <2>1, <2>8
      <4> QED
        BY <1>2, <2>1, <2>8, <4>1 DEF CancelOrder, less, r, l
    <3> HIDE DEF c, d
    <3>2. /\ d.fault = "None" /\ Asked(d)
          /\ RestingIn(d) = Promise!Without(RestingIn(b), o.order_id)
      BY <2>1, <2>5, <2>6, <2>7, <2>8, TakenDeparts DEF d
    <3>3. Took(b, d, id, q)
      BY <2>2, <2>8, <3>2 DEF Took
    <3> QED
      BY <1>2, <2>2, <3>1, <3>2, <3>3 DEF c, Promise!Reduce
  <2>9. CASE q # o.remaining_qty
    <3>1. c = r
      <4>1. ~(q > o.remaining_qty)
        BY <1>2, <2>1
      <4> QED
        BY <1>2, <2>1, <2>9, <4>1 DEF CancelOrder, less, r, l
    <3> HIDE DEF c
    <3>2. /\ r.fault = "None" /\ Asked(r) /\ LevelsSound(r)
          /\ r.orders[i].remaining_qty = o.remaining_qty - q
      BY <2>4, <2>6, <2>7, SameLevelsSound DEF Whole, SameContents, Asked, Live
    <3>3. PICK k \in Promise!Queues : \E m \in 1..Len(RestingIn(b)[k]) : Slot(b, k, m) = i
      BY <2>1, LivePlaced
    <3>4. PICK m \in 1..Len(RestingIn(b)[k]) : Slot(b, k, m) = i
      BY <3>3
    <3>5. Shown(b, k, m) /\ m \in DOMAIN RestingIn(b)[k]
      BY QueuesPlaced DEF Placed
    <3>6. RestingIn(b)[k][m] = [id |-> o.order_id, qty |-> o.remaining_qty]
      BY <3>4, <3>5 DEF Shown
    <3>7. RestingIn(b)[k][m].id = id /\ RestingIn(b)[k][m].qty = o.remaining_qty
      BY <2>2, <3>6
    <3>8. RestingIn(r) = [RestingIn(b) EXCEPT ![k][m].qty = o.remaining_qty - q]
      <4>1. r.orders[i].remaining_qty = o.remaining_qty - q
        BY <3>2
      <4>2. RestingIn(r) = [RestingIn(b) EXCEPT ![k][m].qty = r.orders[i].remaining_qty]
        BY <2>1, <2>5, <2>6, <2>7, <3>2, <3>4, ShownReduced
      <4> HIDE DEF o
      <4> QED
        BY <4>1, <4>2
    <3>9. o.remaining_qty - q \in 1..o.remaining_qty
      BY <1>2, <2>1, <2>9
    <3>10. Promise!Reduce(RestingIn(b), RestingIn(r), id)
      <4> DEFINE R == RestingIn(b)
                 n == o.remaining_qty - q
      <4> HIDE DEF R, n
      <4>1. m \in DOMAIN R[k] /\ R[k][m].id = id /\ n \in 1..R[k][m].qty
        BY <3>5, <3>7, <3>9 DEF R, n
      <4>2. RestingIn(r) = [R EXCEPT ![k][m].qty = n]
        BY <3>8 DEF R, n
      <4>3. Promise!Reduce(R, RestingIn(r), id)
        BY <4>1, <4>2 DEF Promise!Reduce
      <4> QED
        BY <4>3 DEF R
    <3>11. Took(b, r, id, q)
      BY <2>9, <3>4, <3>8 DEF Took
    <3> QED
      BY <1>2, <3>1, <3>2, <3>10, <3>11 DEF c
  <2> QED
    BY <2>8, <2>9
<1>3. CASE id \in DOMAIN b.order_map /\ q > o.remaining_qty
  <2>1. ~(q <= o.remaining_qty)
    BY <1>3, LookupType, QtyNat DEF Order, Whole
  <2>2. c = Fail(b, "Request")
    BY <1>3 DEF CancelOrder
  <2> HIDE DEF c
  <2> QED
    BY <1>1, <2>1, <2>2 DEF c
<1>4. CASE id \notin DOMAIN b.order_map
  BY <1>1, <1>4 DEF CancelOrder
<1>5. id \in DOMAIN b.order_map => q <= o.remaining_qty \/ q > o.remaining_qty
  BY LookupType DEF Order, Qtys, Whole
<1> QED
  BY <1>2, <1>3, <1>4, <1>5

\* A queue without room before an order left: with room left for nobody after it has
\* left, there was none before.
LEMMA RoomAfterLeaving ==
    ASSUME NEW b, Whole(b), Asked(b), NEW id \in DOMAIN b.order_map,
           NEW k \in Promise!Queues,
           ~Promise!Room(Promise!Without(RestingIn(b), id), k)
    PROVE  ~Promise!Room(RestingIn(b), k)
<1> DEFINE R == RestingIn(b)
           W == Promise!Without(R, id)
           D == {x \in Promise!Queues \X (1..OrderLimit) : x[2] <= Len(W[x[1]])}
           open == Promise!OpenLevels(R)
           left == Promise!OpenLevels(W)
<1>1. ASSUME NEW h \in Promise!Queues
      PROVE  /\ Len(R[h]) \in Nat /\ Len(W[h]) \in Nat /\ Len(W[h]) <= Len(R[h])
             /\ W[h] # << >> => R[h] # << >>
  <2>1. Placed(b, h) /\ R[h] \in Seq(Promise!Entry)
    <3>1. R \in [Promise!Queues -> Seq(Promise!Entry)]
      BY RestingType
    <3> HIDE DEF R
    <3> QED
      BY <3>1, QueuesPlaced DEF R
  <2>2. Len(R[h]) \in Nat /\ DOMAIN R[h] = 1..Len(R[h]) /\ (R[h] = << >> <=> Len(R[h]) = 0)
    BY <2>1 DEF Placed
  <2>3. W[h] = IF id \in Promise!Ids(R[h]) THEN Promise!Leave(R[h], Promise!Place(R[h], id))
               ELSE R[h]
    BY DEF Promise!Without
  <2> HIDE DEF R, W
  <2>4. CASE id \notin Promise!Ids(R[h])
    BY <2>2, <2>3, <2>4
  <2>5. CASE id \in Promise!Ids(R[h])
    <3> DEFINE n == Len(R[h])
               p == Promise!Place(R[h], id)
               S == {R[h][m] : m \in 1..n}
    <3>1. n \in Nat \ {0}
      BY <2>2, <2>5 DEF Promise!Ids
    <3>2. W[h] = [m \in 1..(n - 1) |-> IF m < p THEN R[h][m] ELSE R[h][m + 1]]
      BY <2>3, <2>5 DEF Promise!Leave
    <3>3. W[h] \in [1..(n - 1) -> S]
      <4> HIDE DEF p
      <4>1. \A m \in 1..(n - 1) : m \in 1..n /\ m + 1 \in 1..n
        BY <3>1
      <4> HIDE DEF n
      <4> QED
        BY <3>2, <4>1
    <3> HIDE DEF n, S
    <3>4. Len(W[h]) = n - 1
      <4>1. W[h] \in Seq(S) /\ n - 1 \in Nat
        BY <3>1, <3>3, SeqDef
      <4> QED
        BY <3>3, <4>1, LenProperties
    <3>5. R[h] # << >> /\ n = Len(R[h])
      BY <2>2, <3>1 DEF n
    <3> QED
      BY <2>2, <3>1, <3>4, <3>5
  <2> QED
    BY <2>4, <2>5
<1>2. R[k] = << >> => W[k] = << >>
  BY <1>1
<1>3. /\ IsFiniteSet(Places(b)) /\ Cardinality(Places(b)) \in Nat /\ D \subseteq Places(b)
      /\ OrderLimit \in Int
  <2>1. D \subseteq Places(b)
    <3> SUFFICES ASSUME NEW x \in D
                 PROVE  x \in Places(b)
      OBVIOUS
    <3>1. x \in Promise!Queues \X (1..OrderLimit) /\ x[2] <= Len(W[x[1]])
      OBVIOUS
    <3>2. OrderLimit \in Int /\ x[1] \in Promise!Queues /\ x[2] \in Int
      BY <3>1, FullAtLimit DEF Whole
    <3>3. x[2] <= Len(R[x[1]])
      <4>1. Len(R[x[1]]) \in Nat /\ Len(W[x[1]]) \in Nat /\ Len(W[x[1]]) <= Len(R[x[1]])
        BY <1>1, <3>2
      <4> HIDE DEF R, W
      <4> QED
        BY <3>1, <3>2, <4>1
    <3> QED
      BY <3>1, <3>3 DEF Places
  <2> QED
    BY <2>1, DepthCounted, FullAtLimit DEF Whole
<1>4. Cardinality(D) \in Nat /\ Cardinality(D) <= Cardinality(Places(b))
  BY <1>3, FS_Subset, FS_CardinalityType
<1>5. IsFiniteSet(open) /\ Cardinality(open) \in Nat /\ Cardinality(open) <= MaxLevels
  BY OpenCounted
<1>6. left \subseteq open
  BY <1>1 DEF Promise!OpenLevels
<1>7. /\ Cardinality(left) \in Nat /\ Cardinality(left) <= Cardinality(open)
      /\ Cardinality(left) = Cardinality(open) => left = open
  BY <1>5, <1>6, FS_Subset, FS_CardinalityType
<1>8. Promise!Depth(W) = Cardinality(D) /\ Promise!Depth(R) = Cardinality(Places(b))
  BY SameCount DEF Promise!Depth, Places
<1> HIDE DEF D
<1>9. Promise!Room(W, k) <=> /\ Cardinality(D) < OrderLimit
                             /\ W[k] # << >> \/ Cardinality(left) < MaxLevels
  <2>1. Promise!Cardinality(left) = Cardinality(left)
    BY SameCount
  <2> HIDE DEF W
  <2>2. Promise!Depth(W) = Cardinality(D) /\ Promise!Cardinality(left) = Cardinality(left)
    BY <1>8, <2>1 DEF W
  <2> QED
    BY <2>2 DEF Promise!Room
<1>10. Promise!Room(R, k) <=> /\ Cardinality(Places(b)) < OrderLimit
                              /\ R[k] # << >> \/ Cardinality(open) < MaxLevels
  <2>1. Promise!Cardinality(open) = Cardinality(open)
    BY SameCount
  <2> HIDE DEF R
  <2>2. /\ Promise!Depth(R) = Cardinality(Places(b))
        /\ Promise!Cardinality(open) = Cardinality(open)
    BY <1>8, <2>1 DEF R
  <2> QED
    BY <2>2 DEF Promise!Room
<1>11. Cardinality(left) < MaxLevels \/ (left = open /\ Cardinality(open) = MaxLevels)
  BY <1>5, <1>7, CapacityAssumption
<1>12. left = open => (W[k] # << >> <=> R[k] # << >>)
  BY DEF left, open, Promise!OpenLevels
<1> HIDE DEF R, W, open, left
<1>13. ~(Cardinality(D) < OrderLimit /\ (W[k] # << >> \/ Cardinality(left) < MaxLevels))
  BY <1>9 DEF W, R
<1>14. ~(Cardinality(Places(b)) < OrderLimit /\ (R[k] # << >> \/ Cardinality(open) < MaxLevels))
  BY <1>3, <1>4, <1>5, <1>7, <1>11, <1>12, <1>13, CapacityAssumption
<1>15. ~Promise!Room(R, k)
  BY <1>10, <1>14
<1> QED
  BY <1>15 DEF R

\* The second half of replace_order and modify_order.
LEMMA ThenAddStep ==
    ASSUME NEW b, Whole(b), Asked(b), NEW id \in OrderIds, NEW d, d = DeleteOrder(b, id),
           NEW new \in OrderIds, NEW s \in Sides, NEW p \in Prices, NEW q \in Qtys
    PROVE  LET c == Then(d, AddOrder(d, new, s, p, q))
           IN  IF c.fault = "None"
               THEN /\ id \in DOMAIN b.order_map /\ Asked(c)
                    /\ Promise!Replace(RestingIn(b), RestingIn(c), id)
               ELSE Refused(b, c.fault)
<1> DEFINE a == AddOrder(d, new, s, p, q)
           c == Then(d, a)
<1>1. CASE d.fault # "None"
  BY <1>1, DeleteStep DEF Then, Refused
<1>2. CASE d.fault = "None"
  <2>1. /\ id \in DOMAIN b.order_map /\ Asked(d)
        /\ RestingIn(d) = Promise!Without(RestingIn(b), id)
    BY <1>2, DeleteStep
  <2>2. Whole(d)
    BY <1>2, DeleteType, DeleteAccounted, DeleteSound, DeleteSettled, DeleteHeld
       DEF Whole, Settled, Held
  <2>3. Added(d, a)
    BY <2>1, <2>2, AddStep DEF Entered
  <2>4. c = a
    BY <1>2 DEF Then
  <2> HIDE DEF a, c
  <2>5. CASE a.fault = "None"
    BY <2>1, <2>3, <2>4, <2>5 DEF Added, Promise!Replace, c, a
  <2>6. CASE a.fault # "None"
    <3>1. Refused(d, a.fault)
      BY <2>3, <2>6 DEF Added
    <3>2. Refused(b, a.fault)
      BY <2>1, <3>1, RoomAfterLeaving DEF Refused
    <3> QED
      BY <2>4, <2>6, <3>2 DEF c, a
  <2> QED
    BY <2>5, <2>6
<1> QED
  BY <1>1, <1>2

\* What any request makes of a book, seen as the abstract book: one of its steps, no
\* step at all, or the end of the process for a reason the abstract book accepts.
Served(b, c) ==
    /\ Asked(c)
    /\ \/ RestingIn(c) = RestingIn(b)
       \/ Promise!Enter(RestingIn(b), RestingIn(c))
       \/ \E id \in OrderIds :
            /\ Promise!Rests(RestingIn(b), id)
            /\ \/ Promise!Reduce(RestingIn(b), RestingIn(c), id)
               \/ Promise!Replace(RestingIn(b), RestingIn(c), id)
Answered(b, c) == IF c.fault = "None" THEN Served(b, c) ELSE Refused(b, c.fault)

\* replace_order.
LEMMA ReplaceStep ==
    ASSUME NEW b, Whole(b), Asked(b), NEW id \in OrderIds, NEW new \in OrderIds,
           NEW s \in Sides, NEW p \in Prices, NEW q \in Qtys
    PROVE  Answered(b, ReplaceOrder(b, id, new, s, p, q))
BY ThenAddStep, RestsMapped DEF ReplaceOrder, Answered, Served

\* modify_order.
LEMMA ModifyStep ==
    ASSUME NEW b, Whole(b), Asked(b), NEW id \in OrderIds, NEW q \in Qtys
    PROVE  Answered(b, ModifyOrder(b, id, q))
<1> DEFINE i == b.order_map[id]
           o == b.orders[i]
           d == DeleteOrder(b, id)
<1>1. CASE id \in DOMAIN b.order_map
  <2>1. o.side \in Sides /\ o.price \in Prices /\ o.remaining_qty \in Qtys
    <3>1. o \in Order /\ i \in Live(b)
      BY <1>1, LookupType, LookupLive DEF Whole
    <3> QED
      BY <3>1 DEF Asked, Order
  <2>2. q < o.remaining_qty => o.remaining_qty - q \in Qtys
    BY <2>1, RequestAssumption DEF Qtys
  <2>3. CASE q < o.remaining_qty
    <3>1. ModifyOrder(b, id, q) = CancelOrder(b, id, o.remaining_qty - q)
      BY <1>1, <2>3 DEF ModifyOrder
    <3> QED
      BY <2>2, <2>3, <3>1, CancelStep, RestsMapped DEF Answered, Served, Refused
  <2>4. CASE ~(q < o.remaining_qty) /\ q > o.remaining_qty
    <3>1. ModifyOrder(b, id, q) = Then(d, AddOrder(d, id, o.side, o.price, q))
      BY <1>1, <2>4 DEF ModifyOrder
    <3> QED
      BY <2>1, <3>1, ThenAddStep, RestsMapped DEF Answered, Served
  <2>5. CASE ~(q < o.remaining_qty) /\ ~(q > o.remaining_qty)
    <3>1. ModifyOrder(b, id, q) = b
      BY <1>1, <2>5 DEF ModifyOrder
    <3> QED
      BY <3>1 DEF Answered, Served, Whole
  <2> QED
    BY <2>3, <2>4, <2>5
<1>2. CASE id \notin DOMAIN b.order_map
  BY <1>2 DEF ModifyOrder, Answered, Refused, Fail, Whole, Book
<1> QED
  BY <1>1, <1>2

\* Every request of the specification.
LEMMA RequestStep ==
    ASSUME Whole(book), Asked(book), Next
    PROVE  Answered(book, book')
<1>1. CASE Add
  BY <1>1, AddStep DEF Add, Entered, Added, Answered, Served
<1>2. CASE Cancel
  BY <1>2, CancelStep, RestsMapped DEF Cancel, Answered, Served, Refused
<1>3. CASE Execute
  BY <1>3, CancelStep, RestsMapped DEF Execute, ExecuteOrder, Answered, Served, Refused
<1>4. CASE Delete
  BY <1>4, DeleteStep, RestsMapped DEF Delete, Answered, Served, Refused, Promise!Reduce
<1>5. CASE Replace
  BY <1>5, ReplaceStep DEF Replace
<1>6. CASE Modify
  BY <1>6, ModifyStep DEF Modify
<1> QED
  BY <1>1, <1>2, <1>3, <1>4, <1>5, <1>6 DEF Next
-----------------------------------------------------------------------------
(* Which requests are served.                                              *)

\* The order at a place of a queue is the one the map has under its id.
LEMMA EntryMapped ==
    ASSUME NEW b, Whole(b), NEW k \in Promise!Queues, NEW m \in DOMAIN RestingIn(b)[k]
    PROVE  LET e == RestingIn(b)[k][m]
               o == b.orders[b.order_map[e.id]]
           IN  /\ e.id \in DOMAIN b.order_map /\ e.qty = o.remaining_qty
               /\ k = <<o.side, o.price>>
<1> DEFINE e == RestingIn(b)[k][m]
           i == b.order_map[e.id]
<1>1. Placed(b, k)
  BY QueuesPlaced
<1>2. Shown(b, k, m)
  BY <1>1 DEF Placed
<1>3. /\ e.id \in DOMAIN b.order_map /\ i \in OrdersAt(b, k[1], k[2])
      /\ e = [id |-> b.orders[i].order_id, qty |-> b.orders[i].remaining_qty]
  BY <1>2 DEF Shown, Slot
<1>4. k = <<k[1], k[2]>>
  BY QueuesAre
<1> HIDE DEF e, i
<1>5. e.qty = b.orders[i].remaining_qty
  BY <1>3
<1> QED
  BY <1>3, <1>4, <1>5 DEF OrdersAt, e, i

\* An order of the map has a place, and its entry there says what is left of it.
LEMMA MappedEntry ==
    ASSUME NEW b, Whole(b), Asked(b), NEW id \in DOMAIN b.order_map
    PROVE  LET o == b.orders[b.order_map[id]]
           IN  /\ <<o.side, o.price>> \in Promise!Queues
               /\ \E m \in DOMAIN RestingIn(b)[<<o.side, o.price>>] :
                    /\ RestingIn(b)[<<o.side, o.price>>][m].id = id
                    /\ RestingIn(b)[<<o.side, o.price>>][m].qty = o.remaining_qty
<1>1. PICK k \in Promise!Queues : id \in Promise!Ids(RestingIn(b)[k])
  BY RestsMapped DEF Promise!Rests
<1>2. PICK m \in DOMAIN RestingIn(b)[k] : RestingIn(b)[k][m].id = id
  BY <1>1 DEF Promise!Ids
<1> DEFINE o == b.orders[b.order_map[id]]
<1>3. RestingIn(b)[k][m].qty = o.remaining_qty /\ k = <<o.side, o.price>>
  BY <1>2, EntryMapped
<1> HIDE DEF o
<1>4. /\ <<o.side, o.price>> \in Promise!Queues
      /\ \E h \in DOMAIN RestingIn(b)[<<o.side, o.price>>] :
            /\ RestingIn(b)[<<o.side, o.price>>][h].id = id
            /\ RestingIn(b)[<<o.side, o.price>>][h].qty = o.remaining_qty
  BY <1>2, <1>3
<1> QED
  BY <1>4 DEF o

\* Steps 2-4 of add_order are refused for want of room only.
LEMMA EnterOpens ==
    ASSUME NEW d \in Book, d.fault = "None", OrdersAccountedIn(d), NEW l \in LevelSlots,
           NEW id \in OrderIds, NEW s \in Sides, NEW p \in Nat, NEW q \in Qtys
    PROVE  EnterOrder(d, l, id, s, p, q).fault = "None"
                <=> d.order_free # << >> /\ ~MapRefuses(d)
<1>1. CASE d.order_free # << >> /\ ~MapRefuses(d)
  BY <1>1, EnteredContents DEF EnterOrder
<1>2. CASE d.order_free = << >> \/ MapRefuses(d)
  <2>1. EnterOrder(d, l, id, s, p, q) \in {Fail(d, "OrderPool"), Fail(d, "MapFull")}
    BY <1>2 DEF EnterOrder
  <2> QED
    BY <1>2, <2>1 DEF Fail, Book
<1> QED
  BY <1>1, <1>2

\* add_order.
LEMMA AddServes ==
    ASSUME NEW b, Whole(b), Asked(b), NEW id \in OrderIds, NEW s \in Sides,
           NEW p \in Prices, NEW q \in Qtys
    PROVE  AddOrder(b, id, s, p, q).fault = "None"
                <=> Promise!CanEnter(RestingIn(b), id, <<s, p>>, q)
<1> DEFINE l == FindByPrice(b, s, p)
           new == Head(b.level_free)
           c == CreateLevel(b, s, p)
           d == InsertLevel(c, s, new)
           k == <<s, p>>
           free == b.order_free # << >> /\ ~MapRefuses(b)
           legal == q # 0 /\ p # 0 /\ id \notin DOMAIN b.order_map
<1>1. p \in Nat /\ q \in Nat /\ k \in Promise!Queues /\ b \in Book /\ b.fault = "None"
  BY RequestAssumption, QueuesAre DEF Whole, Qtys
<1>2. \A why : Fail(b, why).fault = why
  BY <1>1 DEF Fail, Book
<1>3. Promise!CanEnter(RestingIn(b), id, k, q) <=>
            /\ legal /\ p < MaxTicks /\ free
            /\ (RestingIn(b)[k] # << >> \/ b.level_free # << >>)
  <2>1. k[2] = p
    OBVIOUS
  <2> HIDE DEF k
  <2>2. Promise!Room(RestingIn(b), k)
            <=> free /\ (RestingIn(b)[k] # << >> \/ b.level_free # << >>)
    BY RoomIs
  <2>3. Promise!Rests(RestingIn(b), id) <=> id \in DOMAIN b.order_map
    BY RestsMapped
  <2>4. (q > 0 <=> q # 0) /\ (p > 0 <=> p # 0)
    BY <1>1
  <2> HIDE DEF free
  <2> QED
    BY <2>1, <2>2, <2>3, <2>4 DEF Promise!CanEnter
<1>4. CASE ~legal
  BY <1>2, <1>3, <1>4 DEF AddOrder
<1>5. CASE legal /\ l # kInvalid
  <2>1. l \in b.sides[s].tree /\ b.levels[l].price = p
    BY <1>1, <1>5, FindSound DEF Whole
  <2>2. l \in LevelSlots /\ p < MaxTicks
    <3>1. l \in LevelSlots /\ p \in 0..(MaxTicks - 1)
      BY <1>1, <2>1, TreeLevels DEF Whole
    <3> QED
      BY <3>1, CapacityAssumption
  <2>3. RestingIn(b)[k] # << >>
    <3>1. l # kInvalid
      BY <1>5
    <3>2. OrdersAt(b, s, p) # {}
      BY <2>1, <3>1 DEF Whole, SettledBut, InhabitedBut
    <3>3. \E m \in 1..Len(RestingIn(b)[k]) : TRUE
      BY <1>1, <3>2, QueuesPlaced DEF Placed
    <3> QED
      BY <1>1, <3>3, QueuesPlaced DEF Placed
  <2>4. AddOrder(b, id, s, p, q) = EnterOrder(b, l, id, s, p, q)
    BY <1>5 DEF AddOrder
  <2>5. EnterOrder(b, l, id, s, p, q).fault = "None" <=> free
    <3> HIDE DEF l
    <3> QED
      BY <1>1, <2>2, EnterOpens DEF Whole
  <2> QED
    BY <1>3, <1>5, <2>2, <2>3, <2>4, <2>5
<1>6. CASE legal /\ l = kInvalid
  <2>1. RestingIn(b)[k] = << >>
    BY <1>1, <1>6 DEF RestingIn, Whole
  <2>2. CASE b.level_free = << >>
    BY <1>2, <1>3, <1>6, <2>1, <2>2 DEF AddOrder
  <2>3. CASE b.level_free # << >> /\ ~(p < MaxTicks)
    <3>1. p >= MaxTicks
      BY <1>1, <2>3, CapacityAssumption
    <3> QED
      BY <1>2, <1>3, <1>6, <2>3, <3>1 DEF AddOrder
  <2>4. CASE b.level_free # << >> /\ p < MaxTicks
    <3>1. c \in Book /\ new \in LevelSlots /\ SameOrders(b, c) /\ c.fault = "None"
      <4>1. c.fault = "None"
        BY <1>1 DEF CreateLevel, Book
      <4> QED
        BY <1>1, <2>4, <4>1, CreateType, CreateSame
    <3>2. c.levels[new].price = p
      BY <1>1, <2>4, CreateType
    <3> HIDE DEF c, new
    <3>3. d \in Book /\ SameOrders(c, d) /\ d.fault = "None"
      <4>1. d.fault = "None"
        BY <3>1 DEF InsertLevel, Book
      <4> QED
        BY <1>1, <2>4, <3>1, <3>2, <4>1, InsertType, InsertSame
    <3> HIDE DEF d
    <3>4. OrdersAccountedIn(d) /\ d.order_free = b.order_free /\ (MapRefuses(d) <=> MapRefuses(b))
      BY <1>1, <3>1, <3>3, SameOrdersAccounted DEF SameOrders, MapRefuses, Whole
    <3>5. EnterOrder(d, new, id, s, p, q).fault = "None" <=> free
      BY <1>1, <3>1, <3>3, <3>4, EnterOpens
    <3>6. AddOrder(b, id, s, p, q) = EnterOrder(d, new, id, s, p, q)
      <4>1. ~(p >= MaxTicks)
        BY <1>1, <2>4, CapacityAssumption
      <4> QED
        BY <1>6, <2>4, <4>1 DEF AddOrder, d, c, new
    <3> QED
      BY <1>3, <1>6, <2>4, <3>5, <3>6
  <2> QED
    BY <2>2, <2>3, <2>4
<1> QED
  BY <1>4, <1>5, <1>6

\* cancel_order and execute_order.
LEMMA CancelServes ==
    ASSUME NEW b, Whole(b), Asked(b), NEW id \in OrderIds, NEW q \in Qtys
    PROVE  CancelOrder(b, id, q).fault = "None" <=> Promise!CanReduce(RestingIn(b), id, q)
<1> DEFINE o == b.orders[b.order_map[id]]
<1>1. CancelOrder(b, id, q).fault = "None" <=>
            id \in DOMAIN b.order_map /\ q <= o.remaining_qty
  BY CancelStep
<1>2. ASSUME id \in DOMAIN b.order_map /\ q <= o.remaining_qty
      PROVE  Promise!CanReduce(RestingIn(b), id, q)
  BY <1>2, MappedEntry DEF Promise!CanReduce
<1>3. ASSUME Promise!CanReduce(RestingIn(b), id, q)
      PROVE  id \in DOMAIN b.order_map /\ q <= o.remaining_qty
  <2>1. PICK k \in Promise!Queues : \E m \in DOMAIN RestingIn(b)[k] :
            RestingIn(b)[k][m].id = id /\ q <= RestingIn(b)[k][m].qty
    BY <1>3 DEF Promise!CanReduce
  <2>2. PICK m \in DOMAIN RestingIn(b)[k] :
            RestingIn(b)[k][m].id = id /\ q <= RestingIn(b)[k][m].qty
    BY <2>1
  <2>3. id \in DOMAIN b.order_map /\ RestingIn(b)[k][m].qty = o.remaining_qty
    BY <2>2, EntryMapped
  <2> QED
    BY <2>2, <2>3
<1> QED
  BY <1>1, <1>2, <1>3

\* A deletion and an addition that follows it.
LEMMA ThenAddServes ==
    ASSUME NEW b, Whole(b), Asked(b), NEW id \in OrderIds, NEW new \in OrderIds,
           NEW s \in Sides, NEW p \in Prices, NEW q \in Qtys
    PROVE  LET d == DeleteOrder(b, id)
           IN  Then(d, AddOrder(d, new, s, p, q)).fault = "None"
                    <=> Promise!CanReplace(RestingIn(b), id, new, <<s, p>>, q)
<1> DEFINE d == DeleteOrder(b, id)
<1>1. CASE id \notin DOMAIN b.order_map
  <2>1. d.fault = "Request"
    BY <1>1, DeleteStep
  <2> QED
    BY <1>1, <2>1, RestsMapped DEF Then, Promise!CanReplace
<1>2. CASE id \in DOMAIN b.order_map
  <2>1. d.fault = "None" /\ Asked(d) /\ RestingIn(d) = Promise!Without(RestingIn(b), id)
    BY <1>2, DeleteStep
  <2>2. Whole(d)
    BY <2>1, DeleteType, DeleteAccounted, DeleteSound, DeleteSettled, DeleteHeld
       DEF Whole, Settled, Held
  <2> HIDE DEF d
  <2>3. AddOrder(d, new, s, p, q).fault = "None"
            <=> Promise!CanEnter(RestingIn(d), new, <<s, p>>, q)
    BY <2>1, <2>2, AddServes
  <2> QED
    BY <1>2, <2>1, <2>3, RestsMapped DEF Then, Promise!CanReplace, d
<1> QED
  BY <1>1, <1>2

\* modify_order.
LEMMA ModifyServes ==
    ASSUME NEW b, Whole(b), Asked(b), NEW id \in OrderIds, NEW q \in Qtys
    PROVE  ModifyOrder(b, id, q).fault = "None" <=> Promise!CanModify(RestingIn(b), id, q)
<1> DEFINE o == b.orders[b.order_map[id]]
           d == DeleteOrder(b, id)
           k == <<o.side, o.price>>
           enters == Promise!CanEnter(Promise!Without(RestingIn(b), id), id, k, q)
<1>1. CASE id \notin DOMAIN b.order_map
  <2>1. ModifyOrder(b, id, q).fault = "Request"
    BY <1>1 DEF ModifyOrder, Fail, Whole, Book
  <2>2. ~Promise!CanModify(RestingIn(b), id, q)
    <3> SUFFICES ASSUME NEW h \in Promise!Queues, NEW m \in DOMAIN RestingIn(b)[h],
                        RestingIn(b)[h][m].id = id
                 PROVE  FALSE
      BY DEF Promise!CanModify
    <3> QED
      BY <1>1, EntryMapped
  <2> QED
    BY <2>1, <2>2
<1>2. CASE id \in DOMAIN b.order_map
  <2>1. /\ o.side \in Sides /\ o.price \in Prices /\ o.remaining_qty \in Qtys
        /\ o.remaining_qty \in Nat /\ q \in Nat
    <3>1. o \in Order /\ b.order_map[id] \in Live(b)
      BY <1>2, LookupType, LookupLive DEF Whole
    <3> QED
      BY <3>1, QtyNat DEF Asked, Order
  <2>2. Promise!CanModify(RestingIn(b), id, q) <=> (q > o.remaining_qty => enters)
    <3>1. ASSUME q > o.remaining_qty => enters
          PROVE  Promise!CanModify(RestingIn(b), id, q)
      BY <1>2, <3>1, MappedEntry DEF Promise!CanModify
    <3>2. ASSUME Promise!CanModify(RestingIn(b), id, q)
          PROVE  q > o.remaining_qty => enters
      <4>1. PICK h \in Promise!Queues : \E m \in DOMAIN RestingIn(b)[h] :
                /\ RestingIn(b)[h][m].id = id
                /\ q > RestingIn(b)[h][m].qty =>
                    Promise!CanEnter(Promise!Without(RestingIn(b), id), id, h, q)
        BY <3>2 DEF Promise!CanModify
      <4>2. PICK m \in DOMAIN RestingIn(b)[h] :
                /\ RestingIn(b)[h][m].id = id
                /\ q > RestingIn(b)[h][m].qty =>
                    Promise!CanEnter(Promise!Without(RestingIn(b), id), id, h, q)
        BY <4>1
      <4>3. RestingIn(b)[h][m].qty = o.remaining_qty /\ h = k
        BY <4>2, EntryMapped
      <4> QED
        BY <4>2, <4>3
    <3> QED
      BY <3>1, <3>2
  <2>3. CASE q < o.remaining_qty
    <3>1. ModifyOrder(b, id, q) = CancelOrder(b, id, o.remaining_qty - q)
      BY <1>2, <2>3 DEF ModifyOrder
    <3>2. o.remaining_qty - q \in Qtys /\ o.remaining_qty - q <= o.remaining_qty
      BY <2>1, <2>3, RequestAssumption DEF Qtys
    <3>3. CancelOrder(b, id, o.remaining_qty - q).fault = "None"
      BY <1>2, <3>2, CancelStep
    <3> QED
      BY <2>1, <2>2, <2>3, <3>1, <3>3
  <2>4. CASE q > o.remaining_qty
    <3>1. ModifyOrder(b, id, q) = Then(d, AddOrder(d, id, o.side, o.price, q))
      BY <1>2, <2>1, <2>4 DEF ModifyOrder
    <3>2. ModifyOrder(b, id, q).fault = "None"
                <=> Promise!CanReplace(RestingIn(b), id, id, k, q)
      BY <2>1, <3>1, ThenAddServes
    <3>3. Promise!CanReplace(RestingIn(b), id, id, k, q) <=> enters
      BY <1>2, RestsMapped DEF Promise!CanReplace
    <3> QED
      BY <2>2, <2>4, <3>2, <3>3
  <2>5. CASE ~(q < o.remaining_qty) /\ ~(q > o.remaining_qty)
    <3>1. ModifyOrder(b, id, q) = b
      BY <1>2, <2>5 DEF ModifyOrder
    <3> QED
      BY <2>2, <2>5, <3>1 DEF Whole
  <2> QED
    BY <2>3, <2>4, <2>5
<1> QED
  BY <1>1, <1>2

\* Every request, in any book that the other invariants hold of.
LEMMA WholeServes ==
    ASSUME NEW b, Whole(b), Asked(b)
    PROVE  ServesIn(b)
<1>1. ASSUME NEW id \in OrderIds
      PROVE  DeleteOrder(b, id).fault = "None" <=> Promise!Rests(RestingIn(b), id)
  BY DeleteStep, RestsMapped
<1>2. ASSUME NEW id \in OrderIds, NEW new \in OrderIds, NEW s \in Sides, NEW p \in Prices,
             NEW q \in Qtys
      PROVE  ReplaceOrder(b, id, new, s, p, q).fault = "None"
                <=> Promise!CanReplace(RestingIn(b), id, new, <<s, p>>, q)
  BY ThenAddServes DEF ReplaceOrder
<1> QED
  BY <1>1, <1>2, AddServes, CancelServes, ModifyServes DEF ServesIn
-----------------------------------------------------------------------------
(* The theorems.                                                           *)

\* A new book shows empty queues, and so does a book that has ended with its process.
LEMMA EmptyShown ==
    /\ RestingIn(InitialBook) = Promise!Empty /\ Asked(InitialBook)
    /\ \A b : b.fault # "None" => RestingIn(b) = Promise!Empty
<1>1. \A b : b.fault # "None" => RestingIn(b) = Promise!Empty
  BY QueuesAre DEF RestingIn, Promise!Empty
<1>2. Live(InitialBook) = {} /\ InitialBook.fault = "None"
  BY DEF InitialBook, Live, NoOrder
<1>3. ASSUME NEW s \in Sides, NEW p \in Prices
      PROVE  FindByPrice(InitialBook, s, p) = kInvalid
  <2>1. p \in Nat /\ InitialBook.sides[s].tree = {}
        /\ (p < MaxTicks => InitialBook.sides[s].dense[p] = kInvalid)
    BY <1>3, RequestAssumption, CapacityAssumption DEF InitialBook
  <2> QED
    BY <2>1 DEF FindByPrice, DenseFind, AvlFind
<1>4. RestingIn(InitialBook) = [k \in Sides \X Prices |-> RestingIn(InitialBook)[k]]
  BY DEF RestingIn
<1>5. \A s \in Sides, p \in Prices : RestingIn(InitialBook)[<<s, p>>] = << >>
  BY <1>3 DEF RestingIn
<1>6. RestingIn(InitialBook) = Promise!Empty
  <2>1. \A k \in Sides \X Prices : RestingIn(InitialBook)[k] = << >>
    BY <1>5
  <2> QED
    BY <1>4, <2>1, QueuesAre DEF Promise!Empty
<1> QED
  BY <1>1, <1>2, <1>6 DEF Asked

\* While no assertion has failed the book is open; afterwards its status says why.
LEMMA StatusIs ==
    /\ StatusOf("None") = "Open" /\ StatusOf("Request") = "BadRequest"
    /\ StatusOf("TickRange") = "NoPrice"
    /\ \A fault \in CapacityFaults : StatusOf(fault) = "NoCapacity"
BY DEF StatusOf, CapacityFaults

\* The invariants of the other modules, together.
LEMMA WholeWhileRunning ==
    ASSUME book \in Book, BookSound(book), Held(book), book.fault = "None"
    PROVE  Whole(book)
BY DEF Whole, BookSound, Settled, Held

\* Every live order rests at a price a request has asked for.
THEOREM AlwaysAsked == Spec => [](Running => Asked(book))
<1>1. Init => Asked(book)
  BY EmptyShown DEF Init
<1>2. TypeOK /\ BookSound(book) /\ Held(book) /\ (Running => Asked(book)) /\ [Next]_book
        => (Running => Asked(book))'
  <2> SUFFICES ASSUME book \in Book, BookSound(book), Held(book), Running => Asked(book),
                      [Next]_book, Running'
               PROVE  Asked(book')
    BY DEF TypeOK, Asked
  <2>1. CASE UNCHANGED book
    BY <2>1 DEF Running, Asked
  <2>2. CASE Next
    <3>1. book.fault = "None" /\ Asked(book)
      BY <2>2 DEF Next, Add, Cancel, Execute, Delete, Replace, Modify, Running
    <3>2. Answered(book, book')
      BY <2>2, <3>1, WholeWhileRunning, RequestStep
    <3> QED
      BY <3>2 DEF Answered, Served, Running
  <2> QED
    BY <2>1, <2>2
<1> QED
  BY <1>1, <1>2, TypeCorrect, BookAlwaysSound, ListsAlwaysHeld, PTL DEF Spec

\* A step of the book is a step of the abstract book, or none.
LEMMA StepSimulates ==
    ASSUME TypeOK, TypeOK', BookSound(book), BookSound(book'), Held(book), Held(book'),
           Running => Asked(book), (Running => Asked(book))', [Next]_book
    PROVE  [Promise!Next]_(Promise!vars)
<1> DEFINE r == RestingIn(book)
           t == RestingIn(book')
<1>1. RestingQueues = r /\ RestingQueues' = t
  BY DEF RestingQueues
<1>2. CASE UNCHANGED book
  BY <1>2 DEF Promise!vars, RestingQueues, RestingIn, StatusOf
<1>3. CASE Next
  <2>1. book.fault = "None" /\ Asked(book) /\ StatusOf(book.fault) = "Open"
    BY <1>3, StatusIs DEF Next, Add, Cancel, Execute, Delete, Replace, Modify, Running
  <2>2. Whole(book) /\ Answered(book, book')
    BY <1>3, <2>1, WholeWhileRunning, RequestStep DEF TypeOK
  <2>3. CASE book'.fault = "None"
    <3>1. Whole(book') /\ Asked(book') /\ StatusOf(book'.fault) = "Open"
      BY <2>3, StatusIs DEF Whole, BookSound, Settled, Held, TypeOK, Running
    <3>2. Served(book, book')
      BY <2>2, <2>3 DEF Answered
    <3>3. {r, t} \subseteq [Promise!Queues -> Seq(Promise!Entry)]
      BY <2>1, <2>2, <3>1, RestingType
    <3> HIDE DEF r, t
    <3>4. \/ t = r \/ Promise!Enter(r, t)
          \/ \E id \in OrderIds : Promise!Rests(r, id) /\ (Promise!Reduce(r, t, id)
                                                           \/ Promise!Replace(r, t, id))
      BY <3>2 DEF Served, r, t
    <3>5. t = r \/ Promise!Serve
      BY <1>1, <2>1, <3>1, <3>3, <3>4 DEF Promise!Serve
    <3> QED
      BY <1>1, <2>1, <3>1, <3>5 DEF Promise!Next, Promise!vars
  <2>4. CASE book'.fault # "None"
    <3>1. Refused(book, book'.fault)
      BY <2>2, <2>4 DEF Answered
    <3>2. t = Promise!Empty
      BY <2>4, EmptyShown
    <3> HIDE DEF t
    <3>3. Promise!Refuse
      BY <1>1, <3>1, <3>2, StatusIs DEF Promise!Refuse, Refused
    <3> QED
      BY <2>1, <3>3 DEF Promise!Next
  <2> QED
    BY <2>3, <2>4
<1> QED
  BY <1>2, <1>3

\* The book implements the limit order book it promises: per-price FIFO queues, whatever
\* the requests, the identities and the capacities.
THEOREM RefinesLimitOrderBook == Spec => ImplementsLimitOrderBook
<1>1. Init => Promise!Init
  <2>1. InitialBook.fault = "None"
    BY DEF InitialBook
  <2> QED
    BY <2>1, EmptyShown, StatusIs DEF Init, Promise!Init, RestingQueues
<1>2. /\ TypeOK /\ BookSound(book) /\ Held(book) /\ (Running => Asked(book)) /\ [Next]_book
      /\ (TypeOK /\ BookSound(book) /\ Held(book) /\ (Running => Asked(book)))'
      => [Promise!Next]_(Promise!vars)
  BY StepSimulates
<1> QED
  BY <1>1, <1>2, TypeCorrect, BookAlwaysSound, ListsAlwaysHeld, AlwaysAsked, PTL
     DEF Spec, ImplementsLimitOrderBook, Promise!Spec

\* The book serves exactly the requests its queues allow: by id, quantity, price and
\* room, whatever went before.
THEOREM ServesWhatItMay == Spec => [](Running => ServesIn(book))
<1>1. book \in Book /\ BookSound(book) /\ Held(book) /\ (Running => Asked(book))
        => (Running => ServesIn(book))
  BY WholeWhileRunning, WholeServes DEF Running
<1> QED
  BY <1>1, TypeCorrect, BookAlwaysSound, ListsAlwaysHeld, AlwaysAsked, PTL DEF TypeOK
=============================================================================
