------------------------- MODULE FlatHashMapProofs -------------------------
(* Theorems about FlatHashMap, for every capacity, hash and set of keys.   *)
EXTENDS FlatHashMap, FiniteSetTheorems, TLAPS

(* Distances around the table.                                             *)

\* How many slots a probe goes from slot a to slot b.
Dist(a, b) == IF b >= a THEN b - a ELSE b - a + Capacity

\* Every set of naturals has a least element.
LEMMA LeastNatural ==
    ASSUME NEW S \in SUBSET Nat, S # {}
    PROVE  \E n \in S : \A m \in S : n <= m
<1>1. PICK x \in S : \A y \in S : ~ (<<y, x>> \in OpToRel(<, Nat))
  BY NatLessThanWellFounded, WFMin
<1>2. \A y \in S : ~(y < x)
  BY <1>1 DEF OpToRel
<1> QED
  BY <1>2

\* Past the last slot a probe goes on at the first.
LEMMA AtIs ==
    ASSUME NEW a \in Slots, NEW d \in 0..Capacity
    PROVE  /\ At(a + d) = IF a + d < Capacity THEN a + d ELSE a + d - Capacity
           /\ At(a + d) \in Slots
<1>1. Capacity \in Nat \ {0}
  BY MapAssumption
<1>2. a \in Nat /\ a < Capacity /\ d \in Nat /\ d <= Capacity
  BY <1>1 DEF Slots
<1> DEFINE n == a + d
<1>3. n \in Nat /\ n < 2 * Capacity
  BY <1>1, <1>2
<1> HIDE DEF n
<1>4. CASE n < Capacity
  <2>1. (n % Capacity) = n
    BY <1>1, <1>3, <1>4
  <2> QED
    BY <1>1, <1>3, <1>4, <2>1 DEF At, Slots, n
<1>5. CASE n >= Capacity
  <2> DEFINE r == n - Capacity
  <2>1. r \in Nat /\ r < Capacity /\ n = Capacity * 1 + r
    BY <1>1, <1>3, <1>5
  <2> HIDE DEF r
  <2>2. (n % Capacity) = r
    BY <1>1, <1>3, <2>1
  <2> QED
    BY <1>1, <1>3, <1>5, <2>1, <2>2 DEF At, Slots, n, r
<1> QED
  BY <1>1, <1>3, <1>4, <1>5

\* A distance leads where it was taken to, and nowhere else.
LEMMA DistIs ==
    ASSUME NEW a \in Slots, NEW b \in Slots
    PROVE  /\ Dist(a, b) \in 0..(Capacity - 1)
           /\ At(a + Dist(a, b)) = b
           /\ \A d \in 0..(Capacity - 1) : At(a + d) = b => d = Dist(a, b)
<1>1. Capacity \in Nat \ {0} /\ a \in 0..(Capacity - 1) /\ b \in 0..(Capacity - 1)
  BY MapAssumption DEF Slots
<1>2. Dist(a, b) \in 0..(Capacity - 1) /\ Dist(a, b) \in 0..Capacity
  BY <1>1 DEF Dist
<1>3. At(a + Dist(a, b)) = b
  BY <1>1, <1>2, AtIs DEF Dist
<1>4. ASSUME NEW d \in 0..(Capacity - 1), At(a + d) = b
      PROVE  d = Dist(a, b)
  <2>1. d \in 0..Capacity
    BY <1>1
  <2> QED
    BY <1>1, <1>4, <2>1, AtIs DEF Dist
<1> QED
  BY <1>2, <1>3, <1>4

\* On the way from a to s, before s, lie the slots x with Dist(a, x) < Dist(a, s).
-----------------------------------------------------------------------------
(* Probing.                                                                *)

Table == [keys : [Slots -> Keys \cup {NoKey}], values : [Slots -> Values \cup {NoValue}],
          size : Nat]
Homes == home \in [Keys -> Slots]

\* s is where a probe of t for key k stops.
StopsAt(t, k, s) ==
    /\ s \in Slots /\ t.keys[s] \in {NoKey, k}
    /\ \A x \in Slots : Dist(home[k], x) < Dist(home[k], s) => t.keys[x] \notin {NoKey, k}

\* While a slot is empty, every probe stops, at the first slot from its home
\* that is empty or holds its key.
LEMMA ProbeStops ==
    ASSUME Homes, NEW t, NEW k \in Keys, NEW z \in Slots, t.keys[z] \in {NoKey, k}
    PROVE  ProbeEnd(t, k) # -1 /\ StopsAt(t, k, ProbeEnd(t, k))
<1>1. Capacity \in Nat \ {0} /\ home[k] \in Slots
  BY MapAssumption DEF Homes
<1> DEFINE stops == {d \in 0..(Capacity - 1) : t.keys[At(home[k] + d)] \in {NoKey, k}}
<1>2. Dist(home[k], z) \in stops
  BY <1>1, DistIs
<1>3. PICK least \in stops : \A d \in stops : least <= d
  <2>1. stops \in SUBSET Nat
    OBVIOUS
  <2> QED
    BY <1>2, <2>1, LeastNatural
<1>4. Min(stops) \in stops /\ \A d \in stops : Min(stops) <= d
  BY <1>3 DEF Min
<1> DEFINE m == Min(stops)
           s == At(home[k] + m)
<1>5. ProbeEnd(t, k) = s
  BY <1>2 DEF ProbeEnd
<1> HIDE DEF m
<1>6. /\ m \in 0..(Capacity - 1) /\ m \in 0..Capacity /\ t.keys[s] \in {NoKey, k}
      /\ \A d \in stops : m <= d
  <2>1. m \in stops /\ \A d \in stops : m <= d
    BY <1>4 DEF m
  <2> QED
    BY <1>1, <2>1
<1>7. s \in Slots /\ Dist(home[k], s) = m
  BY <1>1, <1>6, AtIs, DistIs
<1>8. ASSUME NEW x \in Slots, Dist(home[k], x) < m
      PROVE  t.keys[x] \notin {NoKey, k}
  <2>1. Dist(home[k], x) \in 0..(Capacity - 1) /\ At(home[k] + Dist(home[k], x)) = x
    BY <1>1, DistIs
  <2> QED
    <3>1. t.keys[x] \in {NoKey, k} => Dist(home[k], x) \in stops
      BY <2>1
    <3> HIDE DEF stops
    <3> QED
      BY <1>6, <1>8, <2>1, <3>1
<1>9. s # -1
  BY <1>1, <1>7 DEF Slots
<1> QED
  BY <1>5, <1>6, <1>7, <1>8, <1>9 DEF StopsAt

\* It stops nowhere else.
LEMMA StopsOnce ==
    ASSUME Homes, NEW t, NEW k \in Keys, NEW s, StopsAt(t, k, s)
    PROVE  ProbeEnd(t, k) = s
<1> DEFINE r == ProbeEnd(t, k)
<1>1. s \in Slots /\ home[k] \in Slots
  BY DEF StopsAt, Homes
<1>2. StopsAt(t, k, r)
  BY <1>1, ProbeStops DEF StopsAt
<1>3. r \in Slots
  BY <1>2 DEF StopsAt
<1>4. ~(Dist(home[k], r) < Dist(home[k], s)) /\ ~(Dist(home[k], s) < Dist(home[k], r))
  BY <1>1, <1>2, <1>3 DEF StopsAt
<1> HIDE DEF r
<1>5. Dist(home[k], r) = Dist(home[k], s)
  BY <1>1, <1>3, <1>4, DistIs
<1> QED
  BY <1>1, <1>3, <1>5, DistIs DEF r
-----------------------------------------------------------------------------
(* What a table is between two calls.                                      *)

Occupied(t) == {s \in Slots : t.keys[s] # NoKey}

\* The count is right and leaves room; a free slot's value is reset; no key is
\* held twice.
Tidy(t) ==
    /\ t \in Table
    /\ t.size = Cardinality(Occupied(t)) /\ 4 * t.size < 3 * Capacity
    /\ \A s \in Slots : t.keys[s] = NoKey => t.values[s] = NoValue
    /\ \A r, s \in Slots : t.keys[r] = t.keys[s] /\ t.keys[r] # NoKey => r = s

\* A free slot on the way from the home of the key in s to s.
Hole(t, s, x) ==
    /\ s \in Slots /\ t.keys[s] # NoKey
    /\ x \in Slots /\ t.keys[x] = NoKey
    /\ Dist(home[t.keys[s]], x) < Dist(home[t.keys[s]], s)

\* Probes reach every key.
Reached(t) == \A s, x \in Slots : ~Hole(t, s, x)

\* The table holds the entries of c and no others.
Holds(t, c) ==
    /\ DOMAIN c \subseteq Keys
    /\ \A s \in Slots : t.keys[s] # NoKey =>
            t.keys[s] \in DOMAIN c /\ t.values[s] = c[t.keys[s]]
    /\ \A k \in DOMAIN c : \E s \in Slots : t.keys[s] = k

\* u is t but for slot p, which holds k and v.
Changed(t, u, p, k, v) ==
    /\ u \in Table
    /\ \A s \in Slots : u.keys[s] = IF s = p THEN k ELSE t.keys[s]
    /\ \A s \in Slots : u.values[s] = IF s = p THEN v ELSE t.values[s]

\* The occupied slots are finitely many, at most as many as there are slots.
LEMMA OccupiedFinite ==
    ASSUME NEW t
    PROVE  /\ IsFiniteSet(Occupied(t)) /\ Cardinality(Occupied(t)) \in Nat
           /\ Cardinality(Occupied(t)) <= Capacity
           /\ Cardinality(Occupied(t)) = Capacity => Occupied(t) = Slots
<1>1. Capacity \in Nat \ {0}
  BY MapAssumption
<1>2. IsFiniteSet(Slots) /\ Cardinality(Slots) = Capacity
  BY <1>1, FS_Interval DEF Slots
<1>3. Occupied(t) \subseteq Slots
  BY DEF Occupied
<1> QED
  BY <1>2, <1>3, FS_Subset, FS_CardinalityType

\* The load limit leaves a slot free.
LEMMA FreeSlot ==
    ASSUME NEW t, Tidy(t)
    PROVE  \E z \in Slots : t.keys[z] = NoKey
<1>1. Capacity \in Nat \ {0} /\ t.size \in Nat
  BY MapAssumption DEF Tidy, Table
<1>2. Cardinality(Occupied(t)) < Capacity
  BY <1>1 DEF Tidy
<1>3. \E z \in Slots : z \notin Occupied(t)
  <2>1. Occupied(t) # Slots
    <3>1. IsFiniteSet(Slots) /\ Cardinality(Slots) = Capacity
      BY <1>1, FS_Interval DEF Slots
    <3> QED
      BY <1>1, <1>2, <3>1
  <2> QED
    BY <2>1 DEF Occupied
<1> QED
  BY <1>3 DEF Occupied

\* A key in a free slot counts as one more, ...
LEMMA StoreNew ==
    ASSUME NEW t, Tidy(t), NEW p \in Slots, t.keys[p] = NoKey,
           NEW k \in Keys, NEW v \in Values \cup {NoValue}
    PROVE  LET u == Store(t, p, k, v)
           IN  /\ Changed(t, u, p, k, v)
               /\ u.size = t.size + 1 /\ u.size = Cardinality(Occupied(u))
<1> DEFINE u == Store(t, p, k, v)
<1>1. /\ t \in Table /\ t.size \in Nat /\ t.size = Cardinality(Occupied(t))
      /\ NoKey \notin Keys
  BY MapAssumption DEF Tidy, Table
<1>2. u.size = t.size + 1
  BY DEF Store
<1>3. Changed(t, u, p, k, v)
  BY <1>1 DEF Store, Changed, Table
<1> HIDE DEF u
<1>4. Occupied(u) = Occupied(t) \cup {p} /\ p \notin Occupied(t)
  BY <1>1, <1>3 DEF Occupied, Changed
<1>5. Cardinality(Occupied(u)) = Cardinality(Occupied(t)) + 1
  BY <1>4, OccupiedFinite, FS_AddElement
<1> QED
  BY <1>1, <1>2, <1>3, <1>5 DEF u

\* ... a key already there changes its value only, ...
LEMMA StoreAgain ==
    ASSUME NEW t, Tidy(t), NEW k \in Keys, NEW p \in Slots, t.keys[p] = k,
           NEW v \in Values \cup {NoValue}
    PROVE  LET u == Store(t, p, k, v)
           IN  /\ Changed(t, u, p, k, v)
               /\ u.size = t.size /\ u.size = Cardinality(Occupied(u))
<1> DEFINE u == Store(t, p, k, v)
<1>1. /\ t \in Table /\ t.size \in Nat /\ t.size = Cardinality(Occupied(t))
      /\ NoKey \notin Keys
  BY MapAssumption DEF Tidy, Table
<1>2. u.size = t.size
  BY <1>1 DEF Store
<1>3. Changed(t, u, p, k, v)
  BY <1>1 DEF Store, Changed, Table
<1> HIDE DEF u
<1>4. Occupied(u) = Occupied(t)
  BY <1>1, <1>3 DEF Occupied, Changed
<1> QED
  BY <1>1, <1>2, <1>3, <1>4 DEF u

\* ... and a slot cleared counts as one less.
LEMMA ClearTidy ==
    ASSUME NEW t, Tidy(t), NEW s \in Slots, t.keys[s] # NoKey
    PROVE  LET u == ClearSlot(t, s)
           IN  Changed(t, u, s, NoKey, NoValue) /\ u.size + 1 = t.size /\ Tidy(u)
<1> DEFINE u == ClearSlot(t, s)
<1>1. /\ t \in Table /\ t.size \in Nat /\ t.size = Cardinality(Occupied(t))
      /\ 4 * t.size < 3 * Capacity /\ Capacity \in Nat
  BY MapAssumption DEF Tidy, Table
<1>2. s \in Occupied(t)
  BY DEF Occupied
<1>3. Cardinality(Occupied(t) \ {s}) = Cardinality(Occupied(t)) - 1
  BY <1>2, OccupiedFinite, FS_RemoveElement
<1>4. Cardinality(Occupied(t) \ {s}) \in Nat
  BY <1>2, OccupiedFinite, FS_RemoveElement, FS_CardinalityType
<1>5. u.size = t.size - 1 /\ u.size \in Nat
  BY <1>1, <1>3, <1>4 DEF ClearSlot, Table
<1>6. /\ \A r \in Slots : u.keys[r] = IF r = s THEN NoKey ELSE t.keys[r]
      /\ \A r \in Slots : u.values[r] = IF r = s THEN NoValue ELSE t.values[r]
      /\ u.keys \in [Slots -> Keys \cup {NoKey}]
      /\ u.values \in [Slots -> Values \cup {NoValue}]
  BY <1>1 DEF ClearSlot, Table
<1>7. u \in Table
  <2>1. t.size - 1 \in Nat
    BY <1>1, <1>3, <1>4
  <2> QED
    BY <1>1, <2>1 DEF ClearSlot, Table
<1> HIDE DEF u
<1>8. Occupied(u) = Occupied(t) \ {s}
  BY <1>6 DEF Occupied
<1>9. Tidy(u)
  BY <1>1, <1>3, <1>5, <1>6, <1>7, <1>8 DEF Tidy
<1> QED
  BY <1>1, <1>5, <1>6, <1>7, <1>9 DEF Changed, u
-----------------------------------------------------------------------------
(* find and insert.                                                        *)

\* A key that the table holds is where its probe stops.
LEMMA HeldIsReached ==
    ASSUME Homes, NEW t, Tidy(t), Reached(t), NEW s \in Slots, t.keys[s] # NoKey
    PROVE  t.keys[s] \in Keys /\ ProbeEnd(t, t.keys[s]) = s
<1> DEFINE k == t.keys[s]
<1>1. k \in Keys
  BY DEF Tidy, Table
<1>2. ASSUME NEW x \in Slots, Dist(home[k], x) < Dist(home[k], s)
      PROVE  t.keys[x] \notin {NoKey, k}
  <2>1. home[k] \in Slots
    BY <1>1 DEF Homes
  <2>2. x # s
    BY <1>2, <2>1, DistIs
  <2>3. t.keys[x] # NoKey
    BY <1>2 DEF Reached, Hole
  <2> QED
    BY <2>2, <2>3 DEF Tidy
<1>3. StopsAt(t, k, s)
  BY <1>2 DEF StopsAt
<1> QED
  BY <1>1, <1>3, StopsOnce

\* The probe for a key it does not hold stops at a free slot.
LEMMA AbsentStopsFree ==
    ASSUME Homes, NEW t, Tidy(t), NEW k \in Keys, \A s \in Slots : t.keys[s] # k
    PROVE  StopsAt(t, k, ProbeEnd(t, k)) /\ t.keys[ProbeEnd(t, k)] = NoKey
<1>1. StopsAt(t, k, ProbeEnd(t, k))
  BY FreeSlot, ProbeStops
<1> QED
  BY <1>1 DEF StopsAt

\* find() in a table that holds c looks the key up in c.
LEMMA FindInTable ==
    ASSUME Homes, NEW t, Tidy(t), Reached(t), NEW c, Holds(t, c), NEW k \in Keys
    PROVE  /\ ProbeEnd(t, k) # -1
           /\ Find(t, k) = IF k \in DOMAIN c THEN c[k] ELSE NoValue
<1>1. ProbeEnd(t, k) # -1
  BY FreeSlot, ProbeStops
<1>2. NoKey \notin Keys
  BY MapAssumption
<1>3. CASE k \in DOMAIN c
  <2>1. PICK s \in Slots : t.keys[s] = k
    BY <1>3 DEF Holds
  <2>2. ProbeEnd(t, k) = s
    BY <1>2, <2>1, HeldIsReached
  <2> QED
    BY <1>1, <1>2, <1>3, <2>1, <2>2 DEF Find, Holds
<1>4. CASE k \notin DOMAIN c
  <2>1. \A s \in Slots : t.keys[s] # k
    BY <1>2, <1>4 DEF Holds
  <2>2. ProbeEnd(t, k) \in Slots /\ t.keys[ProbeEnd(t, k)] = NoKey
    BY <2>1, AbsentStopsFree DEF StopsAt
  <2> QED
    BY <1>1, <1>4, <2>2 DEF Find, Tidy
<1> QED
  BY <1>1, <1>3, <1>4

\* The table has as many keys as c.
LEMMA SizeOfTable ==
    ASSUME NEW t, Tidy(t), NEW c, Holds(t, c)
    PROVE  t.size = Cardinality(DOMAIN c) /\ IsFiniteSet(DOMAIN c)
<1> DEFINE S == Occupied(t)
           T == DOMAIN c
           f == [s \in S |-> t.keys[s]]
<1>1. NoKey \notin Keys
  BY MapAssumption
<1>2. \A s \in S : s \in Slots /\ f[s] = t.keys[s] /\ f[s] # NoKey
  BY DEF Occupied
<1>3. f \in [S -> T]
  BY <1>2 DEF Holds
<1>4. \A r, s \in S : f[r] = f[s] => r = s
  BY <1>2 DEF Tidy
<1>5. \A k \in T : \E s \in S : f[s] = k
  <2> SUFFICES ASSUME NEW k \in T
               PROVE  \E s \in S : f[s] = k
    OBVIOUS
  <2>1. PICK s \in Slots : t.keys[s] = k
    BY DEF Holds
  <2>2. s \in S
    BY <1>1, <2>1 DEF Holds, Occupied
  <2> QED
    BY <2>1, <2>2
<1> HIDE DEF f
<1>6. ExistsBijection(S, T)
  BY <1>3, <1>4, <1>5 DEF ExistsBijection, Bijection, Injection, Surjection, IsInjective
<1> QED
  BY <1>6, OccupiedFinite, FS_Bijection DEF Tidy

\* A key put where its probe stops has no hole before it and makes none.
LEMMA PlaceMakesNoHole ==
    ASSUME Homes, NEW t, NEW u, NEW k \in Keys, NEW p, StopsAt(t, k, p), NEW v,
           Changed(t, u, p, k, v), NEW s, NEW x, Hole(u, s, x)
    PROVE  s # p /\ x # p /\ Hole(t, s, x)
<1>1. NoKey \notin Keys
  BY MapAssumption
<1>2. x # p /\ t.keys[x] = NoKey /\ x \in Slots /\ s \in Slots
  BY <1>1 DEF Hole, Changed
<1>3. s # p
  <2> SUFFICES ASSUME s = p
               PROVE  FALSE
    OBVIOUS
  <2>1. u.keys[s] = k
    BY <1>2 DEF Changed
  <2>2. Dist(home[k], x) < Dist(home[k], p)
    BY <2>1 DEF Hole
  <2> QED
    BY <1>2, <2>2 DEF StopsAt
<1>4. u.keys[s] = t.keys[s]
  BY <1>2, <1>3 DEF Changed
<1> QED
  BY <1>2, <1>3, <1>4 DEF Hole

\* insert() with room, of a key held nowhere or where the probe stops.
LEMMA PutInTable ==
    ASSUME Homes, NEW t, Tidy(t), NEW k \in Keys, NEW v \in Values \cup {NoValue},
           ~Refuses(t), NEW p, StopsAt(t, k, p), \A s \in Slots : t.keys[s] = k => s = p
    PROVE  /\ Changed(t, Put(t, k, v), p, k, v)
           /\ Tidy(Put(t, k, v))
           /\ Put(t, k, v).size = IF t.keys[p] = k THEN t.size ELSE t.size + 1
<1> DEFINE u == Store(t, p, k, v)
<1>1. ProbeEnd(t, k) = p /\ Put(t, k, v) = u
  BY StopsOnce DEF Put
<1>2. p \in Slots /\ t.keys[p] \in {NoKey, k} /\ NoKey \notin Keys
  BY MapAssumption DEF StopsAt
<1>3. Capacity \in Nat /\ t.size \in Nat /\ 4 * (t.size + 1) < 3 * Capacity
  BY MapAssumption DEF Refuses, Tidy, Table
<1>4. /\ Changed(t, u, p, k, v) /\ u.size = Cardinality(Occupied(u))
      /\ u.size = IF t.keys[p] = k THEN t.size ELSE t.size + 1
  BY <1>2, StoreNew, StoreAgain
<1> HIDE DEF u
<1>5. 4 * u.size < 3 * Capacity
  BY <1>3, <1>4
<1>6. Tidy(u)
  BY <1>2, <1>4, <1>5 DEF Tidy, Changed
<1> QED
  BY <1>1, <1>4, <1>6
-----------------------------------------------------------------------------
(* erase: the rest of the cluster is inserted again.                       *)

\* After n slots behind e, with z free: what probes miss lies among the slots
\* beyond, and what hides it among those already gone through.
Progress(u, c, e, z, n) ==
    /\ Tidy(u) /\ Holds(u, c)
    /\ u.keys[z] = NoKey
    /\ \A s, x \in Slots : Hole(u, s, x) => Dist(e, x) <= n /\ Dist(e, s) > n

\* If s lies between x and r as seen from e, a probe that comes to r by way of x
\* comes by s.
LEMMA OnTheWay ==
    ASSUME NEW e \in Slots, NEW h \in Slots, NEW x \in Slots, NEW s \in Slots,
           NEW r \in Slots, Dist(e, x) < Dist(e, s), Dist(e, s) < Dist(e, r),
           Dist(h, x) < Dist(h, r)
    PROVE  Dist(h, s) < Dist(h, r)
<1>1. /\ Capacity \in Nat \ {0} /\ e \in 0..(Capacity - 1) /\ h \in 0..(Capacity - 1)
      /\ x \in 0..(Capacity - 1) /\ s \in 0..(Capacity - 1) /\ r \in 0..(Capacity - 1)
  BY MapAssumption DEF Slots
<1> QED
  BY <1>1 DEF Dist

\* If z lies beyond s and r before it, a probe that comes to r by way of s comes
\* by z.
LEMMA AllTheWayRound ==
    ASSUME NEW e \in Slots, NEW h \in Slots, NEW r \in Slots, NEW s \in Slots,
           NEW z \in Slots, Dist(e, r) < Dist(e, s), Dist(e, s) < Dist(e, z),
           Dist(h, s) < Dist(h, r)
    PROVE  Dist(h, z) < Dist(h, r)
<1>1. /\ Capacity \in Nat \ {0} /\ e \in 0..(Capacity - 1) /\ h \in 0..(Capacity - 1)
      /\ r \in 0..(Capacity - 1) /\ s \in 0..(Capacity - 1) /\ z \in 0..(Capacity - 1)
  BY MapAssumption DEF Slots
<1> QED
  BY <1>1 DEF Dist

\* The home of a key in a slot is a slot.
LEMMA HomeOf ==
    ASSUME Homes, NEW t, Tidy(t), NEW s \in Slots, t.keys[s] # NoKey
    PROVE  t.keys[s] \in Keys /\ home[t.keys[s]] \in Slots
BY DEF Homes, Tidy, Table

\* At a free slot the rest is in order.
LEMMA ClusterEnds ==
    ASSUME Homes, NEW u, NEW c, NEW e \in Slots, NEW z \in Slots, NEW n \in Nat,
           Progress(u, c, e, z, n),
           NEW s \in Slots, Dist(e, s) = n + 1, u.keys[s] = NoKey
    PROVE  Reached(u)
<1> SUFFICES ASSUME NEW r \in Slots, NEW x \in Slots, Hole(u, r, x)
             PROVE  FALSE
  BY DEF Reached
<1> DEFINE h == home[u.keys[r]]
<1>1. u.keys[r] # NoKey /\ Dist(h, x) < Dist(h, r) /\ h \in Slots
  BY HomeOf DEF Hole, Progress
<1>2. Dist(e, x) <= n /\ Dist(e, r) > n
  BY DEF Progress
<1>3. Dist(e, x) \in Nat /\ Dist(e, r) \in Nat /\ r # s
  BY <1>1, DistIs
<1>4. Dist(e, r) # Dist(e, s)
  BY <1>3, DistIs
<1>5. Dist(e, x) < Dist(e, s) /\ Dist(e, s) < Dist(e, r)
  BY <1>2, <1>3, <1>4
<1> HIDE DEF h
<1>6. Dist(h, s) < Dist(h, r)
  BY <1>1, <1>5, OnTheWay
<1>7. Hole(u, r, s)
  BY <1>1, <1>6 DEF Hole, h
<1> QED
  BY <1>7 DEF Progress

\* An entry taken out and inserted again finds a place among the slots gone
\* through, and what it leaves free hides entries beyond only.
LEMMA EntryMoves ==
    ASSUME Homes, NEW u, NEW c, NEW e \in Slots, NEW z \in Slots, NEW n \in Nat,
           n < Dist(e, z), Progress(u, c, e, z, n),
           NEW s \in Slots, Dist(e, s) = n + 1, u.keys[s] # NoKey
    PROVE  /\ n + 1 < Dist(e, z)
           /\ Progress(Put(ClearSlot(u, s), u.keys[s], u.values[s]), c, e, z, n + 1)
<1> DEFINE k == u.keys[s]
           v == u.values[s]
           w == ClearSlot(u, s)
           p == ProbeEnd(w, k)
           m == Put(w, k, v)
           h == home[k]
<1>1. /\ Tidy(u) /\ Holds(u, c) /\ u.keys[z] = NoKey
      /\ k \in Keys /\ h \in Slots /\ v \in Values \cup {NoValue}
  BY HomeOf DEF Progress, Tidy, Table
<1>2. Dist(e, z) \in Nat /\ z # s /\ Dist(e, z) # n + 1 /\ n + 1 < Dist(e, z)
  <2>1. z # s
    BY <1>1
  <2>2. Dist(e, z) # Dist(e, s) /\ Dist(e, z) \in Nat
    BY <2>1, DistIs
  <2> QED
    BY <2>1, <2>2
<1>3. Changed(u, w, s, NoKey, NoValue) /\ Tidy(w) /\ w.size + 1 = u.size
  BY <1>1, ClearTidy
<1>4. \A r \in Slots : w.keys[r] # k
  BY <1>1, <1>3 DEF Changed, Tidy
<1> HIDE DEF w
<1>5. StopsAt(w, k, p) /\ w.keys[p] = NoKey /\ p \in Slots
  BY <1>1, <1>3, <1>4, AbsentStopsFree DEF StopsAt
<1>6. ~Refuses(w)
  BY <1>1, <1>3, MapAssumption DEF Refuses, Tidy, Table
<1>7. Changed(w, m, p, k, v) /\ Tidy(m)
  BY <1>1, <1>3, <1>4, <1>5, <1>6, PutInTable
<1> HIDE DEF p, m
<1>8. ~Hole(u, s, z)
  BY <1>2, DistIs DEF Progress
<1>9. p # z
  <2>1. ~(Dist(h, s) < Dist(h, p))
    BY <1>3, <1>5 DEF StopsAt, Changed
  <2>2. Dist(h, s) \in Nat /\ Dist(h, z) \in Nat /\ Dist(h, s) # Dist(h, z)
    BY <1>1, <1>2, DistIs
  <2>3. ~(Dist(h, z) < Dist(h, s))
    BY <1>1, <1>8 DEF Hole
  <2> QED
    BY <2>1, <2>2, <2>3
<1>10. m.keys[z] = NoKey
  BY <1>1, <1>2, <1>3, <1>7, <1>9 DEF Changed
<1>11. Holds(m, c)
  <2>1. k \in DOMAIN c /\ v = c[k]
    BY <1>1 DEF Holds
  <2>2. ASSUME NEW r \in Slots, m.keys[r] # NoKey
        PROVE  m.keys[r] \in DOMAIN c /\ m.values[r] = c[m.keys[r]]
    <3>1. CASE r = p
      BY <1>7, <2>1, <3>1 DEF Changed
    <3>2. CASE r # p
      <4>1. m.keys[r] = w.keys[r] /\ m.values[r] = w.values[r]
        BY <1>7, <3>2 DEF Changed
      <4>2. r # s /\ w.keys[r] = u.keys[r] /\ w.values[r] = u.values[r]
        BY <1>3, <2>2, <4>1 DEF Changed
      <4> QED
        BY <1>1, <2>2, <4>1, <4>2 DEF Holds
    <3> QED
      BY <3>1, <3>2
  <2>3. ASSUME NEW j \in DOMAIN c
        PROVE  \E r \in Slots : m.keys[r] = j
    <3>1. PICK r \in Slots : u.keys[r] = j
      BY <1>1 DEF Holds
    <3>2. CASE r = s
      BY <1>5, <1>7, <3>1, <3>2 DEF Changed
    <3>3. CASE r # s
      <4>1. w.keys[r] = j /\ j # NoKey
        BY <1>1, <1>3, <3>1, <3>3, MapAssumption DEF Changed, Holds
      <4>2. m.keys[r] = j
        BY <1>5, <1>7, <4>1 DEF Changed
      <4> QED
        BY <4>2
    <3> QED
      BY <3>2, <3>3
  <2> QED
    BY <1>1, <2>2, <2>3 DEF Holds
<1>12. ASSUME NEW r \in Slots, NEW x \in Slots, Hole(m, r, x)
       PROVE  Dist(e, x) <= n + 1 /\ Dist(e, r) > n + 1
  <2>1. Hole(w, r, x)
    BY <1>1, <1>5, <1>7, <1>12, PlaceMakesNoHole
  <2>2. r # s /\ w.keys[r] = u.keys[r] /\ u.keys[r] # NoKey
    BY <1>3, <2>1 DEF Hole, Changed
  <2>3. /\ Dist(e, r) \in Nat /\ Dist(e, x) \in Nat /\ Dist(e, r) # n + 1
    BY <2>2, DistIs
  <2>4. CASE x = s
    <3> SUFFICES ASSUME Dist(e, r) < n + 1
                 PROVE  FALSE
      BY <2>3, <2>4
    <3> DEFINE g == home[u.keys[r]]
    <3>1. g \in Slots /\ Dist(g, s) < Dist(g, r)
      BY <1>1, <2>1, <2>2, <2>4, HomeOf DEF Hole
    <3> HIDE DEF g
    <3>2. Dist(g, z) < Dist(g, r)
      BY <1>2, <3>1, AllTheWayRound
    <3>3. Hole(u, r, z)
      BY <1>1, <2>2, <3>2 DEF Hole, g
    <3> QED
      BY <1>2, <3>3 DEF Progress
  <2>5. CASE x # s
    <3>1. Hole(u, r, x)
      BY <1>3, <2>1, <2>2, <2>5 DEF Hole, Changed
    <3>2. Dist(e, x) <= n /\ Dist(e, r) > n
      BY <3>1 DEF Progress
    <3> QED
      BY <2>3, <3>2
  <2> QED
    BY <2>4, <2>5
<1> QED
  BY <1>2, <1>7, <1>10, <1>11, <1>12 DEF Progress, m, w, k, v

\* The loop of rehash_from as a function of how often it has gone round.
RehashOnce(a, e, n) ==
    LET u == a.t
        s == At(e + n)
    IN  IF a.done \/ u.keys[s] = NoKey
        THEN [t |-> u, done |-> TRUE]
        ELSE [t |-> Put(ClearSlot(u, s), u.keys[s], u.values[s]), done |-> FALSE]

IsRehash(t, e, N, f) ==
    f = [n \in 0..N |-> IF n = 0 THEN [t |-> t, done |-> FALSE]
                        ELSE RehashOnce(f[n - 1], e, n)]

\* It is defined for every number of rounds: induction on the number.
LEMMA RehashExists ==
    ASSUME NEW t, NEW e, NEW N \in Nat
    PROVE  \E f : IsRehash(t, e, N, f)
<1> DEFINE bad == {M \in Nat : ~ \E f : IsRehash(t, e, M, f)}
           first == [t |-> t, done |-> FALSE]
<1> SUFFICES ASSUME bad # {}
             PROVE  FALSE
  OBVIOUS
<1>1. PICK M \in bad : \A K \in bad : M <= K
  BY LeastNatural
<1>2. CASE M = 0
  <2> DEFINE f == [n \in 0..0 |-> first]
  <2>1. f = [n \in 0..0 |-> IF n = 0 THEN first ELSE RehashOnce(f[n - 1], e, n)]
    OBVIOUS
  <2>2. IsRehash(t, e, 0, f)
    BY <2>1 DEF IsRehash
  <2> QED
    BY <1>1, <1>2, <2>2
<1>3. CASE M # 0
  <2>1. M - 1 \in Nat /\ M - 1 \notin bad
    BY <1>1, <1>3
  <2>2. PICK g : IsRehash(t, e, M - 1, g)
    BY <2>1
  <2> HIDE DEF first
  <2> DEFINE f == [n \in 0..M |-> IF n = 0 THEN first ELSE RehashOnce(g[n - 1], e, n)]
  <2>3. ASSUME NEW n \in 0..(M - 1)
        PROVE  f[n] = g[n]
    <3>1. n \in 0..M
      BY <1>1
    <3>2. g[n] = IF n = 0 THEN first ELSE RehashOnce(g[n - 1], e, n)
      BY <2>2 DEF IsRehash, first
    <3> QED
      BY <3>1, <3>2
  <2>4. ASSUME NEW n \in 0..M, n # 0
        PROVE  f[n - 1] = g[n - 1]
    <3>1. n - 1 \in 0..(M - 1)
      BY <1>1, <2>4
    <3> HIDE DEF f
    <3> QED
      BY <2>3, <3>1
  <2> DEFINE h == [n \in 0..M |-> IF n = 0 THEN first ELSE RehashOnce(f[n - 1], e, n)]
  <2>5. ASSUME NEW n \in 0..M
        PROVE  f[n] = h[n]
    <3>1. f[n] = IF n = 0 THEN first ELSE RehashOnce(g[n - 1], e, n)
      OBVIOUS
    <3>2. h[n] = IF n = 0 THEN first ELSE RehashOnce(f[n - 1], e, n)
      OBVIOUS
    <3> HIDE DEF f, h
    <3> QED
      BY <2>4, <3>1, <3>2
  <2>6. f = h
    BY <2>5
  <2>7. IsRehash(t, e, M, f)
    BY <2>6 DEF IsRehash, first
  <2> QED
    BY <1>1, <2>7
<1> QED
  BY <1>2, <1>3

\* What holds after each round: the loop goes on in progress or is done.
After(a, c, e, z, n) ==
    /\ a.done \in BOOLEAN
    /\ ~a.done => n < Dist(e, z) /\ Progress(a.t, c, e, z, n)
    /\ a.done => Tidy(a.t) /\ Holds(a.t, c) /\ Reached(a.t)

\* One round.
LEMMA RoundKeeps ==
    ASSUME Homes, NEW a, NEW c, NEW e \in Slots, NEW z \in Slots, NEW n \in Nat,
           After(a, c, e, z, n), n + 1 < Capacity
    PROVE  After(RehashOnce(a, e, n + 1), c, e, z, n + 1)
<1> DEFINE u == a.t
           s == At(e + (n + 1))
           b == RehashOnce(a, e, n + 1)
<1>1. Capacity \in Nat \ {0} /\ n + 1 \in 0..Capacity /\ n + 1 \in 0..(Capacity - 1)
  BY MapAssumption
<1>2. s \in Slots /\ Dist(e, s) = n + 1
  BY <1>1, AtIs, DistIs
<1> HIDE DEF s, b
<1> SUFFICES After(b, c, e, z, n + 1)
  BY DEF b
<1>3. CASE a.done
  <2>1. b = [t |-> u, done |-> TRUE]
    BY <1>3 DEF RehashOnce, b
  <2>2. b.t = u /\ b.done = TRUE
    BY <2>1
  <2> QED
    BY <1>3, <2>2 DEF After
<1>4. CASE ~a.done /\ u.keys[s] = NoKey
  <2>1. b = [t |-> u, done |-> TRUE]
    BY <1>4 DEF RehashOnce, s, b
  <2>2. b.t = u /\ b.done = TRUE
    BY <2>1
  <2>3. Progress(u, c, e, z, n)
    BY <1>4 DEF After
  <2>4. Reached(u) /\ Tidy(u) /\ Holds(u, c)
    BY <1>2, <1>4, <2>3, ClusterEnds DEF Progress
  <2> QED
    BY <2>2, <2>4 DEF After
<1>5. CASE ~a.done /\ u.keys[s] # NoKey
  <2> DEFINE m == Put(ClearSlot(u, s), u.keys[s], u.values[s])
  <2>1. b = [t |-> m, done |-> FALSE]
    BY <1>5 DEF RehashOnce, s, b
  <2>2. b.t = m /\ b.done = FALSE
    BY <2>1
  <2>3. n < Dist(e, z) /\ Progress(u, c, e, z, n)
    BY <1>5 DEF After
  <2>4. n + 1 < Dist(e, z) /\ Progress(m, c, e, z, n + 1)
    BY <1>2, <1>5, <2>3, EntryMoves
  <2> HIDE DEF m
  <2> QED
    BY <2>2, <2>4 DEF After
<1> QED
  BY <1>3, <1>4, <1>5

\* rehash_from() ends at a free slot and leaves every entry where its probe finds
\* it, if the slot erased is all that hides any.
LEMMA RehashInOrder ==
    ASSUME Homes, NEW t, NEW c, NEW e \in Slots, NEW z \in Slots, z # e,
           Progress(t, c, e, z, 0)
    PROVE  Tidy(RehashFrom(t, e)) /\ Holds(RehashFrom(t, e), c) /\ Reached(RehashFrom(t, e))
<1>1. Capacity \in Nat \ {0} /\ Dist(e, z) \in 0..(Capacity - 1) /\ Dist(e, z) # 0
  <2>1. Capacity \in Nat \ {0} /\ e \in 0..(Capacity - 1) /\ z \in 0..(Capacity - 1)
    BY MapAssumption DEF Slots
  <2> QED
    BY <2>1, DistIs DEF Dist
<1> DEFINE at == CHOOSE f : IsRehash(t, e, Capacity, f)
<1>2. RehashFrom(t, e) = at[Capacity].t
  BY DEF RehashFrom, IsRehash, RehashOnce
<1>3. IsRehash(t, e, Capacity, at)
  BY <1>1, RehashExists
<1> HIDE DEF at
<1>4. /\ at[0] = [t |-> t, done |-> FALSE]
      /\ \A n \in 1..Capacity : at[n] = RehashOnce(at[n - 1], e, n)
  <2>1. \A n \in 0..Capacity :
          at[n] = IF n = 0 THEN [t |-> t, done |-> FALSE] ELSE RehashOnce(at[n - 1], e, n)
    BY <1>3 DEF IsRehash
  <2>2. 0 \in 0..Capacity /\ \A n \in 1..Capacity : n \in 0..Capacity /\ n # 0
    BY <1>1
  <2> QED
    BY <2>1, <2>2
<1>5. ASSUME NEW n \in 0..(Capacity - 1)
      PROVE  After(at[n], c, e, z, n)
  <2> DEFINE bad == {m \in 0..(Capacity - 1) : ~After(at[m], c, e, z, m)}
  <2> SUFFICES ASSUME bad # {}
               PROVE  FALSE
    BY <1>5
  <2>1. bad \in SUBSET Nat
    OBVIOUS
  <2>2. PICK m \in bad : \A k \in bad : m <= k
    BY <2>1, LeastNatural
  <2>3. CASE m = 0
    <3>1. After(at[0], c, e, z, 0)
      BY <1>1, <1>4 DEF After
    <3> QED
      BY <2>2, <2>3, <3>1
  <2>4. CASE m # 0
    <3> DEFINE k == m - 1
    <3>1. /\ k \in Nat /\ k \in 0..(Capacity - 1) /\ ~(m <= k) /\ m = k + 1
          /\ k + 1 < Capacity /\ m \in 1..Capacity
      BY <1>1, <2>2, <2>4
    <3>2. After(at[k], c, e, z, k)
      BY <2>2, <3>1
    <3>3. at[m] = RehashOnce(at[k], e, k + 1)
      BY <1>4, <3>1
    <3> HIDE DEF k
    <3>4. After(RehashOnce(at[k], e, k + 1), c, e, z, k + 1)
      BY <3>1, <3>2, RoundKeeps
    <3> QED
      BY <2>2, <3>1, <3>3, <3>4
  <2> QED
    BY <2>3, <2>4
<1>6. After(at[Capacity - 1], c, e, z, Capacity - 1) /\ at[Capacity - 1].done
  <2>1. After(at[Capacity - 1], c, e, z, Capacity - 1)
    BY <1>1, <1>5
  <2> QED
    BY <1>1, <2>1 DEF After
<1>7. at[Capacity] = [t |-> at[Capacity - 1].t, done |-> TRUE]
  <2>1. Capacity \in 1..Capacity
    BY <1>1
  <2>2. at[Capacity] = RehashOnce(at[Capacity - 1], e, Capacity)
    BY <1>4, <2>1
  <2> QED
    BY <1>6, <2>2 DEF RehashOnce
<1> QED
  BY <1>2, <1>6, <1>7 DEF After

-----------------------------------------------------------------------------
(* The map.                                                                *)

\* What every step preserves: the table holds what the calls so far have built,
\* and every key of it can be reached from its home.
MapInv == Homes /\ Tidy(table) /\ Reached(table) /\ Holds(table, content)

\* The empty table.
LEMMA EmptyInOrder ==
    ASSUME NEW c, DOMAIN c = {}
    PROVE  Tidy(EmptyTable) /\ Reached(EmptyTable) /\ Holds(EmptyTable, c)
<1> DEFINE t == EmptyTable
<1>1. t \in Table /\ t.size = 0 /\ Capacity \in Nat \ {0}
  BY MapAssumption DEF EmptyTable, Table
<1>2. \A s \in Slots : t.keys[s] = NoKey /\ t.values[s] = NoValue
  BY DEF EmptyTable
<1> HIDE DEF t
<1>3. Occupied(t) = {}
  BY <1>2 DEF Occupied
<1>4. Cardinality(Occupied(t)) = 0
  BY <1>3, FS_EmptySet
<1>5. Tidy(t)
  BY <1>1, <1>2, <1>4 DEF Tidy
<1>6. Reached(t) /\ Holds(t, c)
  BY <1>2 DEF Reached, Hole, Holds
<1> QED
  BY <1>5, <1>6 DEF t

\* A new map, whatever the hash.
LEMMA InitMapInv == Init => MapInv
<1> SUFFICES ASSUME Init PROVE MapInv
  OBVIOUS
<1>1. Homes
  BY MapAssumption DEF Init, Homes, Slots
<1>2. DOMAIN content = {}
  BY DEF Init
<1> QED
  BY <1>1, <1>2, EmptyInOrder DEF Init, MapInv

\* insert, refused or not.
LEMMA InsertKeeps == MapInv /\ Insert => MapInv'
<1> SUFFICES ASSUME MapInv, NEW k \in Keys, NEW v \in Values,
                    table' = Put(table, k, v),
                    content' = IF Refuses(table) THEN content
                               ELSE [j \in DOMAIN content \cup {k} |->
                                         IF j = k THEN v ELSE content[j]],
                    UNCHANGED home
             PROVE  MapInv'
  BY DEF Insert
<1>1. Homes /\ Tidy(table) /\ Reached(table) /\ Holds(table, content) /\ Homes'
  BY DEF MapInv, Homes
<1>2. CASE Refuses(table)
  <2>1. table' = table /\ content' = content
    BY <1>2 DEF Put
  <2> QED
    BY <1>1, <2>1 DEF MapInv, Reached, Hole
<1>3. CASE ~Refuses(table)
  <2> DEFINE p == ProbeEnd(table, k)
             c == [j \in DOMAIN content \cup {k} |-> IF j = k THEN v ELSE content[j]]
  <2>1. StopsAt(table, k, p) /\ NoKey \notin Keys
    BY <1>1, FreeSlot, ProbeStops, MapAssumption
  <2>2. ASSUME NEW s \in Slots, table.keys[s] = k
        PROVE  s = p
    BY <1>1, <2>1, <2>2, HeldIsReached
  <2> HIDE DEF p
  <2>3. Changed(table, table', p, k, v) /\ Tidy(table')
    BY <1>1, <1>3, <2>1, <2>2, PutInTable
  <2>4. Reached(table')
    BY <1>1, <2>1, <2>3, PlaceMakesNoHole DEF Reached
  <2>5. Reached(table)'
    BY <2>4 DEF Reached, Hole
  <2>6. p \in Slots /\ table.keys[p] \in {NoKey, k}
    BY <2>1 DEF StopsAt
  <2>7. /\ DOMAIN c = DOMAIN content \cup {k} /\ c[k] = v
        /\ \A j \in DOMAIN content : j # k => c[j] = content[j]
    OBVIOUS
  <2>8. content' = c
    BY <1>3
  <2> HIDE DEF c
  <2>9. ASSUME NEW s \in Slots, table'.keys[s] # NoKey
        PROVE  table'.keys[s] \in DOMAIN c /\ table'.values[s] = c[table'.keys[s]]
    <3>1. CASE s = p
      BY <2>3, <2>7, <3>1 DEF Changed
    <3>2. CASE s # p
      <4>1. table'.keys[s] = table.keys[s] /\ table'.values[s] = table.values[s]
        BY <2>3, <3>2 DEF Changed
      <4>2. table.keys[s] # k
        BY <2>2, <3>2
      <4> QED
        BY <1>1, <2>7, <2>9, <4>1, <4>2 DEF Holds
    <3> QED
      BY <3>1, <3>2
  <2>10. ASSUME NEW j \in DOMAIN c
         PROVE  \E s \in Slots : table'.keys[s] = j
    <3>1. CASE j = k
      BY <2>3, <2>6, <3>1 DEF Changed
    <3>2. CASE j # k
      <4>1. j \in DOMAIN content /\ j \in Keys
        BY <1>1, <2>7, <3>2 DEF Holds
      <4>2. PICK s \in Slots : table.keys[s] = j
        BY <1>1, <4>1 DEF Holds
      <4>3. table'.keys[s] = j
        BY <2>1, <2>3, <2>6, <3>2, <4>1, <4>2 DEF Changed
      <4> QED
        BY <4>3
    <3> QED
      BY <3>1, <3>2
  <2>11. Holds(table', c)
    BY <1>1, <2>7, <2>9, <2>10 DEF Holds
  <2> QED
    BY <1>1, <2>3, <2>5, <2>8, <2>11 DEF MapInv
<1> QED
  BY <1>2, <1>3

\* erase, of a key held or not.
LEMMA EraseKeeps == MapInv /\ Erase => MapInv'
<1> SUFFICES ASSUME MapInv, NEW k \in Keys,
                    table' = IF table.keys[ProbeEnd(table, k)] = k
                             THEN RehashFrom(ClearSlot(table, ProbeEnd(table, k)),
                                             ProbeEnd(table, k))
                             ELSE table,
                    content' = [j \in DOMAIN content \ {k} |-> content[j]],
                    UNCHANGED home
             PROVE  MapInv'
  BY DEF Erase
<1> DEFINE e == ProbeEnd(table, k)
           c == [j \in DOMAIN content \ {k} |-> content[j]]
<1>1. Homes /\ Tidy(table) /\ Reached(table) /\ Holds(table, content) /\ Homes'
  BY DEF MapInv, Homes
<1>2. PICK z \in Slots : table.keys[z] = NoKey
  BY <1>1, FreeSlot
<1>3. StopsAt(table, k, e) /\ e \in Slots /\ NoKey \notin Keys
  BY <1>1, <1>2, ProbeStops, MapAssumption DEF StopsAt
<1>4. DOMAIN c = DOMAIN content \ {k} /\ \A j \in DOMAIN c : c[j] = content[j]
  OBVIOUS
<1>5. content' = c
  OBVIOUS
<1> HIDE DEF e, c
<1>6. CASE table.keys[e] # k
  <2>1. table' = table
    BY <1>6 DEF e
  <2>2. \A s \in Slots : table.keys[s] # k
    BY <1>1, <1>3, <1>6, HeldIsReached DEF e
  <2>3. Holds(table, c)
    BY <1>1, <1>4, <2>2 DEF Holds
  <2>4. Reached(table)'
    BY <1>1, <2>1 DEF Reached, Hole
  <2> QED
    BY <1>1, <1>5, <2>1, <2>3, <2>4 DEF MapInv
<1>7. CASE table.keys[e] = k
  <2> DEFINE t == ClearSlot(table, e)
  <2>1. table' = RehashFrom(t, e)
    BY <1>7 DEF e
  <2>2. Changed(table, t, e, NoKey, NoValue) /\ Tidy(t)
    BY <1>1, <1>3, <1>7, ClearTidy
  <2> HIDE DEF t
  <2>3. \A s \in Slots : s # e => table.keys[s] # k
    BY <1>1, <1>3, <1>7 DEF Tidy
  <2>4. Holds(t, c)
    <3>1. ASSUME NEW s \in Slots, t.keys[s] # NoKey
          PROVE  t.keys[s] \in DOMAIN c /\ t.values[s] = c[t.keys[s]]
      <4>1. s # e /\ t.keys[s] = table.keys[s] /\ t.values[s] = table.values[s]
        BY <2>2, <3>1 DEF Changed
      <4> QED
        BY <1>1, <1>4, <2>3, <3>1, <4>1 DEF Holds
    <3>2. ASSUME NEW j \in DOMAIN c
          PROVE  \E s \in Slots : t.keys[s] = j
      <4>1. PICK s \in Slots : table.keys[s] = j
        BY <1>1, <1>4 DEF Holds
      <4>2. s # e
        BY <1>4, <1>7, <4>1
      <4> QED
        BY <2>2, <4>1, <4>2 DEF Changed
    <3> QED
      BY <1>1, <1>4, <3>1, <3>2 DEF Holds
  <2>5. ASSUME NEW s \in Slots, NEW x \in Slots, Hole(t, s, x)
        PROVE  Dist(e, x) <= 0 /\ Dist(e, s) > 0
    <3>1. s # e /\ t.keys[s] = table.keys[s] /\ table.keys[s] # NoKey
      BY <2>2, <2>5 DEF Hole, Changed
    <3>2. x = e
      <4> SUFFICES ASSUME x # e
                   PROVE  FALSE
        OBVIOUS
      <4>1. Hole(table, s, x)
        BY <2>2, <2>5, <3>1 DEF Hole, Changed
      <4> QED
        BY <1>1, <4>1 DEF Reached
    <3>3. Dist(e, e) = 0 /\ Dist(e, s) \in Nat /\ Dist(e, s) # Dist(e, e)
      <4>1. Capacity \in Nat \ {0} /\ e \in 0..(Capacity - 1)
        BY <1>3, MapAssumption DEF Slots
      <4>2. Dist(e, e) = 0
        BY <4>1 DEF Dist
      <4> QED
        BY <1>3, <3>1, <4>2, DistIs
    <3> QED
      BY <3>2, <3>3
  <2>6. z # e /\ Progress(t, c, e, z, 0)
    <3>1. z # e /\ t.keys[z] = NoKey
      BY <1>2, <1>3, <1>7, <2>2 DEF Changed
    <3> QED
      BY <2>2, <2>4, <2>5, <3>1 DEF Progress
  <2>7. Tidy(table') /\ Holds(table', c) /\ Reached(table')
    BY <1>1, <1>2, <1>3, <2>1, <2>6, RehashInOrder
  <2>8. Reached(table)'
    BY <2>7 DEF Reached, Hole
  <2> QED
    BY <1>1, <1>5, <2>7, <2>8 DEF MapInv
<1> QED
  BY <1>6, <1>7

\* Every step of the map.
LEMMA StepMapInv == MapInv /\ [Next]_vars => MapInv'
<1> SUFFICES ASSUME MapInv, [Next]_vars PROVE MapInv'
  OBVIOUS
<1>1. CASE Insert
  BY <1>1, InsertKeeps
<1>2. CASE Erase
  BY <1>2, EraseKeeps
<1>3. CASE Clear
  <2>1. Homes' /\ table' = EmptyTable /\ DOMAIN content' = {}
    BY <1>3 DEF Clear, MapInv, Homes
  <2>2. Tidy(table') /\ Reached(table') /\ Holds(table', content')
    BY <2>1, EmptyInOrder
  <2>3. Reached(table)'
    BY <1>3, <2>2 DEF Clear, Reached, Hole
  <2> QED
    BY <2>1, <2>2, <2>3 DEF MapInv
<1>4. CASE UNCHANGED vars
  BY <1>4 DEF vars, MapInv, Homes, Tidy, Reached, Hole, Holds, Occupied
<1> QED
  BY <1>1, <1>2, <1>3, <1>4 DEF Next

\* The map's promises follow from it.
LEMMA MapPromises == MapInv => TypeOK /\ FindExact /\ SizeExact
<1> SUFFICES ASSUME MapInv PROVE TypeOK /\ FindExact /\ SizeExact
  OBVIOUS
<1>1. TypeOK
  <2>1. table.size \in Nat /\ 4 * table.size < 3 * Capacity /\ Capacity \in Nat
    BY MapAssumption DEF MapInv, Tidy, Table
  <2> QED
    BY <2>1 DEF MapInv, Tidy, Table, TypeOK
<1>2. SizeExact
  BY SizeOfTable DEF MapInv, SizeExact
<1>3. \A k \in Keys : /\ ProbeEnd(table, k) # -1
                      /\ Find(table, k) = IF k \in DOMAIN content THEN content[k]
                                          ELSE NoValue
  BY FindInTable DEF MapInv
<1>4. ASSUME NEW k \in Keys
      PROVE  Cardinality({s \in Slots : table.keys[s] = k}) <= 1
  <2> DEFINE at == {s \in Slots : table.keys[s] = k}
  <2>1. \A r, s \in at : r = s
    BY MapAssumption DEF MapInv, Tidy
  <2>2. CASE at = {}
    BY <2>2, FS_EmptySet
  <2>3. CASE at # {}
    <3>1. PICK s \in at : TRUE
      BY <2>3
    <3>2. at = {s}
      BY <2>1
    <3> HIDE DEF at
    <3>3. Cardinality(at) = 1
      BY <3>2, FS_Singleton
    <3> QED
      BY <3>3 DEF at
  <2> QED
    BY <2>2, <2>3
<1> QED
  BY <1>1, <1>2, <1>3, <1>4 DEF FindExact

\* For every capacity, hash function, set of keys and sequence of calls find()
\* answers what insert and erase have put there, each key is held once, and no probe
\* goes round for ever.
THEOREM FindAlwaysExact == Spec => []FindExact
<1>1. MapInv => FindExact
  BY MapPromises
<1> QED
  BY <1>1, InitMapInv, StepMapInv, PTL DEF Spec

\* size() is the number of keys held, after any erasure.
THEOREM SizeAlwaysExact == Spec => []SizeExact
<1>1. MapInv => SizeExact
  BY MapPromises
<1> QED
  BY <1>1, InitMapInv, StepMapInv, PTL DEF Spec

\* Slots hold keys and values of their types and the count fits the table.
THEOREM MapTypeCorrect == Spec => []TypeOK
<1>1. MapInv => TypeOK
  BY MapPromises
<1> QED
  BY <1>1, InitMapInv, StepMapInv, PTL DEF Spec

=============================================================================
