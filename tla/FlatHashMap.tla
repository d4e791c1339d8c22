---------------------------- MODULE FlatHashMap -----------------------------
(***************************************************************************)
(* The open-addressed, linear-probing map of                               *)
(* include/tradecore/orderbook/flat_hash_map.hpp: the order book's index   *)
(* from order id to pool slot.  The book's own module takes the map at its *)
(* meaning; here the probe chains, the deletion that re-inserts the rest of*)
(* a cluster, and the load limit are modelled as they are.                 *)
(*                                                                         *)
(* The hash of a key is arbitrary: Init chooses hash(key) & mask_ for every*)
(* key among HomeSlots.                                                    *)
(***************************************************************************)
EXTENDS Integers, FiniteSets, FiniteSetsExt

CONSTANTS
    Keys,       \* order ids, without kEmptyKey
    NoKey,      \* kEmptyKey
    Values,     \* pool indices, without kEmpty
    NoValue,    \* kEmpty
    Capacity,   \* capacity_, a power of two
    HomeSlots   \* slots the keys hash to

ASSUME MapAssumption ==
    /\ NoKey \notin Keys /\ NoValue \notin Values
    /\ Capacity \in Nat \ {0} /\ \E k \in 0..Capacity : Capacity = 2 ^ k
    /\ HomeSlots \subseteq 0..(Capacity - 1)

VARIABLES
    home,     \* hash(key) & mask_, fixed
    table,    \* [keys, values, size]
    content   \* history: the map the calls so far have built

vars == <<home, table, content>>

Slots == 0..(Capacity - 1)
At(n) == n % Capacity

EmptyTable == [keys |-> [s \in Slots |-> NoKey], values |-> [s \in Slots |-> NoValue],
               size |-> 0]

\* Where a probe for key k stops: the first slot from its home that holds k or
\* nothing; -1 if it would go round for ever.
ProbeEnd(t, k) ==
    LET stops == {d \in 0..(Capacity - 1) : t.keys[At(home[k] + d)] \in {NoKey, k}}
    IN  IF stops = {} THEN -1 ELSE At(home[k] + Min(stops))

Find(t, k) == IF ProbeEnd(t, k) = -1 THEN NoValue ELSE t.values[ProbeEnd(t, k)]

\* insert's refusal, at a load factor of 0.75.
Refuses(t) == 4 * (t.size + 1) >= 3 * Capacity

Store(t, s, k, v) ==
    [keys |-> [t.keys EXCEPT ![s] = k], values |-> [t.values EXCEPT ![s] = v],
     size |-> IF t.keys[s] = NoKey THEN t.size + 1 ELSE t.size]
Put(t, k, v) == IF Refuses(t) THEN t ELSE Store(t, ProbeEnd(t, k), k, v)

\* The count is not taken back, and the slot as erase leaves it.
ClearSlotKeepsSize(t, s) ==
    [t EXCEPT !.keys[s] = NoKey, !.values[s] = NoValue]
ClearSlot(t, s) ==
    [t EXCEPT !.keys[s] = NoKey, !.values[s] = NoValue, !.size = @ - 1]

\* The rest of the cluster stays where it is.
RehashFromNone(t, erased) == t

\* One entry after the other is taken out and inserted again, up to the first
\* empty slot.
RehashFrom(t, erased) ==
    LET at[n \in 0..Capacity] ==
            IF n = 0 THEN [t |-> t, done |-> FALSE]
            ELSE LET u == at[n - 1].t
                     s == At(erased + n)
                 IN  IF at[n - 1].done \/ u.keys[s] = NoKey
                     THEN [t |-> u, done |-> TRUE]
                     ELSE [t |-> Put(ClearSlot(u, s), u.keys[s], u.values[s]),
                           done |-> FALSE]
    IN  at[Capacity].t
-----------------------------------------------------------------------------
Init ==
    /\ home \in [Keys -> HomeSlots]
    /\ table = EmptyTable
    /\ content = [k \in {} |-> NoValue]

Insert ==
    \E k \in Keys, v \in Values :
        /\ table' = Put(table, k, v)
        /\ content' = IF Refuses(table) THEN content
                      ELSE [j \in DOMAIN content \cup {k} |->
                                IF j = k THEN v ELSE content[j]]
        /\ UNCHANGED home

Erase ==
    \E k \in Keys :
        LET s == ProbeEnd(table, k)
        IN  /\ s # -1
            /\ table' = IF table.keys[s] = k THEN RehashFrom(ClearSlot(table, s), s)
                        ELSE table
            /\ content' = [j \in DOMAIN content \ {k} |-> content[j]]
            /\ UNCHANGED home

Clear ==
    /\ table' = EmptyTable
    /\ content' = [k \in {} |-> NoValue]
    /\ UNCHANGED home

Next == Insert \/ Erase \/ Clear
Spec == Init /\ [][Next]_vars
-----------------------------------------------------------------------------
(* Correctness.                                                            *)

\* Slots hold keys and values of their types and the count fits the table.
TypeOK ==
    /\ table.keys \in [Slots -> Keys \cup {NoKey}]
    /\ table.values \in [Slots -> Values \cup {NoValue}]
    /\ table.size \in 0..Capacity

\* find answers for every key what the calls so far have put there, however
\* keys collide and whatever was erased from the middle of a cluster; no key is
\* held twice; and every probe loop ends, because a slot is empty.
FindExact ==
    /\ \A k \in Keys : ProbeEnd(table, k) # -1
    /\ \A k \in Keys : Find(table, k) =
            IF k \in DOMAIN content THEN content[k] ELSE NoValue
    /\ \A k \in Keys : Cardinality({s \in Slots : table.keys[s] = k}) <= 1

\* size() is the number of keys: the insertions rehash_from makes neither lose
\* an entry to the load limit nor count one twice.
SizeExact == table.size = Cardinality(DOMAIN content)
=============================================================================
