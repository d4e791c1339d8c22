--------------------------- MODULE FlatPriceArray ---------------------------
(***************************************************************************)
(* The dense price array of include/tradecore/orderbook: an array is a     *)
(* record, find(), insert() and remove() are operators on it.  Nothing     *)
(* calls set_anchor, so that anchor and tick size stay as constructed.     *)
(* insert's and remove's assertion, that the price has a tick, is up to    *)
(* the caller.                                                             *)
(***************************************************************************)
EXTENDS Integers

CONSTANTS
    MaxTicks,
    kInvalidPoolIndex   \* no level, and no tick that holds one

Ticks == 0..(MaxTicks - 1)

NewArray == [level_indices |-> [t \in Ticks |-> kInvalidPoolIndex],
             anchor_price |-> 0, tick_size |-> 1, best_idx |-> kInvalidPoolIndex]

\* A price below the anchor has no tick, like one too far above it.
PriceToIndex(a, price) ==
    IF price < a.anchor_price THEN MaxTicks
    ELSE (price - a.anchor_price) \div a.tick_size

DenseFind(a, price) ==
    LET t == PriceToIndex(a, price)
    IN  IF t \in Ticks THEN a.level_indices[t] ELSE kInvalidPoolIndex

BestIndex(a) == IF a.best_idx = kInvalidPoolIndex THEN kInvalidPoolIndex
                ELSE a.level_indices[a.best_idx]
BestPrice(a) == IF a.best_idx = kInvalidPoolIndex THEN 0
                ELSE a.anchor_price + a.best_idx * a.tick_size

\* Higher is better, on both sides.
IsBetter(t, u) == t > u

UpdateBboInsert(a, t) ==
    IF a.best_idx = kInvalidPoolIndex \/ IsBetter(t, a.best_idx)
    THEN [a EXCEPT !.best_idx = t] ELSE a

DenseInsert(a, price, l) ==
    LET t == PriceToIndex(a, price)
    IN  UpdateBboInsert([a EXCEPT !.level_indices[t] = l], t)

\* The best among the ticks that hold a level.
BestTick(a) ==
    LET taken == {t \in Ticks : a.level_indices[t] # kInvalidPoolIndex}
    IN  IF taken = {} THEN kInvalidPoolIndex
        ELSE CHOOSE t \in taken : \A u \in taken : ~IsBetter(u, t)

UpdateBboRemove(a, t) ==
    IF t = a.best_idx THEN [a EXCEPT !.best_idx = BestTick(a)] ELSE a

\* The scan is made before the tick is cleared, and as it is: after.
DenseRemoveLate(a, price) ==
    LET t == PriceToIndex(a, price)
    IN  [UpdateBboRemove(a, t) EXCEPT !.level_indices[t] = kInvalidPoolIndex]

DenseRemove(a, price) ==
    LET t == PriceToIndex(a, price)
    IN  UpdateBboRemove([a EXCEPT !.level_indices[t] = kInvalidPoolIndex], t)
=============================================================================
