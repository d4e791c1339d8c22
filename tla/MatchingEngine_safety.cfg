\* Three ids, every order type; price 3 is above the fat-finger bound and outside
\* the dense price array, where only direct updates can ask for it; three orders
\* can need a third level, of two; level totals do not wrap.  No order meets the
\* limits on orders (_returns does).
SPECIFICATION MatchSpec
CONSTANTS
    OrderIds = {o1, o2, o3}
    Prices = {1, 2, 3}
    MaxQty = 2
    MaxOrders = 5
    MaxLevels = 2
    MaxTicks = 3
    QtyMod = 11
    MaxOrderQty = 2
    MinPrice = 0
    MaxPrice = 2
    MaxTrades = 2
SYMMETRY IdSymmetry
INVARIANTS PriceTimePriority FokNotStarved NotCrossed IteratorAtBestHead
           NoInternalFault ServesExactly
\* A failed assertion ends the process.
CHECK_DEADLOCK FALSE
