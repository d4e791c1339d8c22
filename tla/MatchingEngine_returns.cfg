\* Termination of match(), with a trade buffer that one sweep can overrun, in a
\* book that is full with two orders (the map refuses the third) or one level;
\* price 2 passes the risk check and is outside the dense price array.
SPECIFICATION MatchSpec
CONSTANTS
    OrderIds = {o1, o2, o3}
    Prices = {1, 2}
    MaxQty = 2
    MaxOrders = 4
    MaxLevels = 1
    MaxTicks = 2
    QtyMod = 7
    MaxOrderQty = 2
    MinPrice = 0
    MaxPrice = 2
    MaxTrades = 1
INVARIANTS EngineTypeOK ServesExactly
PROPERTY MatchReturns
CHECK_DEADLOCK FALSE
