\* A FOK order and liquidity beyond its price.
SPECIFICATION MatchSpec
CONSTANTS
    OrderIds = {o1, o2, o3}
    Prices = {1, 2}
    MaxQty = 2
    MaxOrders = 5
    MaxLevels = 2
    MaxTicks = 3
    QtyMod = 7
    MaxOrderQty = 2
    MinPrice = 1
    MaxPrice = 2
    MaxTrades = 2
INVARIANT FokAllOrNothing
CHECK_DEADLOCK FALSE
