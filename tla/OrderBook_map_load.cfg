\* Three legal orders in a book built for four.
SPECIFICATION Spec
CONSTANTS
    OrderIds = {o1, o2, o3}
    Prices = {1, 2}
    MaxQty = 1
    MaxOrders = 4
    MaxLevels = 2
    MaxTicks = 3
    QtyMod = 2
INVARIANT MapSizedForPool
CHECK_DEADLOCK FALSE
