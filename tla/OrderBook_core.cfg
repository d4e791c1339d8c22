\* Three orders over two sides and three prices, every kind of request.
SPECIFICATION Spec
CONSTANTS
    OrderIds = {o1, o2, o3}
    Prices = {1, 2, 3}
    MaxQty = 2
    MaxOrders = 5
    MaxLevels = 3
    MaxTicks = 4
    QtyMod = 3
SYMMETRY IdSymmetry
INVARIANTS TypeOK BboExact DenseExact LevelsExact OrdersAccounted LevelsAccounted
PROPERTY ImplementsLimitOrderBook
\* A failed assertion ends the process.
CHECK_DEADLOCK FALSE
