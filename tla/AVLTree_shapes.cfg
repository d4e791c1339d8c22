\* Twelve levels: every AVL tree of up to twelve nodes, every single and double
\* rotation, and removals whose successor lies deep in the right subtree.
SPECIFICATION Spec
CONSTANTS
    Prices = {1, 2, 3, 4, 5, 6, 7, 8, 9, 10, 11, 12}
    MaxTicks = 13
    TotalQty <- MCTotalQty
INVARIANTS SearchExact BalancedExact LinksExact DenseBestExact
           ScanExact WalksExact
