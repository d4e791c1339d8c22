------------------------------ MODULE AVLTree -------------------------------
(***************************************************************************)
(* The AVL tree of include/tradecore/orderbook/avl_tree.hpp that holds the *)
(* levels of one book side, with its links, parents and heights.  The book *)
(* module takes the tree at its meaning, the set of its levels.            *)
(*                                                                         *)
(* A side has at most one level per price, so a node is named by its price.*)
(* Left and right are directions 0 and 1, and each pair of mirror-image    *)
(* branches of the code is one operator that takes the direction.  The     *)
(* statistics are left out.  BookSide keeps the dense array of             *)
(* FlatPriceArray beside the tree; so does this module.                    *)
(*                                                                         *)
(* The two readers that walk the tree recursively, LiquidityAnalyzer and   *)
(* BookDigest, are here too; a level's total is fixed by its price.        *)
(***************************************************************************)
EXTENDS Integers, Sequences, FiniteSets, FiniteSetsExt

CONSTANTS
    Prices,
    MaxTicks,     \* ticks of the dense array
    TotalQty(_)   \* total_qty of the level of a price
ASSUME PricesAssumption == MaxTicks \in Nat /\ Prices \subseteq 1..(MaxTicks - 1)

VARIABLES
    pool,      \* the AVLNode of every price's level
    avl_root,
    dense_levels,
    content    \* history: the prices inserted and not removed

vars == <<pool, avl_root, dense_levels, content>>

kInvalid == 0
INSTANCE FlatPriceArray WITH kInvalidPoolIndex <- kInvalid

Directions == {0, 1}
NoChildren == [d \in Directions |-> kInvalid]
\* create_level's node; a slot outside the tree holds it too, but for the
\* links that avl::remove may have left in it.
NewNode == [child |-> NoChildren, parent |-> kInvalid, height |-> 1]

\* What the code's functions leave behind: the pool and a subtree's new root.
Sub(p, root) == [pool |-> p, root |-> root]

Height(p, n) == IF n = kInvalid THEN 0 ELSE p[n].height
BalanceFactor(p, n) == Height(p, p[n].child[1]) - Height(p, p[n].child[0])
UpdateHeight(p, n) ==
    [p EXCEPT ![n].height = 1 + Max({Height(p, p[n].child[d]) : d \in Directions})]
SetParent(p, n, m) == IF n = kInvalid THEN p ELSE [p EXCEPT ![n].parent = m]

\* Subtree s becomes the child of n in direction d.
Attach(s, n, d) == SetParent([s.pool EXCEPT ![n].child[d] = s.root], s.root, n)

\* The subtree that changes sides keeps its old parent.
RotateKeepsParent(p, z, d) ==
    LET y == p[z].child[1 - d]
        q == [p EXCEPT ![z].child[1 - d] = p[y].child[d], ![z].parent = y,
                       ![y].child[d] = z, ![y].parent = p[z].parent]
    IN  Sub(UpdateHeight(UpdateHeight(q, z), y), y)

\* The subtree that changes sides is lost.
RotateDropsInner(p, z, d) ==
    LET y == p[z].child[1 - d]
        q == [p EXCEPT ![z].child[1 - d] = kInvalid, ![z].parent = y,
                       ![y].child[d] = z, ![y].parent = p[z].parent]
    IN  Sub(UpdateHeight(UpdateHeight(q, z), y), y)

\* rotate_left (d = 0) and rotate_right (d = 1): z goes down in direction d and
\* its other child y comes up.
Rotate(p, z, d) ==
    LET y == p[z].child[1 - d]
        q == [SetParent(p, p[y].child[d], z) EXCEPT
                ![z].child[1 - d] = p[y].child[d], ![z].parent = y,
                ![y].child[d] = z, ![y].parent = p[z].parent]
    IN  Sub(UpdateHeight(UpdateHeight(q, z), y), y)

\* Every imbalance is met with a single rotation.
RebalanceSingly(p, n) ==
    LET u == UpdateHeight(p, n)
        bal == BalanceFactor(u, n)
    IN  IF bal \in -1..1 THEN Sub(u, n) ELSE Rotate(u, n, IF bal < 0 THEN 1 ELSE 0)

\* A child that leans inwards is first rotated outwards.
Rebalance(p, n) ==
    LET u == UpdateHeight(p, n)
        bal == BalanceFactor(u, n)
        heavy == IF bal < 0 THEN 0 ELSE 1
        child == u[n].child[heavy]
        inwards == IF heavy = 0 THEN BalanceFactor(u, child) > 0
                   ELSE BalanceFactor(u, child) < 0
        v == IF inwards THEN Attach(Rotate(u, child, heavy), n, heavy) ELSE u
    IN  IF bal \in -1..1 THEN Sub(u, n) ELSE Rotate(v, n, 1 - heavy)

\* find_min (d = 0) and find_max (d = 1).
RECURSIVE FindEnd(_, _, _)
FindEnd(p, root, d) ==
    IF root = kInvalid THEN kInvalid
    ELSE IF p[root].child[d] = kInvalid THEN root ELSE FindEnd(p, p[root].child[d], d)

RECURSIVE Find(_, _, _)
Find(p, root, price) ==
    IF root = kInvalid \/ root = price THEN root
    ELSE Find(p, p[root].child[IF price < root THEN 0 ELSE 1], price)

RECURSIVE InsertNode(_, _, _)
InsertNode(p, root, new) ==
    LET d == IF new < root THEN 0 ELSE 1
        s == InsertNode(p, p[root].child[d], new)
    IN  IF root = kInvalid THEN Sub([p EXCEPT ![new] = NewNode], new)
        ELSE Rebalance(Attach(s, root, d), root)

\* The removed node's links are cleared.
Detach(p, n) == [p EXCEPT ![n].child = NoChildren]

RECURSIVE RemoveNode(_, _, _)
RemoveNode(p, root, target) ==
    LET links == p[root].child
        d == IF target < root THEN 0 ELSE 1
        below == RemoveNode(p, links[d], target)
        only == IF links[0] = kInvalid THEN links[1] ELSE links[0]
        succ == FindEnd(p, links[1], 0)
        right == RemoveNode(p, links[1], succ)
        spliced == [SetParent(SetParent(right.pool, links[0], succ), right.root, succ)
                        EXCEPT ![succ].child = [e \in Directions |->
                                    IF e = 0 THEN links[0] ELSE right.root],
                               ![succ].parent = p[root].parent]
    IN  CASE root = kInvalid -> Sub(p, kInvalid)
          [] root # kInvalid /\ target # root ->
                Rebalance(Attach(below, root, d), root)
          [] target = root /\ kInvalid \in {links[0], links[1]} ->
                Sub(Detach(SetParent(p, only, p[root].parent), root), only)
          [] OTHER ->
                Rebalance(Detach(spliced, root), succ)
-----------------------------------------------------------------------------
(* The readers.  Bids (side 0) are walked right to left, asks left to right. *)

Near(side) == 1 - side

\* What scan_tree returns, and what it leaves of its reference parameter.
Scanned(found, remaining) == [found |-> found, remaining |-> remaining]

\* The subtree behind the level is scanned for the quantity wanted before it.
RECURSIVE ScanTreeAfresh(_, _, _, _)
ScanTreeAfresh(p, n, side, remaining) ==
    LET near == ScanTreeAfresh(p, p[n].child[Near(side)], side, remaining)
        take == Min({TotalQty(n), near.remaining})
        far == ScanTreeAfresh(p, p[n].child[side], side, remaining)
    IN  IF n = kInvalid \/ remaining = 0 THEN Scanned(0, remaining)
        ELSE Scanned(near.found + take + far.found, far.remaining)

\* LiquidityAnalyzer::scan_tree: no further than until nothing remains.
RECURSIVE ScanTree(_, _, _, _)
ScanTree(p, n, side, remaining) ==
    LET near == ScanTree(p, p[n].child[Near(side)], side, remaining)
        take == Min({TotalQty(n), near.remaining})
        far == ScanTree(p, p[n].child[side], side, near.remaining - take)
    IN  IF n = kInvalid \/ remaining = 0 THEN Scanned(0, remaining)
        ELSE IF near.remaining = 0 THEN near
        ELSE IF near.remaining = take THEN Scanned(near.found + take, 0)
        ELSE Scanned(near.found + take + far.found, far.remaining)

HasLiquidity(side, qty) ==
    avl_root # kInvalid /\ ScanTree(pool, avl_root, side, qty).found >= qty

\* Both sides are met from the lowest price on.
RECURSIVE TraverseAscending(_, _, _)
TraverseAscending(p, n, side) ==
    IF n = kInvalid THEN << >>
    ELSE TraverseAscending(p, p[n].child[0], side) \o <<n>>
         \o TraverseAscending(p, p[n].child[1], side)

\* The levels as traverse_bids and traverse_asks of BookDigest meet them: the
\* digest hashes each level's fields in this order.
RECURSIVE Traverse(_, _, _)
Traverse(p, n, side) ==
    IF n = kInvalid THEN << >>
    ELSE Traverse(p, p[n].child[Near(side)], side) \o <<n>>
         \o Traverse(p, p[n].child[side], side)
-----------------------------------------------------------------------------
Init ==
    /\ pool = [n \in Prices |-> NewNode]
    /\ avl_root = kInvalid /\ dense_levels = NewArray
    /\ content = {}

\* insert_level: a level whose price find_by_price did not find.
Insert(n) ==
    LET s == InsertNode([pool EXCEPT ![n] = NewNode], avl_root, n)
    IN  /\ n \notin content
        /\ dense_levels' = DenseInsert(dense_levels, n, n)
        /\ pool' = s.pool /\ avl_root' = s.root
        /\ content' = content \cup {n}

\* remove_level, after which the slot goes back to its pool.
Remove(n) ==
    LET s == RemoveNode(pool, avl_root, n)
    IN  /\ n \in content
        /\ dense_levels' = DenseRemove(dense_levels, n)
        /\ pool' = [s.pool EXCEPT ![n].parent = kInvalid, ![n].height = 1]
        /\ avl_root' = s.root
        /\ content' = content \ {n}

Next == \E n \in Prices : Insert(n) \/ Remove(n)
Spec == Init /\ [][Next]_vars
-----------------------------------------------------------------------------
(* Correctness.                                                            *)

\* Links name nodes or nothing, heights are positive.
TypeOK ==
    /\ pool \in [Prices -> [child : [Directions -> Prices \cup {kInvalid}],
                            parent : Prices \cup {kInvalid}, height : Nat \ {0}]]
    /\ avl_root \in Prices \cup {kInvalid}
    /\ dense_levels.level_indices \in [Ticks -> Prices \cup {kInvalid}]
    /\ content \subseteq Prices

\* The tree is a search tree of exactly the levels inserted and not removed:
\* find reaches each of them and no other, find_min and find_max (the next best
\* ask and bid when the best level goes) reach the extremes.
SearchExact ==
    /\ \A n \in Prices :
            Find(pool, avl_root, n) = IF n \in content THEN n ELSE kInvalid
    /\ content # {} => /\ FindEnd(pool, avl_root, 0) = Min(content)
                       /\ FindEnd(pool, avl_root, 1) = Max(content)
    /\ content = {} => avl_root = kInvalid

\* No node is out of balance and every stored height is the real one (one more
\* than the higher child's), also on the path above a spliced-out successor:
\* searches stay logarithmic.
BalancedExact ==
    \A n \in content :
        /\ BalanceFactor(pool, n) \in -1..1
        /\ pool[n].height = 1 + Max({Height(pool, pool[n].child[d]) : d \in Directions})

\* Links and parents agree both ways, through rotations and splices: a node in
\* the tree is its children's parent, its parent's child, and the root has no
\* parent; a removed node keeps no links (destroy_level asserts it) and nothing
\* in the tree links to it.
LinksExact ==
    /\ \A n \in content :
        /\ \A d \in Directions : pool[n].child[d] # kInvalid =>
                pool[n].child[d] \in content /\ pool[pool[n].child[d]].parent = n
        /\ IF n = avl_root THEN pool[n].parent = kInvalid
           ELSE \E d \in Directions :
                    pool[n].parent # kInvalid /\ pool[pool[n].parent].child[d] = n
    /\ \A n \in Prices \ content : pool[n].child = NoChildren

\* The dense array and the linked tree never disagree: both paths of
\* find_by_price find the same level at every price, and the array's own best,
\* kept up on insertion and scanned for when the best tick is cleared, is the
\* highest level of the tree (the best bid; of asks, whose best nobody reads
\* there, the worst).
DenseBestExact ==
    /\ \A price \in Prices :
            DenseFind(dense_levels, price) = Find(pool, avl_root, price)
    /\ BestIndex(dense_levels) = FindEnd(pool, avl_root, 1)
    /\ BestPrice(dense_levels) = IF content = {} THEN 0 ELSE Max(content)

\* Liquidity is counted once and in full: whatever the shape of the tree, the
\* FOK pre-scan with its early stops finds the quantity asked for or all there
\* is, and never more, so that its sum of totals cannot wrap around.
ScanExact ==
    LET all == MapThenSumSet(TotalQty, content)
    IN  \A side \in {0, 1}, qty \in 1..(all + 1) :
            /\ ScanTree(pool, avl_root, side, qty).found = Min({all, qty})
            /\ HasLiquidity(side, qty) <=> all >= qty

\* Equal books have equal digests: the digest meets every level once, from the
\* best price on, whichever insertions and removals shaped the tree.
WalksExact ==
    \A side \in {0, 1} :
        LET walk == Traverse(pool, avl_root, side)
        IN  /\ {walk[i] : i \in DOMAIN walk} = content
            /\ \A i \in 1..(Len(walk) - 1) :
                    IF side = 0 THEN walk[i] > walk[i + 1] ELSE walk[i] < walk[i + 1]
=============================================================================
