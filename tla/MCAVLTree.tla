------------------------------ MODULE MCAVLTree -----------------------------
(* Instances of AVLTree for TLC; the .cfg files choose the prices.         *)
EXTENDS AVLTree

\* Levels of one and of two, so that a scan can end within a level.
MCTotalQty(price) == 1 + (price % 2)
=============================================================================
