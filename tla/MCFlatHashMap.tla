--------------------------- MODULE MCFlatHashMap ----------------------------
(* Instances of FlatHashMap for TLC; the .cfg files choose the constants.  *)
EXTENDS FlatHashMap, TLC

\* Keys are only compared for equality: Init takes every hash function.
KeySymmetry == Permutations(Keys)
=============================================================================
