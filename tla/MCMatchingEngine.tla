-------------------------- MODULE MCMatchingEngine --------------------------
(* Instances of MatchingEngine for TLC; the .cfg files choose the constants. *)
EXTENDS MatchingEngine, TLC

\* Order ids are only compared for equality.
IdSymmetry == Permutations(OrderIds)
=============================================================================
