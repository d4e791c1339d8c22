----------------------------- MODULE MCOrderBook ----------------------------
(* Instances of OrderBook for TLC; the .cfg files choose the constants.    *)
EXTENDS OrderBook, TLC

\* Order ids are only compared for equality.
IdSymmetry == Permutations(OrderIds)
=============================================================================
