---------------------------- MODULE MCMPSCQueue -----------------------------
(* Instances of MPSCQueue for TLC; the .cfg files choose the constants.    *)
EXTENDS MPSCQueue
=============================================================================
