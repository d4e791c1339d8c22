---------------------------- MODULE MCSPSCQueue -----------------------------
(* Instances of SPSCQueue for TLC; the .cfg files choose the constants.    *)
EXTENDS SPSCQueue
=============================================================================
