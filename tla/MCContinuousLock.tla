------------------------- MODULE MCContinuousLock -------------------------
(* Processes that start the continuous pipeline on one host, for TLC.       *)
EXTENDS ContinuousLock
CONSTANTS l1, l2, l3
=============================================================================
