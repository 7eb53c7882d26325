----------------------------- MODULE HoldQueueMC -----------------------------
(***************************************************************************)
(* Instances of HoldQueue for TLC.  A frame is told from no other here:    *)
(* what matters is how many there are.                                     *)
(***************************************************************************)
EXTENDS HoldQueue
=============================================================================
