------------------------------- MODULE PacerMC -------------------------------
(***************************************************************************)
(* Instances of Pacer for TLC.                                             *)
(***************************************************************************)
EXTENDS Pacer
=============================================================================
