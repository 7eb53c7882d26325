------------------------------ MODULE PictureMC ------------------------------
(***************************************************************************)
(* Instances of Picture for TLC.                                           *)
(***************************************************************************)
EXTENDS Picture

MCFrame == 1 .. MaxFrames

\* As in TrackMC, states that differ in the counters alone are one.
View == <<start, pending, pending_bytes, cursor, joining, hole, fetched, passing, asks,
          remote, task, host, past, pictured>>
=============================================================================
