------------------------------- MODULE TrackMC -------------------------------
(***************************************************************************)
(* Instances of Track for TLC.                                             *)
(***************************************************************************)
EXTENDS Track

MCFrame == 1 .. MaxFrames

\* The counters are written and, but for the bound MaxReceived, which these
\* instances never reach, not read: states that differ in them alone are one.
View == <<start, pending, pending_bytes, cursor, joining, hole, fetched, passing, asks,
          remote, task, host, past>>
=============================================================================
