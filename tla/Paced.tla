-------------------------------- MODULE Paced --------------------------------
(***************************************************************************)
(* A paced track as its user sees it: groups are cut, written, finished    *)
(* and put on the wire one behind the other, and the one in flight holds   *)
(* the next back until it settles.  `Pacer` implements this.               *)
(***************************************************************************)
EXTENDS Pace

VARIABLE pace

Init == pace = Idle

\* What the serving sessions and time do to the group in flight.
Settles ==
  /\ pace.flight \notin {"none", "past"}
  /\ \E flight \in Flight \ {"none"} : pace' = [pace EXCEPT !.flight = flight]

Next ==
  \/ \E subscribed \in BOOLEAN : pace' = Begun(pace, subscribed)
  \/ pace' = Shut(pace)
  \/ \E subscribed \in BOOLEAN : pace' = Looked(pace, subscribed)
  \/ Settles

Spec == Init /\ [][Next]_pace
=============================================================================
