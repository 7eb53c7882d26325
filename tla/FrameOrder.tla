------------------------------ MODULE FrameOrder ------------------------------
(***************************************************************************)
(* What a reader of one track is promised (the doc of Queue::push and of   *)
(* Queue::take in core/src/order.rs: packets leave in decode order).  The  *)
(* frames of the track leave one group after another, in the order of the  *)
(* groups; those of one group leave from its first on, in their order, and *)
(* each of them once.  A group may be left before its last frame, and      *)
(* groups may be left out, but what was passed never comes back.           *)
(***************************************************************************)
EXTENDS Integers, Sequences

CONSTANTS Group,   \* the group sequence numbers, a set of naturals
          Longest  \* the most frames a group has

VARIABLE out \* the frames that have left: pairs <<group, index from 1>>

Init == out = << >>

\* Where a next frame of group g would have to begin.
Begins(g) ==
  IF out = << >> \/ out[Len(out)][1] < g THEN 1
  ELSE IF out[Len(out)][1] = g THEN out[Len(out)][2] + 1
  ELSE Longest + 1

\* The next n frames of group g leave.
Leave(g, n) ==
  /\ Begins(g) + n - 1 <= Longest
  /\ out' = out \o [i \in 1 .. n |-> <<g, Begins(g) + i - 1>>]

Next == \E g \in Group, n \in 1 .. Longest : Leave(g, n)

Spec == Init /\ [][Next]_out
=============================================================================
