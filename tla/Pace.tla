-------------------------------- MODULE Pace ---------------------------------
(***************************************************************************)
(* What the publisher's session relies on of a track's `Pacer`             *)
(* (core/src/delivery.rs), as operations on one record: how many groups    *)
(* were cut and how many of them are on the wire, whether the newest is    *)
(* still being written, and what the one in flight lets the next one do.   *)
(* `Paced` makes it a specification, which `Pacer` implements.             *)
(***************************************************************************)
EXTENDS Integers

CONSTANT Most \* QUEUE_MAX

ASSUME MostAssumption == Most \in Nat

\* There is none; it holds the next one back; it lets the next one go, unless a
\* session takes it after all; it lets the next one go, whatever happens to it.
Flight == {"none", "going", "settled", "past"}

PaceType == [cut : Nat, out : Nat, open : BOOLEAN, flight : Flight]

\* A pacer of a new track.
Idle == [cut |-> 0, out |-> 0, open |-> FALSE, flight |-> "none"]

\* The groups held back.
Queued(p) == p.cut - p.out

\* Held back over and above what the queue may hold.
Excess(p) == IF Queued(p) > Most THEN Queued(p) - Most ELSE 0

\* Mutant: one goes, whether there is one or not.
LeavingOne(p, subscribed) == IF p.flight = "going" THEN Excess(p) ELSE 1

\* Mutant: nobody asks whether the one in flight has settled.
LeavingExcess(p, subscribed) == IF subscribed THEN Excess(p) ELSE Queued(p)

\* How many go: all of them to nobody; behind one that is on its way what is
\* too many; else one, and what is too many.
Leaving(p, subscribed) ==
  IF ~subscribed THEN Queued(p)
  ELSE IF p.flight = "going" \/ Excess(p) > 0 \/ Queued(p) = 0 THEN Excess(p)
  ELSE 1

\* The newest group is finished.
Shut(p) ==
  [p EXCEPT !.open = FALSE,
            !.flight = IF p.open /\ Queued(p) = 0 THEN "going" ELSE @]

\* A look at the queue.
Looked(p, subscribed) ==
  LET out == p.out + Leaving(p, subscribed)
  IN  IF out = p.out THEN p
      ELSE [p EXCEPT !.out = out,
                     !.flight = IF p.open /\ out = p.cut THEN "none" ELSE "going"]

\* A new group is cut, which finishes the one before.
Begun(p, subscribed) ==
  Looked([Shut(p) EXCEPT !.cut = @ + 1, !.open = TRUE], subscribed)
=============================================================================
