-------------------------------- MODULE Pacer --------------------------------
(***************************************************************************)
(* One published track's way onto the wire: core/src/delivery.rs, `Pacer`. *)
(*                                                                         *)
(* A track's groups leave one at a time.  A group cut while the one before *)
(* it is still on its way waits in the queue, and each look at the queue   *)
(* lets out what has become free, oldest first; frames written meanwhile   *)
(* join the newest group, queued or on the wire.                           *)
(*                                                                         *)
(* An open component: Rendition in publish/src/module.rs cuts groups and   *)
(* writes frames, and looks at the queue, in any order.  The sessions that *)
(* serve the track (external) take the newest group on the wire and let go *)
(* of it when they like; what they do with older ones the pacer never      *)
(* asks.                                                                   *)
(*                                                                         *)
(* Abstractions.  A frame is counted, not kept.  The instant a group was   *)
(* finished at is its age, cut at DeliverMax.  Of the statistics, unpaced  *)
(* is kept for the run; queue_max, wait_max and the window are left out.   *)
(* An error of the track (append_group, write_frame) ends the run.         *)
(***************************************************************************)
EXTENDS Integers, Sequences, FiniteSets, FiniteSetsExt

CONSTANTS
  None,       \* Rust's None
  Spacing,    \* SPACING, in ticks
  TakeMax,    \* TAKE_MAX, in ticks
  DeliverMax, \* DELIVER_MAX, in ticks
  QueueMax,   \* QUEUE_MAX
  MaxGroups,  \* bound: how many groups are cut
  MaxFrames   \* bound: how many frames a group has

ASSUME PacerAssumption ==
  /\ Spacing \in Nat \ {0} /\ TakeMax \in Nat \ {0} /\ DeliverMax \in Nat \ {0}
  /\ Spacing <= DeliverMax /\ TakeMax <= DeliverMax
  /\ QueueMax \in Nat
  /\ MaxGroups \in Nat /\ MaxFrames \in Nat
  /\ None \notin [finished : Nat, held : BOOLEAN]

VARIABLES
  group_open, \* Rendition::group_open: a group is being written
  queue,      \* the groups held back
  wire,       \* the groups on the wire
  open,       \* the newest of them is still being written there
  last,       \* the last one finished: how long ago, and whether a serving
              \* task has been seen holding it
  use,        \* what the sessions do with the newest group on the wire
  unpaced,    \* groups let go before the one ahead was known delivered
  written,    \* history: the frames written into each group that was cut
  early       \* history: groups let go before the one ahead was delivered

vars == <<group_open, queue, wire, open, last, use, unpaced, written, early>>

Group    == [frames : Nat, closed : BOOLEAN]
InFlight == [finished : Nat, held : BOOLEAN]
Use      == {"untaken", "held", "free", "gone"}

Init ==
  /\ group_open = FALSE
  /\ queue = << >> /\ wire = << >>
  /\ open = FALSE /\ last = None
  /\ use = "free"
  /\ unpaced = 0
  /\ written = << >> /\ early = 0

-----------------------------------------------------------------------------
(* The newest group is finished (close).                                   *)

\* Mutant: a group just finished is taken for one a session holds.
FlightHeld == [finished |-> 0, held |-> TRUE]

\* A group just finished, looked at once.
Flight == [finished |-> 0, held |-> use = "held"]

ClosedQueue ==
  IF queue = << >> THEN queue ELSE [queue EXCEPT ![Len(queue)].closed = TRUE]

\* The group on the wire is the newest one.
OnWire == queue = << >> /\ open

ClosedWire == IF OnWire THEN [wire EXCEPT ![Len(wire)].closed = TRUE] ELSE wire

ClosedLast == IF OnWire THEN Flight ELSE last

-----------------------------------------------------------------------------
(* What may go now (release).                                              *)

\* Mutant: a group that is held for good holds the next one back for good.
SettledNever(flight) ==
  IF \/ use = "gone"
     \/ /\ use # "held" /\ (flight.held \/ flight.finished >= TakeMax)
        /\ flight.finished >= Spacing
  THEN "paced" ELSE "no"

\* Whether the next group may go: this one was delivered, or is not served,
\* and the spacing has passed; or it has taken too long; or not yet.
Settled(flight) ==
  IF \/ use = "gone"
     \/ /\ use # "held" /\ (flight.held \/ flight.finished >= TakeMax)
        /\ flight.finished >= Spacing
  THEN "paced"
  ELSE IF flight.finished >= DeliverMax THEN "late" ELSE "no"

\* Nothing is held back without a subscriber.
Verdict(flight, subscribed) ==
  IF flight = None \/ ~subscribed THEN "paced" ELSE Settled(flight)

\* Mutant: one more than the most is let be.
OverByOne(q) == IF Len(q) > QueueMax + 1 THEN Len(q) - QueueMax - 1 ELSE 0

\* How many groups the queue has too many.
Over(q) == IF Len(q) > QueueMax THEN Len(q) - QueueMax ELSE 0

\* How many groups of the queue q go: all of them when nobody is subscribed.
\* Otherwise the first may go, on what is known of the one in flight; the one
\* behind it would follow a group nobody has taken yet, finished now.
Going(q, flight, subscribed) ==
  IF ~subscribed THEN Len(q)
  ELSE IF q # << >> /\ Verdict(flight, subscribed) # "no" THEN Max({1, Over(q)})
  ELSE Over(q)

\* How many of the n groups that go do so unpaced.
Unpaced(n, verdict, subscribed) ==
  IF ~subscribed \/ n = 0 THEN 0
  ELSE IF verdict = "paced" THEN n - 1 ELSE n

\* How many of them really go too early: a session holds the one ahead, or has
\* not had the time to take it, or it was only just finished.
Early(n, flight, subscribed) ==
  IF ~subscribed \/ n = 0 THEN 0
  ELSE IF /\ flight # None /\ use # "gone"
          /\ \/ use = "held"
             \/ use = "untaken" /\ flight.finished < TakeMax
             \/ flight.finished < Spacing
       THEN n ELSE n - 1

\* Mutant: the group that went out is over, finished or not.
NeverLive(group) == FALSE

\* Frames go on being written into a group that went out unfinished.
Live(group) == ~group.closed

\* Mutant: a held group goes out without the frames held for it.
OutEmpty(group) == [group EXCEPT !.frames = 0]

\* A held group goes out with the frames held for it.
Out(group) == group

\* The queue q goes out as far as it may, onto the wire w, behind flight.
LetOut(q, w, flight, subscribed) ==
  LET n == Going(q, flight, subscribed)
  IN  /\ queue' = SubSeq(q, n + 1, Len(q))
      /\ wire' = w \o [i \in 1 .. n |-> Out(q[i])]
      /\ unpaced' = unpaced + Unpaced(n, Verdict(flight, subscribed), subscribed)
      /\ early' = early + Early(n, flight, subscribed)
      /\ \/ /\ n = 0
            /\ last' = IF q # << >> /\ flight # None
                       THEN [flight EXCEPT !.held = @ \/ use = "held"] ELSE flight
            /\ UNCHANGED use
         \/ /\ n > 0
            /\ last' = IF q[n].closed THEN [finished |-> 0, held |-> FALSE] ELSE None
            /\ use' = "untaken"
      /\ open' = IF n > 0 THEN Live(q[n]) ELSE open /\ w = wire

-----------------------------------------------------------------------------
(* The operations.                                                         *)

\* A new group is cut: the one before it is finished.
Open(subscribed) ==
  /\ Len(written) < MaxGroups
  /\ LetOut(Append(ClosedQueue, [frames |-> 0, closed |-> FALSE]),
            ClosedWire, ClosedLast, subscribed)
  /\ written' = Append(written, 0)
  /\ group_open' = TRUE

\* One frame into the newest group.
Write ==
  /\ group_open
  /\ written[Len(written)] < MaxFrames
  /\ written' = [written EXCEPT ![Len(written)] = @ + 1]
  /\ IF queue # << >>
     THEN queue' = [queue EXCEPT ![Len(queue)].frames = @ + 1] /\ UNCHANGED wire
     ELSE wire' = [wire EXCEPT ![Len(wire)].frames = @ + 1] /\ UNCHANGED queue
  /\ UNCHANGED <<group_open, open, last, use, unpaced, early>>

\* The newest group is finished.
Close ==
  /\ group_open
  /\ group_open' = FALSE
  /\ queue' = ClosedQueue /\ wire' = ClosedWire /\ last' = ClosedLast
  /\ open' = (open /\ queue # << >>)
  /\ UNCHANGED <<use, unpaced, written, early>>

\* A look at the queue.
Release(subscribed) ==
  /\ LetOut(queue, wire, last, subscribed)
  /\ UNCHANGED <<group_open, written>>

\* A look at the group in flight, between two turns of the session.
Watch ==
  /\ last # None
  /\ last' = [last EXCEPT !.held = @ \/ use = "held"]
  /\ UNCHANGED <<group_open, queue, wire, open, use, unpaced, written, early>>

\* The sessions: one takes the newest group; all are done with it, having
\* delivered it or gone; it is aborted after its end.
Serve ==
  /\ wire # << >>
  /\ \/ use \in {"untaken", "free"} /\ use' = "held"
     \/ use = "held" /\ use' = "free"
     \/ last # None /\ use # "gone" /\ use' = "gone"
  /\ UNCHANGED <<group_open, queue, wire, open, last, unpaced, written, early>>

\* Time passes.
Tick ==
  /\ last # None /\ last.finished < DeliverMax
  /\ last' = [last EXCEPT !.finished = @ + 1]
  /\ UNCHANGED <<group_open, queue, wire, open, use, unpaced, written, early>>

Next ==
  \/ \E subscribed \in BOOLEAN : Open(subscribed)
  \/ Write
  \/ Close
  \/ \E subscribed \in BOOLEAN : Release(subscribed)
  \/ Watch
  \/ Serve
  \/ Tick

Spec == Init /\ [][Next]_vars

\* The publisher looks at its queues on every turn and time passes.  A look with
\* nobody subscribed empties the queue, so it is enough to ask for the looks
\* with a subscriber.  Nothing is asked of the sessions.
FairSpec ==
  /\ Spec
  /\ WF_vars(Release(TRUE))
  /\ WF_vars(Tick)

-----------------------------------------------------------------------------
(* What the pacer promises.                                                *)

\* Every variable keeps to its type.
TypeOK ==
  /\ group_open \in BOOLEAN /\ open \in BOOLEAN
  /\ queue \in Seq(Group) /\ wire \in Seq(Group)
  /\ last \in InFlight \cup {None}
  /\ use \in Use
  /\ unpaced \in Nat /\ early \in Nat
  /\ written \in Seq(Nat)

\* The wire and then the queue are the groups that were cut, in order, each
\* with the frames written into it and no other.
InOrder ==
  LET all == wire \o queue
  IN  /\ Len(all) = Len(written)
      /\ \A g \in 1 .. Len(all) : all[g].frames = written[g]

\* A group that is being written has a place, the newest one, and every other
\* group is finished: a frame is never written with no group open, and the
\* group on the wire is written only while nothing is held behind it.
OneIsOpen ==
  LET all == wire \o queue
  IN  /\ \A g \in 1 .. Len(all) : all[g].closed <=> ~(group_open /\ g = Len(all))
      /\ group_open => all # << >>
      /\ open <=> wire # << >> /\ ~wire[Len(wire)].closed

\* The wire only grows: at its end, and only once what is there is finished.
Grows ==
  /\ Len(wire') >= Len(wire)
  /\ \A g \in 1 .. Len(wire) :
       wire[g].closed \/ g < Len(wire) => wire'[g] = wire[g]
  /\ Len(wire') > Len(wire) /\ wire # << >> => wire'[Len(wire)].closed

\* What is on the wire is never taken back or changed, but for the newest group
\* while it is written, and a group goes out only once the one ahead is finished.
WireGrows == [][Grows]_wire

\* The doc of Stats::unpaced: each group a relay that keeps only the newest
\* could have lost is counted, whatever was seen of the group ahead and when.
EarlyIsCounted == early <= unpaced

\* No call leaves more than QUEUE_MAX groups held back.
QueueBounded == Len(queue) <= QueueMax

\* A group that was cut goes out, though a session hold the one ahead for good.
AllLeave == \A g \in 1 .. MaxGroups : Len(written) >= g ~> Len(wire) >= g

\* A track's user sees a paced track: how many groups were cut and are out, one
\* being written, and a group in flight that holds the next back or lets it go.
AsPaced ==
  INSTANCE Paced WITH
    Most <- QueueMax,
    pace <- [cut |-> Len(written), out |-> Len(wire), open |-> group_open,
             flight |-> IF last = None THEN "none"
                        ELSE IF use = "gone" \/ last.finished = DeliverMax THEN "past"
                        ELSE IF Settled(last) = "no" THEN "going" ELSE "settled"]

\* Every operation does to the queue what the session that drives it counts on.
ImplementsPaced == AsPaced!Spec
=============================================================================
