-------------------------------- MODULE Track --------------------------------
(***************************************************************************)
(* One subscribed track, end to end: the publisher and the relay it is     *)
(* read through (external), the task that reads its subscription           *)
(* (read_groups in subscribe/src/module.rs, over FrameStream in            *)
(* core/src/subscribe.rs), the tasks that fetch single groups              *)
(* (fetch_group), and the reader's pull (take_in), which files what the    *)
(* tasks say in the track's hold and releases the hold.                    *)
(*                                                                         *)
(* The tasks and the pull share one thread, and the channel between them   *)
(* is a queue that is drained before anything is released.  A task's step  *)
(* is therefore modelled together with the handling of the word it sends   *)
(* (Reader::hold): sending earlier changes nothing, since nothing else     *)
(* reads the channel, and Reader::resume drops it whole.  The time between *)
(* two calls of the host is part of the state in which the pull files.     *)
(*                                                                         *)
(* A frame is its index in its group.  The relay is free to hand groups    *)
(* over in any order, never to hand one over, and to refuse a fetch.       *)
(***************************************************************************)
EXTENDS HoldQueue

CONSTANTS
  Keyed,      \* the groups a decoder can start at
  Retries,    \* TRACK_RETRIES
  MaxSessions \* bound: how many sessions are lost

ASSUME TrackAssumption ==
  /\ Frame = 1 .. MaxFrames
  /\ Keyed \subseteq Sequence
  /\ Retries \in Nat /\ MaxSessions \in Nat

VARIABLES
  edge,      \* the publisher's newest group
  size,      \* how many frames of each group it has written
  ended,     \* it finished the track
  sub,       \* the subscription: the live edge it began at, the groups of it
             \* that came, and the one being read with the frames read of it
  reader,    \* the reading task: "reading", "broken", "finished" or "lost"
  attempts,  \* how often the task has subscribed again
  sessions,  \* how many sessions were lost
  pull,      \* what the pull is doing: it "files" what the channel brings,
             \* "waits" for the wire, or releases: in the middle of a "burst",
             \* with "more" to come, the "last"; or the run is "over"
  produced,  \* it has packets to hand the host
  out,       \* history: the frames handed on
  lost,      \* history: the groups given up on as holes
  cut        \* history: the groups a stream broke in the middle of

remote == <<edge, size, ended>>
task   == <<sub, reader, attempts, sessions>>
host   == <<pull, produced>>
past   == <<out, lost, cut>>
all    == <<vars, remote, task, host, past>>

Listens == pull \in {"files", "waits"}

\* Both kinds of start are subscribed to here; a later subscription is
\* always at the live edge.
Subscription(from) == [from |-> from, came |-> {}, group |-> None, read |-> 0]

TrackInit ==
  /\ Init
  /\ edge \in Sequence \cap {0, 1}
  /\ size = [g \in Sequence |-> IF g < edge THEN MaxFrames ELSE 0]
  /\ ended = FALSE
  /\ sub = Subscription(IF start = "Live" THEN edge ELSE 0)
  /\ reader = "reading" /\ attempts = 0 /\ sessions = 0
  /\ pull = "files" /\ produced = FALSE
  /\ out = << >> /\ lost = {} /\ cut = {}

-----------------------------------------------------------------------------
(* The publisher, on the far side of the relay.                            *)

\* No frame of group g is still to come.
Closed(g) == g < edge \/ ended

Publish ==
  /\ Listens /\ ~ended
  /\ \/ /\ size[edge] < MaxFrames
        /\ size' = [size EXCEPT ![edge] = @ + 1]
        /\ UNCHANGED <<edge, ended>>
     \/ /\ edge < MaxSequence
        /\ edge' = edge + 1
        /\ UNCHANGED <<size, ended>>
     \/ ended' = TRUE /\ UNCHANGED <<edge, size>>
  /\ UNCHANGED <<vars, task, host, past>>

-----------------------------------------------------------------------------
(* The reading task, and the handling of what it says.                     *)

\* Mutant: the hold waits for the end of the burst.
FiledInBursts == pull' = "files" /\ UNCHANGED produced

\* A word was filed.  If the hold is full now it is released at once, but for
\* the one word a pull was waiting for, which is not looked at.
Filed ==
  /\ pull' = IF pull = "files" /\ pending_bytes' >= Budget THEN "burst" ELSE "files"
  /\ UNCHANGED produced

\* The stream hands the next group over, in the relay's own order.
ReceiveGroup ==
  /\ Listens /\ reader = "reading" /\ sub.group = None
  /\ \E g \in sub.from .. edge \ sub.came :
       sub' = [sub EXCEPT !.came = @ \cup {g}, !.group = g, !.read = 0]
  /\ UNCHANGED <<vars, remote, reader, attempts, sessions, host, past>>

\* One frame of it.
SubscriptionFrame ==
  /\ Listens /\ reader = "reading" /\ sub.group # None
  /\ sub.read < size[sub.group]
  /\ ReadFrame(sub.group, sub.read + 1, IF sub.group \in Keyed THEN "yes" ELSE "no")
  /\ sub' = [sub EXCEPT !.read = @ + 1]
  /\ Filed
  /\ UNCHANGED <<remote, reader, attempts, sessions, past>>

\* Its end; of a group without frames nothing is said.
SubscriptionEnd ==
  /\ Listens /\ reader = "reading" /\ sub.group # None
  /\ sub.read = size[sub.group] /\ Closed(sub.group)
  /\ IF sub.read > 0 THEN End(sub.group) /\ Filed ELSE UNCHANGED <<vars, host>>
  /\ sub' = [sub EXCEPT !.group = None]
  /\ UNCHANGED <<remote, reader, attempts, sessions, past>>

\* The publisher finished the track, and nothing more of it comes.
Finish ==
  /\ Listens /\ reader = "reading" /\ sub.group = None /\ ended
  /\ reader' = "finished"
  /\ UNCHANGED <<vars, remote, sub, attempts, sessions, past>>
  /\ Filed

\* The stream breaks, wherever it is.
Break ==
  /\ Listens /\ reader = "reading"
  /\ attempts' = attempts + 1
  /\ cut' = IF sub.group = None THEN cut ELSE cut \cup {sub.group}
  /\ UNCHANGED <<vars, remote, sub, sessions, out, lost>>
  /\ \/ attempts' <= Retries /\ reader' = "broken" /\ UNCHANGED host
     \/ attempts' > Retries /\ reader' = "lost" /\ Filed

\* The task subscribes again, at the live edge, or cannot.
Resubscribe ==
  /\ Listens /\ reader = "broken"
  /\ \/ Restart /\ reader' = "reading" /\ sub' = Subscription(edge)
     \/ reader' = "lost" /\ UNCHANGED <<vars, sub>>
  /\ Filed
  /\ UNCHANGED <<remote, attempts, sessions, past>>

\* The session ended, or a track on it was lost, and a new one took the
\* tracks up at the live edge; what the old one's tasks say is not read.
Resume ==
  /\ Listens /\ sessions < MaxSessions
  /\ TakenUpAgain
  /\ fetching' = None /\ asks' = [s \in Sequence |-> 0]
  /\ reader' = "reading" /\ attempts' = 0 /\ sub' = Subscription(edge)
  /\ sessions' = sessions + 1
  /\ cut' = IF reader = "reading" /\ sub.group # None THEN cut \cup {sub.group} ELSE cut
  /\ pull' = "files"
  /\ UNCHANGED <<remote, produced, out, lost>>

\* A fetch is answered with the whole group, or refused.
Answer ==
  /\ Listens
  /\ \E g \in Sequence :
       \/ /\ g <= edge /\ Closed(g)
          /\ Push(g, [i \in 1 .. size[g] |-> i],
                  IF g \in Keyed /\ size[g] > 0 THEN "yes" ELSE "no")
       \/ Refused(g)
  /\ Filed
  /\ UNCHANGED <<remote, task, past>>

-----------------------------------------------------------------------------
(* The pull.                                                               *)

\* Every track has finished and none waits for an answer.
Over == reader = "finished" /\ fetching = None

\* The channel is empty, or a tick of the wait has passed.  A lost track is for
\* a new session to mend first.
StartRelease ==
  /\ Listens /\ reader # "lost"
  /\ pull' = IF Over THEN "last" ELSE "more"
  /\ UNCHANGED <<vars, remote, task, produced, past>>

Releases == pull \in {"burst", "more", "last"}

\* The group the next take is about.
Turn == IF cursor = None /\ start = "Live" /\ join_ready # None
        THEN join_ready ELSE Min(DOMAIN pending)

\* A frame becomes packets if a decoder can start at it.  Others may not: a
\* fragment may have no sample of the track, and a picture is absorbed until a
\* sync sample has been.
Produces(g, frames, packets) ==
  IF \E i \in DOMAIN frames : frames[i] = 1 /\ g \in Keyed THEN packets
  ELSE packets => frames # << >>

\* A take that hands frames on, or a group's end: the loop takes again.
Release ==
  /\ Releases /\ DOMAIN pending # {}
  /\ Take(pull = "last")
  /\ pending' # pending
  /\ out' = out \o [i \in DOMAIN pending[Turn].frames |-> <<Turn, pending[Turn].frames[i]>>]
  /\ \E packets \in BOOLEAN :
       Produces(Turn, pending[Turn].frames, packets) /\ produced' = (produced \/ packets)
  /\ lost' = IF cursor = None THEN lost ELSE lost \cup (cursor .. Turn - 1)
  /\ UNCHANGED <<remote, task, pull, cut>>

\* A take that hands nothing on.  In a burst the pull goes on filing; else it
\* returns with its packets, and the host calls again, or the run is over, or
\* it waits for the wire.
ReleaseEnds ==
  /\ Releases
  /\ \/ Unjoined(pull = "last") /\ UNCHANGED vars
     \/ ~Unjoined(pull = "last") /\ Take(pull = "last") /\ pending' = pending
  /\ UNCHANGED <<remote, task, past>>
  /\ \/ pull = "burst" /\ pull' = "files" /\ UNCHANGED produced
     \/ pull # "burst" /\ produced /\ pull' = "files" /\ produced' = FALSE
     \/ /\ pull # "burst" /\ ~produced
        /\ pull' = IF Over' THEN "over" ELSE "waits"
        /\ UNCHANGED produced

Clock == Listens /\ Tick /\ UNCHANGED <<remote, task, host, past>>

TrackNext ==
  \/ Publish
  \/ ReceiveGroup \/ SubscriptionFrame \/ SubscriptionEnd \/ Finish
  \/ Break \/ Resubscribe \/ Resume
  \/ Answer
  \/ StartRelease \/ Release \/ ReleaseEnds
  \/ Clock

TrackSpec == TrackInit /\ [][TrackNext]_all

ReadingTask == SubscriptionFrame \/ SubscriptionEnd \/ Finish \/ Resubscribe
Pulling     == StartRelease \/ Release \/ ReleaseEnds

\* A pull that waits for the wire looks at the holds again at each tick; while
\* it waits, the executor runs the tasks that are ready; a fetch is answered, a
\* timeout being a refusal; and time passes.  Nothing makes the publisher write,
\* the relay hand a group over, or a stream break.  A task that subscribes again
\* waits for the relay with no timeout (module.rs 1615), and the end of a track is
\* the relay's to hand on: the fairness of ReadingTask has it do both, so no liveness
\* property below sees a reader that waits there for good.
TrackFair ==
  /\ TrackSpec
  /\ WF_all(Pulling) /\ SF_all(ReadingTask) /\ SF_all(Answer) /\ SF_all(Clock)

-----------------------------------------------------------------------------

\* The frames leave in decode order, each once and from its group's first.
Order == INSTANCE FrameOrder WITH Group <- Sequence, Longest <- MaxFrames
DecodeOrder == Order!Spec

First == IF out = << >> THEN MaxSequence + 1 ELSE out[1][1]

\* Group g went out from its first frame to its last.
Whole(g) == /\ Closed(g)
            /\ \A i \in 1 .. size[g] : \E n \in 1 .. Len(out) : out[n] = <<g, i>>

\* What was passed went out whole, but for a group that was given up on as a
\* hole and one a broken subscription was in the middle of.
WholeUnlessCut ==
  cursor # None =>
    \A g \in First .. cursor - 1 :
      \/ g \in lost \cup cut
      \/ Whole(g)

\* The group at the cursor is here and more of it is to come: its frames are handed
\* on as they arrive, and the budget is not looked at before the cursor is past it.
AtOpenGroup ==
  cursor # None /\ cursor \in DOMAIN pending /\ ~pending[cursor].complete

\* A track read from its backlog is under its budget whenever the pull waits, and
\* while it files over it by no more than the one word the pull was waiting for.  One
\* joined live is over it, once it has joined, only while the group at the cursor is
\* being read: what was held above that group at the join stays, and may grow.
BudgetHeld ==
  /\ start = "Backlog" =>
       /\ pull = "waits" => pending_bytes < Budget
       /\ pull = "files" => pending_bytes < Budget + MaxFrames
  /\ start = "Live" /\ cursor # None /\ pull = "waits" =>
       pending_bytes < Budget \/ AtOpenGroup

\* Once the publisher has finished the track, and unless it is lost on its
\* session, everything held goes out and the run is over.
Drains == ended ~> reader = "lost" \/ pull = "over"

-----------------------------------------------------------------------------
(* What the comments say and the code does not keep to: each of these is   *)
(* refuted by a run of its own.                                            *)

\* core/src/order.rs:80 and :300: a hole given up on because the track was taken
\* up again is one the new subscription, which started at the live edge, began
\* above.
RestartHolesAreGone ==
  [][counters'.holes_abandoned["restart"] > counters.holes_abandoned["restart"] =>
       \A g \in lost' \ lost : g < sub.from]_all

\* subscribe/src/module.rs:772: the run is only over, and what is held let out
\* whatever the sequence says, when no fetch for a missing group is outstanding.
OverIsAnswered == pull = "last" /\ AtHole => asks[cursor] = 0

\* subscribe/src/module.rs:722 and README.md:443: the budget is the memory a
\* track's hold may use, and it is held to as a burst fills it.
BudgetIsKept == pull = "waits" => pending_bytes < Budget

\* subscribe/src/module.rs:751: when a pull says that the run is over, whatever
\* was held has just gone out.
HeldHasGoneOut == pull = "over" => pending_bytes = 0
=============================================================================
