------------------------------- MODULE Picture -------------------------------
(***************************************************************************)
(* What of a video track reaches the pad: the gate that lets nothing by    *)
(* before a first sync sample (Join in core/src/group.rs), the decode      *)
(* times of a legacy track (Order in core/src/legacy.rs), and what taking  *)
(* the track up again does to both (Rendition::restart in                  *)
(* subscribe/src/module.rs), on top of the track's hold (Track).           *)
(*                                                                         *)
(* The gate is the last thing a frame passes and the first that is reset:  *)
(* a restart closes it while groups of the old subscription are still      *)
(* held, and these come to it after the restart and before the gap.        *)
(*                                                                         *)
(* A frame is one sample, and a sync sample just if it is the first of a   *)
(* group in Keyed.  Its pts grows from frame to frame and from group to    *)
(* group: the publisher's encoder does not reorder.  An audio track's gate *)
(* is always open.                                                         *)
(***************************************************************************)
EXTENDS Track

VARIABLES
  started,  \* Join: a sync sample has been, and everything goes on
  last_pts, \* Order: the pts of the last sample handed on, None before one
  refused,  \* Order refused a sample: the pull failed, and the run with it
  absorbed, \* history: the frames the gate kept back
  mark      \* history: how many frames had gone out when the track was last
            \* taken up, and whether it was taken up again

gate      == <<started, last_pts>>
pictured  == <<gate, refused, absorbed, mark>>
pictures  == <<all, pictured>>

PictureInit ==
  /\ TrackInit
  /\ started = FALSE /\ last_pts = None /\ refused = FALSE
  /\ absorbed = {} /\ mark = [at |-> 0, again |-> FALSE]

Sync(frame) == frame[2] = 1 /\ frame[1] \in Keyed
Pts(frame)  == frame[1] * MaxFrames + frame[2]

-----------------------------------------------------------------------------

\* Mutant: each fragment waits for a sync sample of its own.
OfItsOwn(frames, n) == \E i \in 1 .. n : Sync(frames[i])

\* Whether the gate lets the n-th of the frames by: a sync sample has been.
Admits(frames, n) == started \/ \E i \in 1 .. n : Sync(frames[i])

\* The frames that go on to the pad.
Playable(frames) ==
  LET on == {n \in DOMAIN frames : Admits(frames, n)}
  IN  IF on = {} THEN << >> ELSE SubSeq(frames, Min(on), Len(frames))

\* A frame's pts is its decode time as long as each is above the last.
Rises(last, frames) ==
  \A n \in DOMAIN frames :
    LET before == IF n = 1 THEN last ELSE Pts(frames[n - 1])
    IN  before # None => Pts(frames[n]) > before

\* What a release hands on reaches the pad, or fails the pull.
Show ==
  LET leaving == SubSeq(out', Len(out) + 1, Len(out'))
      shown   == Playable(leaving)
  IN  /\ started' = (started \/ \E n \in DOMAIN leaving : Admits(leaving, n))
      /\ absorbed' = absorbed \cup (Range(leaving) \ Range(shown))
      /\ refused' = ~Rises(last_pts, shown)
      /\ last_pts' = IF shown = << >> THEN last_pts ELSE Pts(shown[Len(shown)])
      /\ produced' = (produced \/ shown # << >>)
      /\ UNCHANGED mark

\* Mutant: a track taken up again keeps its gate.
GateStays == UNCHANGED started /\ last_pts' = None

\* The track was taken up again: a picture has to start at a sync sample.
TakeUpGate == started' = FALSE /\ last_pts' = None

TakenUp ==
  /\ Resume \/ (Resubscribe /\ reader' = "reading")
  /\ TakeUpGate
  /\ mark' = [at |-> Len(out), again |-> TRUE]
  /\ UNCHANGED <<refused, absorbed>>

PictureNext ==
  /\ ~refused
  /\ \/ Release /\ Show
     \/ TakenUp
     \/ /\ \/ Publish
           \/ ReceiveGroup \/ SubscriptionFrame \/ SubscriptionEnd \/ Finish \/ Break
           \/ Resubscribe /\ reader' = "lost"
           \/ Answer \/ StartRelease \/ ReleaseEnds \/ Clock
        /\ UNCHANGED pictured

PictureSpec == PictureInit /\ [][PictureNext]_pictures

\* The fairness of TrackFair, a relay that answers a resubscription included.
PictureFair ==
  /\ PictureSpec
  /\ WF_all(Pulling) /\ SF_all(ReadingTask) /\ SF_all(Answer) /\ SF_all(Clock)

-----------------------------------------------------------------------------

\* What reaches the pad begins at a sync sample, at the join and whenever the
\* track is taken up again.
BeginsAtSync ==
  \A n \in mark.at + 1 .. Len(out) :
    out[n] \notin absorbed =>
      \E m \in mark.at + 1 .. n : Sync(out[m]) /\ out[m] \notin absorbed

\* Of a group that opens at a sync sample the gate absorbs frames only if the
\* track was taken up again in the middle of it.
AbsorbsNoGroup ==
  \A n \in mark.at + 1 .. Len(out) :
    out[n] \in absorbed /\ out[n][1] \in Keyed =>
      mark.at > 0 /\ out[mark.at][1] = out[n][1]

\* The gate is the last one and not the first: a live join lands where it has
\* nothing to absorb, unless the track ended before there was such a group.
JoinNeedsNoGate ==
  start = "Live" /\ ~mark.again /\ absorbed # {} => pull \in {"last", "over"}

\* A track whose encoder does not reorder is never taken for one that does, however
\* often its groups are repeated, fetched and taken up again.
NeverRefused == ~refused

\* A picture that has yet to start does, once a sync sample is held: no hole, no
\* fetch and no broken stream keeps it back for good.
PictureReturns ==
  ~started /\ (\E g \in DOMAIN pending \cap Keyed : 1 \in Range(pending[g].frames))
    ~> started \/ reader = "lost"
=============================================================================
