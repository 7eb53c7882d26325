------------------------------ MODULE HoldQueue ------------------------------
(***************************************************************************)
(* The reorder hold of one subscribed track: core/src/order.rs, `Queue`.   *)
(*                                                                         *)
(* A relay hands a track's groups over in arrival order; what leaves the   *)
(* queue is in sequence order.  The group at the cursor goes out frame by  *)
(* frame as it arrives, a group above it is held, and a hole at the cursor *)
(* stands until the group arrives, the relay refuses to serve it, the      *)
(* budget runs out, the track is taken up again, or the track ends.        *)
(*                                                                         *)
(* This is an open component: any of the queue's operations may be called  *)
(* at any time.  All that is asked of the caller is that a fetch is        *)
(* answered once: Push and Refused each use up an entry of asks.           *)
(*                                                                         *)
(* Abstractions.  A frame weighs 1.  An Instant is the age of what it      *)
(* notes, cut at the wait it is compared with.  The counters no guard and  *)
(* no property reads (bytes, fetches, fetches_refused, hold_max_groups,    *)
(* hold_max_bytes, reorder_max, first, last and the call times) and the    *)
(* report rows are left out.                                               *)
(***************************************************************************)
EXTENDS Integers, Sequences, FiniteSets, FiniteSetsExt, Functions

CONSTANTS
  MaxSequence, \* bound: the last group sequence number of the track
  Frame,       \* what a frame may be
  None,        \* Rust's None
  Wait,        \* Hold::wait, in ticks
  Settle,      \* Hold::settle, in ticks
  Budget,      \* Hold::bytes, in frames
  RowCap,      \* ROW_CAP, as the number of fetched groups remembered
  MaxReceived, \* bound: how many groups, second copies included, arrive
  MaxFrames    \* bound: how many frames a group has

ASSUME HoldAssumption ==
  /\ MaxSequence \in Nat
  /\ None \notin Int
  /\ Wait \in Nat /\ Settle \in Nat /\ RowCap \in Nat
  /\ Budget \in Nat \ {0}
  /\ MaxReceived \in Nat /\ MaxFrames \in Nat

VARIABLES
  start,         \* where the reader joined, "Live" or "Backlog"
  pending,       \* the held groups by sequence, and what they weigh
  pending_bytes,
  cursor,        \* the next group in sequence
  join_low,      \* backlog join: the lowest sequence held, and how long
  join_age,      \* ago it last fell
  join_ready,    \* live join: the lowest group a decoder can start at
  gap_since,     \* how long the hole at the cursor has stood open
  fetching,      \* the group the relay has been asked for
  gone,          \* the group it last refused
  fetched,       \* groups a fetch filled a hole with
  passing,       \* groups whose frames are let go as they arrive
  restarted,     \* the track was taken up again on a fresh subscription
  counters,
  asks           \* how many fetches of each group wait for an answer

joining == <<join_low, join_age, join_ready>>
hole    == <<gap_since, fetching, gone, restarted>>
vars    == <<start, pending, pending_bytes, cursor, joining, hole, fetched,
             passing, counters, asks>>

Sequence  == 0 .. MaxSequence
Reasons   == {"end", "restart", "budget", "gone"}
Decodable == {"yes", "no", "unknown"}

Held == [frames : Seq(Frame), have : Nat, complete : BOOLEAN,
         decodable : Decodable, again : Nat \cup {None}]

Counters == [received : Nat, delivered : Nat, repeated : Nat,
             dropped_late : Nat, skipped_join : Nat,
             holes_opened : Nat, holes_filled : Nat,
             holes_abandoned : [Reasons -> Nat]]

Init ==
  /\ start \in {"Live", "Backlog"}
  /\ pending = << >> /\ pending_bytes = 0
  /\ cursor = None
  /\ join_low = None /\ join_age = 0 /\ join_ready = None
  /\ gap_since = None /\ fetching = None /\ gone = None
  /\ fetched = {} /\ passing = {}
  /\ restarted = FALSE
  /\ counters = [received |-> 0, delivered |-> 0, repeated |-> 0,
                 dropped_late |-> 0, skipped_join |-> 0,
                 holes_opened |-> 0, holes_filled |-> 0,
                 holes_abandoned |-> [r \in Reasons |-> 0]]
  /\ asks = [s \in Sequence |-> 0]

-----------------------------------------------------------------------------
(* Arrivals: frame, end and push, all by way of arrive.                    *)

\* What a set of the held groups weighs: their frames that have not gone out.
Weight(S) == Cardinality(UNION {{s} \X DOMAIN pending[s].frames : s \in S})

Hold(s, group) ==
  pending' = [t \in DOMAIN pending \cup {s} |-> IF t = s THEN group ELSE pending[t]]

\* Mutants: the lowest group of any, or the first a decoder can start at.
NoteAny(s, decodable) ==
  join_ready' = IF /\ cursor = None /\ start = "Live"
                   /\ join_ready = None \/ s < join_ready
                THEN s ELSE join_ready

NoteFirst(s, decodable) ==
  join_ready' = IF /\ decodable = "yes" /\ cursor = None /\ start = "Live"
                   /\ join_ready = None
                THEN s ELSE join_ready

\* A live join's cursor is the lowest group a decoder can start at.
NoteJoin(s, decodable) ==
  join_ready' = IF /\ decodable = "yes" /\ cursor = None /\ start = "Live"
                   /\ join_ready = None \/ s < join_ready
                THEN s ELSE join_ready

\* Mutant: a repeat that is not counted as received.
RepeatUncounted(c) == [c EXCEPT !.repeated = @ + 1]

\* A group the wire repeated, counted.
Repeat(c) == [c EXCEPT !.received = @ + 1, !.repeated = @ + 1]

\* The rest of group s, unless this was its end, is let go as it arrives.
LetGo(s, complete) == passing' = IF complete THEN passing ELSE passing \cup {s}

\* The rest of a group already counted and let go.
ArriveLetGo(s, complete) ==
  /\ s \in passing
  /\ passing' = IF complete THEN passing \ {s} ELSE passing
  /\ UNCHANGED <<pending, pending_bytes, joining, hole, fetched, counters>>

\* Mutant: any held group is taken for whole.
RepeatOfAnyHeld(s, complete) ==
  /\ s \notin passing /\ s \in DOMAIN pending
  /\ counters' = Repeat(counters)
  /\ LetGo(s, complete)
  /\ UNCHANGED <<pending, pending_bytes, joining, hole, fetched>>

\* The same group twice: the one already held is the one that goes out.
ArriveRepeated(s, complete) ==
  /\ s \notin passing
  /\ s \in DOMAIN pending /\ pending[s].complete
  /\ counters' = Repeat(counters)
  /\ LetGo(s, complete)
  /\ UNCHANGED <<pending, pending_bytes, joining, hole, fetched>>

\* Mutants: a second copy's frames are all new, or all count from the first.
PassedOverNone(n, seen, have) == 0
PassedOverFromFirst(n, seen, have) == IF seen = None THEN 0 ELSE Min({n, have})

\* How many of n more frames are here already, when `seen` frames of a second
\* copy have come and `have` frames of the group in all.
PassedOver(n, seen, have) == IF seen = None THEN 0 ELSE Min({n, have - seen})

\* More of a group still being read.  A second copy of it, a fetch's answer
\* or a new subscription's, passes over the frames already here.
ArriveMore(s, frames, decides, complete) ==
  /\ s \notin passing
  /\ s \in DOMAIN pending /\ ~pending[s].complete
  /\ LET group  == pending[s]
         whole  == complete /\ frames # << >>
         seen   == IF whole THEN 0 ELSE group.again
         second == whole \/ (group.again = 0 /\ frames # << >>)
         over   == PassedOver(Len(frames), seen, group.have)
         fresh  == SubSeq(frames, over + 1, Len(frames))
         says   == IF group.decodable # "unknown" THEN group.decodable
                   ELSE IF complete /\ decides = "unknown" THEN "no" ELSE decides
     IN  /\ Hold(s, [frames    |-> group.frames \o fresh,
                     have      |-> group.have + Len(fresh),
                     complete  |-> complete,
                     decodable |-> says,
                     again     |-> IF whole \/ seen = None THEN group.again
                                   ELSE seen + Len(frames)])
         /\ pending_bytes' = pending_bytes + Len(fresh)
         /\ counters' = IF second THEN Repeat(counters) ELSE counters
         /\ NoteJoin(s, says)
  /\ UNCHANGED <<join_low, join_age, hole, fetched, passing>>

\* A group whose place in the sequence has passed.  One that a fetch filled
\* its hole with is a repeat, any other came too late.
ArriveLate(s, complete) ==
  /\ s \notin passing /\ s \notin DOMAIN pending
  /\ cursor # None /\ s < cursor
  /\ LetGo(s, complete)
  /\ fetched' = fetched \ {s}
  /\ counters' = IF s \in fetched THEN Repeat(counters)
                 ELSE [counters EXCEPT !.received = @ + 1, !.dropped_late = @ + 1]
  /\ UNCHANGED <<pending, pending_bytes, joining, hole>>

\* The fetched groups that are remembered: the lowest goes when there are many.
Remembered(S) == IF Cardinality(S) > RowCap THEN S \ {Min(S)} ELSE S

\* The first of a group that still has its turn to come.
ArriveNew(s, frames, decides, complete) ==
  /\ s \notin passing /\ s \notin DOMAIN pending
  /\ cursor # None => s >= cursor
  /\ LET says == IF complete /\ decides = "unknown" THEN "no" ELSE decides
     IN  /\ Hold(s, [frames |-> frames, have |-> Len(frames), complete |-> complete,
                     decodable |-> says, again |-> None])
         /\ NoteJoin(s, says)
  /\ pending_bytes' = pending_bytes + Len(frames)
  /\ counters' = [counters EXCEPT !.received = @ + 1]
  /\ IF fetching = s
     THEN fetching' = None /\ fetched' = Remembered(fetched \cup {s})
     ELSE UNCHANGED <<fetching, fetched>>
  /\ IF cursor = None /\ start = "Backlog" /\ (join_low = None \/ s < join_low)
     THEN join_low' = s /\ join_age' = 0
     ELSE UNCHANGED <<join_low, join_age>>
  /\ UNCHANGED <<gap_since, gone, restarted, passing>>

Arrive(s, frames, decides, complete) ==
  /\ \/ ArriveLetGo(s, complete)
     \/ ArriveRepeated(s, complete)
     \/ ArriveMore(s, frames, decides, complete)
     \/ ArriveLate(s, complete)
     \/ ArriveNew(s, frames, decides, complete)
  /\ UNCHANGED <<start, cursor>>

\* The bounds: another group may arrive, and the copy of group s that is being
\* read may have another frame.
Room == counters.received < MaxReceived
Reads(s) ==
  s \in DOMAIN pending /\ ~pending[s].complete =>
    (IF pending[s].again = None THEN pending[s].have ELSE pending[s].again) < MaxFrames

ReadFrame(s, frame, decides) ==
  /\ Room /\ Reads(s)
  /\ Arrive(s, <<frame>>, decides, FALSE)
  /\ UNCHANGED asks

\* An end is only sent for a group some frame of which has been.
End(s) ==
  /\ Room
  /\ \/ s \in passing \cup DOMAIN pending
     \/ cursor # None /\ s < cursor
  /\ Arrive(s, << >>, "unknown", TRUE)
  /\ UNCHANGED asks

\* Mutant: an answer nobody waits for.
Unasked(s) == TRUE

\* A fetch of group s waits for its one answer.
Asked(s) == asks[s] > 0

\* A fetch's answer: the whole group.
Push(s, frames, decodable) ==
  /\ Room /\ Len(frames) <= MaxFrames
  /\ Asked(s)
  /\ asks' = [asks EXCEPT ![s] = @ - 1]
  /\ Arrive(s, frames, decodable, TRUE)

\* Mutant: the refusal is lost.
NoteNothing(s) == UNCHANGED <<fetching, gone>>

\* The answer is kept, for the hole to be given up on.
NoteGone(s) == fetching' = None /\ gone' = s

\* A fetch's other answer: the relay would not serve the group.
Refused(s) ==
  /\ Asked(s)
  /\ asks' = [asks EXCEPT ![s] = @ - 1]
  /\ NoteGone(s)
  /\ UNCHANGED <<start, pending, pending_bytes, cursor, joining, gap_since,
                 restarted, fetched, passing, counters>>

\* The track was taken up again: every group still being read may come again
\* from its first frame.
TakenUpAgain ==
  /\ restarted' = TRUE
  /\ passing' = {}
  /\ pending' = [s \in DOMAIN pending |->
                   IF pending[s].complete THEN pending[s]
                   ELSE [pending[s] EXCEPT !.again = 0]]
  /\ UNCHANGED <<start, pending_bytes, cursor, joining, gap_since, gone, fetched,
                 counters>>

Restart == TakenUpAgain /\ UNCHANGED <<fetching, asks>>

-----------------------------------------------------------------------------
(* take: what goes out next.  A call that returns None and changes nothing *)
(* is a stuttering step.                                                   *)

\* Mutant: whichever group comes to hand first.
Any(g, S) == g \in S

\* The lowest of the sequences in S.
Oldest(g, S) == g \in S /\ \A s \in S : g <= s

\* Mutants: a hole that is over leaves its clock, or its fetch, running.
HoleStaysOpen == UNCHANGED gap_since /\ fetching' = None /\ gone' = None /\ restarted' = FALSE
HoleStaysAsked == gap_since' = None /\ UNCHANGED fetching /\ gone' = None /\ restarted' = FALSE

\* The hole at the cursor is over.
NoHole == gap_since' = None /\ fetching' = None /\ gone' = None /\ restarted' = FALSE

\* Mutant: the groups stepped over still weigh.
FreedOfOne(g, skipped) == Len(pending[g].frames)

\* What goes out with group g, or is let go below it, no longer weighs.
Freed(g, skipped) == Weight(skipped) + Len(pending[g].frames)

\* Mutant: any newer group ends the one before it.
DoneIfNewer(group, newer, last) == group.complete \/ last \/ newer

\* No more of a group is to come: its end was read, the track ended, or it was
\* being read when the track was taken up again and a newer group is here.
Done(group, newer, last) ==
  group.complete \/ last \/ (group.again # None /\ newer)

\* Group g goes out, the groups in skipped having been let go below it: all
\* of it that is here, and the cursor moves past it if no more is to come.
HandOn(g, skipped, tally, last) ==
  LET group == pending[g]
      left  == DOMAIN pending \ skipped
      done  == Done(group, left # {g}, last)
  IN  /\ pending_bytes' = pending_bytes - Freed(g, skipped)
      /\ join_low' = None /\ join_age' = 0 /\ join_ready' = None
      /\ \/ /\ done
            /\ pending' = Restrict(pending, left \ {g})
            /\ cursor' = g + 1
            /\ counters' = [tally EXCEPT !.delivered = @ + 1]
         \/ /\ ~done
            /\ pending' = [Restrict(pending, left) EXCEPT ![g].frames = << >>]
            /\ cursor' = g
            /\ counters' = tally
      /\ UNCHANGED <<start, fetched, asks>>

\* Mutant: a backlog join that only the budget or the end settles.
SettledByBudget(last) ==
  join_low # None => last \/ join_low = 0 \/ pending_bytes >= Budget

\* No lower sequence is waited for any more.
Settled(last) ==
  join_low # None => \/ last \/ join_low = 0
                     \/ join_age >= Settle
                     \/ pending_bytes >= Budget

\* There is nothing to join at yet: take hands nothing on and changes nothing.
Unjoined(last) ==
  /\ cursor = None
  /\ \/ DOMAIN pending = {}
     \/ start = "Live" /\ join_ready = None /\ ~last
     \/ start = "Backlog" /\ ~Settled(last)

\* A live join starts at the first group a decoder can start at and lets go
\* of whatever is held below it (step_over_to).
TakeLiveJoin(last) ==
  /\ cursor = None /\ start = "Live" /\ join_ready # None
  /\ LET skipped == {s \in DOMAIN pending : s < join_ready}
     IN  /\ HandOn(join_ready, skipped,
                   [counters EXCEPT !.skipped_join = @ + Cardinality(skipped)], last)
         /\ passing' = passing \cup {s \in skipped : ~pending[s].complete}
  /\ UNCHANGED hole

\* The track ended before there was a group to start at.
TakeLiveEnd(last) ==
  /\ cursor = None /\ start = "Live" /\ join_ready = None /\ last
  /\ \E g \in DOMAIN pending :
       Oldest(g, DOMAIN pending) /\ HandOn(g, {}, counters, last)
  /\ UNCHANGED <<hole, passing>>

\* A backlog join starts at the lowest sequence that has stopped falling.
TakeBacklogJoin(last) ==
  /\ cursor = None /\ start = "Backlog"
  /\ Settled(last)
  /\ \E g \in DOMAIN pending :
       Oldest(g, DOMAIN pending) /\ HandOn(g, {}, counters, last)
  /\ UNCHANGED <<hole, passing>>

\* The group at the cursor is here; it may have filled a hole.
TakeAtCursor(last) ==
  /\ cursor # None /\ Oldest(cursor, DOMAIN pending)
  /\ IF gap_since # None
     THEN NoHole /\ HandOn(cursor, {}, [counters EXCEPT !.holes_filled = @ + 1], last)
     ELSE UNCHANGED hole /\ HandOn(cursor, {}, counters, last)
  /\ UNCHANGED passing

\* Nothing is held.
TakeEmpty ==
  /\ DOMAIN pending = {}
  /\ start = "Live" => cursor # None
  /\ gap_since' = None
  /\ UNCHANGED <<start, pending, pending_bytes, cursor, joining, fetching, gone,
                 restarted, fetched, passing, counters, asks>>

AtHole == cursor # None /\ DOMAIN pending # {} /\ \A s \in DOMAIN pending : s > cursor

\* What runs out first when the hole at the cursor is given up on.
Reason(last) ==
  CASE last                                  -> "end"
    [] ~last /\ restarted                    -> "restart"
    [] ~last /\ ~restarted
         /\ pending_bytes >= Budget          -> "budget"
    [] ~last /\ ~restarted
         /\ pending_bytes < Budget
         /\ gone = cursor                    -> "gone"
    [] OTHER                                 -> "none"

\* When the hole opened, if this call is the one that found it, and the
\* counters with it counted.
Since  == IF gap_since = None THEN 0 ELSE gap_since
Opened == IF gap_since = None THEN [counters EXCEPT !.holes_opened = @ + 1] ELSE counters

\* The hole is not given up on yet; once it has stood for the whole wait the
\* relay is asked for the group.
TakeWaits(last) ==
  /\ AtHole /\ Reason(last) = "none"
  /\ gap_since' = Since
  /\ counters' = Opened
  /\ IF fetching = None /\ Since >= Wait
     THEN fetching' = cursor /\ asks' = [asks EXCEPT ![cursor] = @ + 1]
     ELSE UNCHANGED <<fetching, asks>>
  /\ UNCHANGED <<start, pending, pending_bytes, cursor, joining, gone, restarted,
                 fetched, passing>>

\* The hole is given up on, and the cursor steps over it.
TakeStepsOver(last) ==
  /\ AtHole /\ Reason(last) # "none"
  /\ \E g \in DOMAIN pending :
       /\ Oldest(g, DOMAIN pending)
       /\ HandOn(g, {}, [Opened EXCEPT !.holes_abandoned[Reason(last)] = @ + 1], last)
  /\ NoHole
  /\ UNCHANGED passing

Take(last) ==
  \/ TakeLiveJoin(last)
  \/ TakeLiveEnd(last)
  \/ TakeBacklogJoin(last)
  \/ TakeAtCursor(last)
  \/ TakeEmpty
  \/ TakeWaits(last)
  \/ TakeStepsOver(last)

\* Time passes.
Tick ==
  /\ \/ gap_since # None /\ gap_since < Wait
     \/ join_low # None /\ join_age < Settle
  /\ gap_since' = IF gap_since = None \/ gap_since >= Wait THEN gap_since ELSE gap_since + 1
  /\ join_age' = IF join_low = None \/ join_age >= Settle THEN join_age ELSE join_age + 1
  /\ UNCHANGED <<start, pending, pending_bytes, cursor, join_low, join_ready, fetching,
                 gone, restarted, fetched, passing, counters, asks>>

Answers == {<< >>} \cup {<<f>> : f \in Frame} \cup (Frame \X Frame)

Next ==
  \/ \E s \in Sequence, f \in Frame, d \in Decodable : ReadFrame(s, f, d)
  \/ \E s \in Sequence : End(s)
  \/ \E s \in Sequence, a \in Answers, d \in {"yes", "no"} : Push(s, a, d)
  \/ \E s \in Sequence : Refused(s)
  \/ Restart
  \/ \E last \in BOOLEAN : Take(last)
  \/ Tick

Spec == Init /\ [][Next]_vars

\* The reader takes from every hold on every turn of its pull, which its
\* ticks keep coming; time passes; and a fetch is answered, a timeout
\* counting as a refusal.
FairSpec ==
  /\ Spec
  /\ WF_vars(Take(FALSE))
  /\ WF_vars(Tick)
  /\ \A s \in Sequence : WF_vars(Refused(s))

-----------------------------------------------------------------------------
(* What the queue promises.                                                *)

\* Every variable keeps to its type.
TypeOK ==
  /\ start \in {"Live", "Backlog"}
  /\ DOMAIN pending \subseteq Sequence
  /\ pending \in [DOMAIN pending -> Held]
  /\ pending_bytes \in Int
  /\ cursor \in Nat \cup {None}
  /\ join_low \in Sequence \cup {None} /\ join_age \in Nat
  /\ join_ready \in Sequence \cup {None}
  /\ gap_since \in Nat \cup {None}
  /\ fetching \in Nat \cup {None} /\ gone \in Nat \cup {None}
  /\ fetched \subseteq Sequence /\ passing \subseteq Sequence
  /\ restarted \in BOOLEAN
  /\ counters \in Counters
  /\ asks \in [Sequence -> Nat]

\* The doc of Counters: every group received is delivered, too late, stepped
\* over at the join, a repeat, or still held; none is counted twice and none
\* is let go without a count.
Accounting ==
  counters.received = counters.delivered + counters.dropped_late
                      + counters.skipped_join + counters.repeated
                      + Cardinality(DOMAIN pending)

\* Every hole opened was filled or given up on for a counted reason, except
\* the one that stands open; there is never a second one.
HoleAccounting ==
  /\ counters.holes_opened =
       counters.holes_filled
       + counters.holes_abandoned["end"] + counters.holes_abandoned["restart"]
       + counters.holes_abandoned["budget"] + counters.holes_abandoned["gone"]
       + (IF gap_since = None THEN 0 ELSE 1)
  /\ gap_since # None => cursor # None /\ DOMAIN pending # {}

\* What the budget is compared with is what the held frames weigh, through
\* second copies, partial hand-ons and groups stepped over.
BytesExact == pending_bytes = Weight(DOMAIN pending)

\* No held group lies below the cursor, and only the group at the cursor has
\* handed on some of its frames and not the rest.
AheadOfCursor ==
  \A s \in DOMAIN pending :
    /\ cursor # None => s >= cursor
    /\ Len(pending[s].frames) <= pending[s].have
    /\ Len(pending[s].frames) < pending[s].have => cursor = s
    /\ pending[s].again # None => pending[s].again <= pending[s].have

\* Frames are only ever let go of a group whose place has passed or of one
\* that is held whole: never of a group that still needs them.
PassingIsSettled ==
  \A s \in passing :
    \/ cursor # None /\ s < cursor
    \/ s \in DOMAIN pending /\ pending[s].complete

\* The one fetch the queue waits on is for the group missing at the cursor,
\* and for no other, whatever arrived in between.
AskIsForTheHole ==
  fetching # None => /\ fetching = cursor
                     /\ fetching \notin DOMAIN pending
                     /\ gap_since # None

\* Until the cursor is fixed, a live join aims at the lowest held group a
\* decoder can start at, and a backlog join waits on the lowest held group,
\* however late a frame said that a group can be started at.
JoinIsLowest ==
  cursor = None =>
    LET ready == {s \in DOMAIN pending : pending[s].decodable = "yes"}
    IN  /\ start = "Live" =>
             /\ join_low = None
             /\ IF ready = {} THEN join_ready = None ELSE Oldest(join_ready, ready)
        /\ start = "Backlog" =>
             /\ join_ready = None
             /\ IF DOMAIN pending = {} THEN join_low = None
                ELSE Oldest(join_low, DOMAIN pending)

Abandoned(c) == c.holes_abandoned["end"] + c.holes_abandoned["restart"]
                + c.holes_abandoned["budget"] + c.holes_abandoned["gone"]

\* A step that moves the cursor up moves it past a group that is handed on or,
\* counting it, past a hole.
SkipsNothing ==
  cursor # None /\ cursor' # cursor =>
    /\ cursor' > cursor
    /\ \A s \in DOMAIN pending : s >= cursor' \/ cursor' = s + 1
    /\ \/ cursor' = cursor + 1 /\ counters'.delivered = counters.delivered + 1
       \/ Abandoned(counters') = Abandoned(counters) + 1

\* The cursor never goes back; it moves past a group by handing it on, past a
\* missing one only when a hole is given up on and counted, and never past a
\* group that is held.
NoSilentSkip == [][SkipsNothing]_vars

\* A hole at the cursor does not stand for good.
HolesSettle == gap_since # None ~> gap_since = None

\* A backlog join that holds a group fixes its cursor.
BacklogJoins == start = "Backlog" /\ DOMAIN pending # {} ~> cursor # None
=============================================================================
