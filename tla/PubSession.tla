----------------------------- MODULE PubSession ------------------------------
(***************************************************************************)
(* The publisher: publish/src/module.rs, `Session`, with the groups of     *)
(* core/src/group.rs and, for each track, what `Paced` says of its pacer.  *)
(*                                                                         *)
(* The session has no thread of its own.  It runs only while a host call   *)
(* is blocked in one of its awaits, so the model is one call: a program    *)
(* counter, `at`, with the place an await goes back to in `then`, and the  *)
(* steps of the session and the relay between the code's steps only where  *)
(* it awaits.  Time alone passes between two calls.                        *)
(*                                                                         *)
(* Abstractions.  A packet is its place in its stream and whether it is a  *)
(* key frame.  The muxer (external) holds one sample until the next gives  *)
(* its duration.  An error of any step fails the run.  Of the rows, only   *)
(* whether the call has one is kept; the totals are left out, and so are   *)
(* the doubling waits of the redial within its window.                     *)
(***************************************************************************)
EXTENDS Pace, Sequences, FiniteSets, FiniteSetsExt, SequencesExt, Functions

CONSTANTS
  PadSets,      \* the streams a run may be given: sequences of kinds
  AudioTicks,   \* audio_group_ms, in frames; 0 is a group per frame
  FlushTurns,   \* FLUSH_TURNS
  CatchUpTurns, \* CATCH_UP_TURNS
  MaxBatch,     \* bound: packets of one pad in one call
  MaxPackets    \* bound: packets of a run of so many pads

ASSUME PubSessionAssumption ==
  /\ PadSets \subseteq Seq({"video", "audio", "data"})
  /\ AudioTicks \in Nat
  /\ FlushTurns \in Nat \ {0} /\ CatchUpTurns \in Nat
  /\ MaxBatch \in Nat
  /\ \A streams \in PadSets : MaxPackets[Len(streams)] \in Nat

VARIABLES
  pads,       \* the kinds of the streams, in the order of their pads
  params,     \* rows asked per group; a window to reconnect in
  at, then,   \* where the call is; where it goes on after an await
  spins,      \* turns given in the await it is in
  pad,        \* the pad whose media it is at
  call,       \* what the call knows of itself
  input,      \* the packets it has yet to take, by pad
  ready,      \* fragments handed back by the muxer, not yet published
  renditions, \* by pad: the pacer, the muxer's sample, the groups cut so far
  started, turns,
  sent,       \* catalog_sent: the catalog has gone out
  quiet,      \* media_at: no media within MEDIA_QUIET, as the call has found
  late,       \* the deadline of the hold has passed
  link,       \* session, driver and redial
  asked,      \* the relay: the tracks somebody is subscribed to
  shown,      \* history: the catalog went out since this session came in
  offered,    \* history: the packets of each pad so far
  unsent,     \* history: the tracks with a group finished since the last flush
  finished    \* the tracks have been told that they are over

opened  == <<pads, params>>
relay   == <<link, asked, shown>>
clock   == <<sent, quiet, late>>
counter == <<at, then, spins, pad>>
work    == <<call, input, ready, renditions>>
rest    == <<started, turns, offered, unsent, finished>>
vars    == <<opened, relay, clock, counter, work, rest>>

Tracks == 1 .. Len(pads)
Packet == [pts : Nat, key : BOOLEAN]
NoCall ==
  [last |-> FALSE, turn |-> FALSE, freed |-> FALSE, messages |-> FALSE, rows |-> FALSE]

\* Where the executor runs the session: a yield or a sleep.
Awaits == {"hold", "choose", "catch", "yield", "flush", "empty", "drain", "linger"}
Ends   == {"over", "failed"}
Phases == Awaits \cup Ends \cup
          {"open", "idle", "mend", "refresh", "messages", "media", "gate", "settle",
           "return", "finish"}

Init ==
  /\ pads \in PadSets
  /\ params \in [groups : BOOLEAN, reconnects : BOOLEAN]
  /\ at = "open" /\ then = "idle" /\ spins = 0 /\ pad = 1
  /\ call = NoCall
  /\ input = [t \in Tracks |-> << >>] /\ ready = << >>
  /\ renditions = [t \in Tracks |-> [pace |-> Idle, muxer |-> << >>, groups |-> << >>]]
  /\ started = FALSE /\ turns = FALSE
  /\ sent = FALSE /\ quiet = TRUE /\ late = FALSE
  /\ link = "none" /\ asked = {} /\ shown = FALSE
  /\ offered = [t \in Tracks |-> 0] /\ unsent = {} /\ finished = FALSE

-----------------------------------------------------------------------------
(* Groups (core/src/group.rs).                                             *)

\* Whether a group of this track holds one fragment.
OneFragmentEach(t) == pads[t] = "data" \/ (pads[t] = "audio" /\ AudioTicks = 0)

\* Mutant: video is cut where it was asked for first, and never again.
StartsOnce(t, groups, frame) == groups = << >> \/ OneFragmentEach(t)

\* Whether this frame opens a group.
StartsAGroup(t, groups, frame) ==
  \/ groups = << >> \/ OneFragmentEach(t)
  \/ pads[t] = "video" /\ frame.key
  \/ pads[t] = "audio" /\ frame.pts - Last(groups)[1].pts >= AudioTicks

-----------------------------------------------------------------------------
(* One track (Rendition).                                                  *)

Closed(r) == [r EXCEPT !.pace = Shut(@)]

\* The newest group with a frame more.
IntoNewest(groups, frame) == [groups EXCEPT ![Len(groups)] = Append(@, frame)]

\* One frame, in the open group or in one it opens.
Published(t, r, frame) ==
  LET cut == StartsAGroup(t, r.groups, frame)
      new == [r EXCEPT
                !.pace = IF cut THEN Begun(@, t \in asked) ELSE @,
                !.groups = IF cut THEN Append(@, <<frame>>)
                           ELSE IntoNewest(@, frame)]
  IN  IF OneFragmentEach(t) THEN Closed(new) ELSE new

\* Its groups that are finished, on the wire or held back.
Complete(r) == IF r.pace.open THEN r.pace.cut - 1 ELSE r.pace.cut

\* Every track's queue given a look.
Released ==
  [t \in Tracks |-> [renditions[t] EXCEPT !.pace = Looked(@, t \in asked)]]

Release  == renditions' = Released
Held     == \E t \in Tracks : Queued(renditions[t].pace) > 0
HeldThen == \E t \in Tracks : Queued(renditions'[t].pace) > 0

\* Track t becomes r: what that finished is unsent, and has a row if asked for; and
\* if t is of messages, the call has told one.
Becomes(t, r) ==
  /\ renditions' = [renditions EXCEPT ![t] = r]
  /\ LET closes == Complete(r) > Complete(renditions[t])
     IN  /\ unsent' = IF closes THEN unsent \cup {t} ELSE unsent
         /\ call' = [call EXCEPT !.rows = @ \/ (closes /\ params.groups),
                                !.messages = @ \/ pads[t] = "data"]

\* On to a step, or to an await and from there to a step, or still in the await.
Goto(phase)        == at' = phase /\ then' = "idle"
Await(phase, next) == at' = phase /\ then' = next
Stay(phase)        == at' = phase /\ UNCHANGED then

-----------------------------------------------------------------------------
(* The steps of a call.                                                    *)

\* The streams are packaged, the tracks made and the relay dialed, or refused.
Open ==
  /\ at = "open"
  /\ \/ Goto("idle") /\ link' = "up"
     \/ Goto("failed") /\ UNCHANGED link
  /\ UNCHANGED <<opened, asked, shown, clock, spins, pad, work, rest>>

\* The packets that may yet come.
Left == MaxPackets[Len(pads)] - SumFunction(offered)

\* What a pad may carry in one call.
Batch(t) ==
  LET Keys == IF pads[t] = "video" THEN BOOLEAN ELSE {TRUE}
  IN  UNION {{[i \in 1 .. n |-> [pts |-> offered[t] + i, key |-> keys[i]]] :
                keys \in [1 .. n -> Keys]} :
               n \in 0 .. Min({MaxBatch, Left})}

\* The host calls.  A call that carries nothing is a turn; before the first
\* packet there is nothing to do in one.
Call(last) ==
  /\ at = "idle"
  /\ input' \in {new \in [Tracks -> UNION {Batch(t) : t \in Tracks}] :
                   \A t \in Tracks : new[t] \in Batch(t)}
  /\ offered' = [t \in Tracks |-> offered[t] + Len(input'[t])]
  /\ SumFunction(offered') <= MaxPackets[Len(pads)]
  /\ LET turn == ~last /\ \A t \in Tracks : input'[t] = << >>
     IN  /\ turns' = (turns \/ turn)
         /\ call' = [NoCall EXCEPT !.last = last, !.turn = turn]
         /\ Goto(IF turn /\ ~started THEN "return" ELSE "mend")
  /\ UNCHANGED <<opened, relay, clock, spins, pad, ready, renditions, started, unsent,
                 finished>>

\* The catalog goes out, in a group of its own.
PublishCatalog == sent' = TRUE /\ shown' = TRUE

\* Mutant: a session that came in waits for the timer to see the catalog.
InSilence ==
  /\ link' = "up" /\ call' = [call EXCEPT !.rows = TRUE]
  /\ shown' = FALSE
  /\ UNCHANGED <<asked, sent>>

\* A new session has come in.
Installed ==
  /\ link' = "up" /\ call' = [call EXCEPT !.rows = TRUE]
  /\ PublishCatalog
  /\ UNCHANGED asked

\* Mutant: a session that ended is let go of, and none dialed.
LetGo == UNCHANGED link

\* The session is let go of, and a new one dialed.
Dialed == link' = "down"

\* A session that ended is noticed, or a new one taken in; not on the last call.
Mend ==
  /\ at = "mend"
  /\ \/ /\ call.last \/ link \in {"up", "down"}
        /\ Goto(IF started THEN "refresh" ELSE "hold")
        /\ UNCHANGED <<relay, sent, call>>
     \/ /\ ~call.last /\ link = "dialed"
        /\ Installed
        /\ Goto(IF started THEN "refresh" ELSE "hold")
     \/ /\ ~call.last /\ link = "ended" /\ params.reconnects
        /\ Dialed
        /\ Goto(IF started THEN "refresh" ELSE "hold")
        /\ UNCHANGED <<asked, shown, sent, call>>
     \/ /\ ~call.last
        /\ link = "spent" \/ (link = "ended" /\ ~params.reconnects)
        /\ Goto("failed")
        /\ UNCHANGED <<relay, sent, call>>
  /\ UNCHANGED <<opened, quiet, late, spins, pad, input, ready, renditions, rest>>

\* The first catalog waits for a reader of anything.
Hold ==
  /\ at = "hold"
  /\ asked # {} \/ late
  /\ PublishCatalog
  /\ Goto("choose")
  /\ UNCHANGED <<opened, link, asked, quiet, late, spins, pad, work, rest>>

\* Mutant: the first media waits for its reader, however long.
ChosenAtLast == asked \cap Tracks # {}

\* Somebody reads a track, or the hold is over.
Chosen == asked \cap Tracks # {} \/ late

\* The first media waits for a reader of a track.
Choose ==
  /\ at = "choose"
  /\ Chosen
  /\ started' = TRUE
  /\ late' = FALSE
  /\ Goto("refresh")
  /\ UNCHANGED <<opened, relay, sent, quiet, spins, pad, work, turns, offered, unsent, finished>>

\* The catalog again, for those who come late, if CATALOG_REFRESH has passed; then
\* the first turn.
Refresh ==
  /\ at = "refresh"
  /\ PublishCatalog \/ UNCHANGED <<sent, shown>>
  /\ Goto("catch")
  /\ spins' = 0
  /\ UNCHANGED <<opened, link, asked, quiet, late, pad, work, rest>>

\* Turns and looks before anything new is cut, while a track waits on its group
\* in flight: one that is not settled may be held by a session, or not.
CatchUp ==
  /\ at = "catch"
  /\ Release
  /\ call' = [call EXCEPT !.freed = @ \/ renditions' # renditions]
  /\ \/ /\ spins < CatchUpTurns
        /\ Held \/ \E t \in Tracks : renditions[t].pace.flight = "going"
        /\ spins' = spins + 1
        /\ Goto("catch")
        /\ UNCHANGED quiet
     \/ /\ spins = CatchUpTurns \/ ~Held
        /\ spins' = 0
        /\ Goto("messages")
        /\ quiet' = (quiet /\ \A t \in Tracks : pads[t] = "data" \/ input[t] = << >>)
  /\ UNCHANGED <<opened, relay, sent, late, pad, input, ready, rest>>

\* The first message that is left, as a frame in a group of its own, and a turn.
Tell ==
  /\ at = "messages"
  /\ \E t \in Tracks :
       /\ pads[t] = "data" /\ input[t] # << >>
       /\ \A u \in Tracks : pads[u] = "data" /\ input[u] # << >> => t <= u
       /\ Becomes(t, Published(t, renditions[t], Head(input[t])))
       /\ input' = [input EXCEPT ![t] = Tail(@)]
  /\ Await("yield", "messages")
  /\ UNCHANGED <<opened, relay, clock, spins, pad, ready, started, turns, offered, finished>>

\* Messages are put on the socket before any media of the call is touched.
ToldFirst == IF call.messages THEN Await("flush", "media") ELSE Goto("media")

Told ==
  /\ at = "messages"
  /\ \A t \in Tracks : pads[t] = "data" => input[t] = << >>
  /\ ToldFirst
  /\ pad' = 1 /\ spins' = 0
  /\ UNCHANGED <<opened, relay, clock, work, rest>>

\* A turn of the session.
Yield ==
  /\ at = "yield"
  /\ Goto(then)
  /\ UNCHANGED <<opened, relay, clock, spins, pad, work, rest>>

\* A few short turns, with a look at the queues after each.
Flush ==
  /\ at = "flush"
  /\ Release
  /\ \/ /\ spins + 1 < FlushTurns
        /\ spins' = spins + 1
        /\ UNCHANGED <<at, then, unsent>>
     \/ /\ spins + 1 = FlushTurns
        /\ spins' = 0
        /\ Goto(then)
        /\ unsent' = {}
  /\ UNCHANGED <<opened, relay, clock, pad, call, input, ready, started, turns, offered,
                 finished>>

\* The next packet of this pad goes into the muxer, which hands back the sample
\* it held.
Push ==
  /\ at = "media" /\ pad \in Tracks /\ pads[pad] # "data"
  /\ ready = << >> /\ input[pad] # << >>
  /\ ready' = renditions[pad].muxer
  /\ renditions' = [renditions EXCEPT ![pad].muxer = <<Head(input[pad])>>]
  /\ input' = [input EXCEPT ![pad] = Tail(@)]
  /\ UNCHANGED <<opened, relay, clock, counter, call, rest>>

\* The next fragment is published, with a turn for the session if that finished
\* a group.
Fragment ==
  /\ at = "media" /\ ready # << >>
  /\ LET r == Published(pad, renditions[pad], Head(ready))
     IN  /\ Becomes(pad, r)
         /\ IF Complete(r) > Complete(renditions[pad]) THEN Await("yield", "media")
            ELSE Goto("media")
  /\ ready' = Tail(ready)
  /\ UNCHANGED <<opened, relay, clock, spins, pad, input, started, turns, offered, finished>>

\* This pad has no more, and the session gets a turn.
NextPad ==
  /\ at = "media" /\ pad \in Tracks
  /\ pads[pad] = "data" \/ (ready = << >> /\ input[pad] = << >>)
  /\ pad' = pad + 1
  /\ IF pads[pad] = "data" THEN Goto("media") ELSE Await("yield", "media")
  /\ UNCHANGED <<opened, relay, clock, spins, work, rest>>

MediaDone ==
  /\ at = "media" /\ pad = Len(pads) + 1
  /\ Goto("gate")
  /\ pad' = 1
  /\ UNCHANGED <<opened, relay, clock, spins, work, rest>>

\* A packet the edge's framing refuses, a message too long, a tail that the muxer
\* does not give, a track that cannot be written.
Fail ==
  /\ \/ at = "messages" /\ \E t \in Tracks : pads[t] = "data" /\ input[t] # << >>
     \/ at = "media" /\ pad \in Tracks /\ pads[pad] # "data" /\ input[pad] # << >>
     \/ at = "finish" /\ \E t \in Tracks : pads[t] # "data"
  /\ Goto("failed")
  /\ UNCHANGED <<opened, relay, clock, spins, pad, work, rest>>

\* The call has rows, or was a turn that let a group go.
WorthAFlush == call.rows \/ (call.turn /\ call.freed)

\* What was written is given its way to the socket.
Gate ==
  /\ at = "gate"
  /\ IF WorthAFlush THEN Await("flush", "settle") ELSE Goto("settle")
  /\ UNCHANGED <<opened, relay, clock, spins, pad, work, rest>>

\* Mutant: a call counts on the next one to let a held group go.
NoWait == FALSE

\* A host that calls only with packets, and no media for a while.
NoCallSoon == ~call.last /\ ~turns /\ quiet

\* No call that comes soon would let go what is held back: this one waits.  The
\* clock is looked at here only: by now MEDIA_QUIET may have passed.
Settle ==
  /\ at = "settle"
  /\ UNCHANGED <<opened, relay, sent, late, spins, pad, work, rest>>
  /\ quiet' \in {quiet, TRUE}
  /\ IF NoCallSoon' /\ Held THEN Await("empty", "return") ELSE Goto("return")

\* A turn and a look, until nothing is held back; then the socket.
EmptyQueues ==
  /\ at = "empty"
  /\ Release
  /\ Stay(IF HeldThen THEN "empty" ELSE "flush")
  /\ UNCHANGED <<opened, relay, clock, spins, pad, call, input, ready, rest>>

\* The call is over, or, the last one, goes on to the end of the run.
Return ==
  /\ at = "return"
  /\ IF call.last THEN Goto("finish") ELSE Goto("idle")
  /\ call' = [NoCall EXCEPT !.last = call.last, !.rows = call.last /\ call.rows]
  /\ unsent' = IF call.last THEN unsent ELSE {}
  /\ UNCHANGED <<opened, relay, clock, spins, pad, input, ready, renditions, started, turns,
                 offered, finished>>

\* What the muxer still holds is published, and the group closed.
Completed(t) ==
  LET r == renditions[t]
  IN  Closed(IF r.muxer = << >> THEN r
             ELSE [Published(t, r, Head(r.muxer)) EXCEPT !.muxer = << >>])

\* Mutant: the tracks are finished with groups still held back.
FinishAtOnce == Goto("drain")

\* The tails of all tracks, and what they still hold back, each in its turn.
FinishInTurn == IF HeldThen THEN Await("empty", "drain") ELSE Goto("drain")

Finish ==
  /\ at = "finish"
  /\ renditions' = [t \in Tracks |-> Completed(t)]
  /\ unsent' = unsent \cup
       {t \in Tracks : Complete(renditions'[t]) > Complete(renditions[t])}
  /\ FinishInTurn
  /\ UNCHANGED <<opened, relay, clock, spins, pad, call, input, ready, started, turns,
                 offered, finished>>

\* The wire drains for a while, and then the tracks are told it is over.
Drain ==
  /\ at = "drain"
  /\ finished' = TRUE
  /\ Goto("linger")
  /\ UNCHANGED <<opened, relay, clock, spins, pad, work, started, turns, offered, unsent>>

\* The session is closed, and a redial given up.
Close ==
  /\ at = "linger"
  /\ link' = "none" /\ asked' = {} /\ shown' = FALSE
  /\ Goto("over")
  /\ UNCHANGED <<opened, clock, spins, pad, work, rest>>

Code ==
  \/ Open \/ Mend \/ Hold \/ Choose \/ Refresh \/ CatchUp
  \/ Tell \/ Told \/ Yield \/ Flush
  \/ Push \/ Fragment \/ NextPad \/ MediaDone \/ Fail
  \/ Gate \/ Settle \/ EmptyQueues \/ Return
  \/ Finish \/ Drain \/ Close

-----------------------------------------------------------------------------
(* The session and the relay, where the code awaits, and time.             *)

\* Somebody subscribes, to the catalog before any track, or leaves.
Ask ==
  /\ at \in Awaits /\ link = "up"
  /\ \E track \in Tracks \cup {0} :
       /\ track = 0 \/ sent
       /\ asked' = IF track \in asked THEN asked \ {track} ELSE asked \cup {track}
  /\ UNCHANGED <<opened, link, shown, clock, counter, work, rest>>

\* The relay drops the session.
Drop ==
  /\ at \in Awaits /\ link = "up"
  /\ link' = "ended" /\ asked' = {} /\ shown' = FALSE
  /\ UNCHANGED <<opened, clock, counter, work, rest>>

\* A redial opens a session, or spends its window.
Redial ==
  /\ at \in Awaits /\ link = "down"
  /\ link' \in {"dialed", "spent"}
  /\ UNCHANGED <<opened, asked, shown, clock, counter, work, rest>>

\* What becomes of the group in flight on a track; between calls, only what
\* time does to it.
InFlight(t, from, to) ==
  /\ renditions[t].pace.flight \in from
  /\ renditions' = [renditions EXCEPT ![t].pace.flight = to]
  /\ UNCHANGED <<opened, relay, clock, counter, call, input, ready, rest>>

Take(t)   == at \in Awaits /\ InFlight(t, {"settled"}, "going")
Deliver(t) == at \in Awaits \cup {"idle"} /\ InFlight(t, {"going"}, "settled")
Pass(t)   == at \in Awaits \cup {"idle"} /\ InFlight(t, {"going", "settled"}, "past")

Deadline ==
  /\ at \in {"hold", "choose"} /\ ~late
  /\ late' = TRUE
  /\ UNCHANGED <<opened, relay, sent, quiet, counter, work, rest>>

Next ==
  \/ Code
  \/ \E last \in BOOLEAN : Call(last)
  \/ Ask \/ Drop \/ Redial
  \/ \E t \in Tracks : Take(t) \/ Deliver(t) \/ Pass(t)
  \/ Deadline

Spec == Init /\ [][Next]_vars

\* A turn with nothing in it.
Turn == Call(FALSE) /\ \A t \in DOMAIN pads : input'[t] = << >>

\* The executor runs the call, and the host makes its turns (the rate clock of
\* the module's shape).  The clock runs: a group in flight passes its cap, and a
\* dial, driven whenever a call awaits, comes in or spends its window.  Both are
\* possible in an await only, and not in the steps between; hence strong fairness.
\* Nothing is asked of the relay or of a reader.
FairSpec ==
  /\ Spec
  /\ WF_vars(Code) /\ WF_vars(Deadline) /\ WF_vars(Turn)
  /\ SF_vars(Redial)
  /\ \A t \in 1 .. Max({Len(streams) : streams \in PadSets}) :
       SF_vars(t \in Tracks /\ Pass(t))

-----------------------------------------------------------------------------
(* What the publisher promises.                                            *)

\* Every variable keeps to its type.
TypeOK ==
  /\ at \in Phases /\ then \in Phases
  /\ spins \in 0 .. FlushTurns + CatchUpTurns /\ pad \in 1 .. Len(pads) + 1
  /\ call \in [last : BOOLEAN, turn : BOOLEAN, freed : BOOLEAN, messages : BOOLEAN,
              rows : BOOLEAN]
  /\ input \in [Tracks -> Seq(Packet)] /\ ready \in Seq(Packet)
  /\ renditions \in [Tracks -> [pace : PaceType, muxer : Seq(Packet),
                                groups : Seq(Seq(Packet))]]
  /\ \A t \in Tracks : Queued(renditions[t].pace) \in Nat
  /\ started \in BOOLEAN /\ turns \in BOOLEAN /\ quiet \in BOOLEAN /\ late \in BOOLEAN
  /\ sent \in BOOLEAN
  /\ link \in {"none", "up", "ended", "down", "dialed", "spent"}
  /\ asked \subseteq Tracks \cup {0} /\ shown \in BOOLEAN
  /\ offered \in [Tracks -> Nat] /\ unsent \subseteq Tracks /\ finished \in BOOLEAN

\* A track that has been told it is over holds nothing back: every packet it was
\* ever given is in one of its groups, in order, and all of them are finished and
\* on the wire ("a track told it is over while its own tail is still queued loses
\* that tail").
TailIsOut ==
  finished => \A t \in Tracks :
    LET r == renditions[t]
    IN  /\ r.muxer = << >> /\ Queued(r.pace) = 0 /\ ~r.pace.open
        /\ Len(r.groups) = r.pace.cut
        /\ [i \in 1 .. offered[t] |-> i] =
             [i \in DOMAIN FlattenSeq(r.groups) |-> FlattenSeq(r.groups)[i].pts]

\* A reader that comes on any session finds the catalog: once media is cut, a
\* session is never in without the catalog having gone out to it.
CatalogFirst == started /\ link = "up" => shown

\* A call with no other to follow it soon lets go of everything: on a host that
\* calls only with packets, nothing is held back while the media is quiet.
QuietHoldsNothing == at = "return" /\ ~call.last /\ ~turns /\ quiet => ~Held

\* The doc of FLUSH_TURNS: a call that has finished groups gives them their turns
\* on the socket before it returns.
Flushed == at = "return" /\ ~call.last => unsent = {}

\* A run that reports its groups does so.
FlushedIfReported == params.groups => Flushed

\* What a message announces is behind it: no media is handled while a message of
\* the same call has yet to be put on the socket.
Announced == at \in {"media", "gate"} => \A t \in unsent : pads[t] # "data"

\* A reader can start at each group, but for the first of a picture that does not
\* begin with a key frame: a video group holds a key frame only as its first, and
\* all but the very first begin with one; a message has a group of its
\* own; an audio group is as long as it was asked to be and no longer.
Discipline ==
  \A t \in Tracks :
    LET groups == renditions[t].groups
    IN  \A g \in DOMAIN groups :
          LET group == groups[g]
          IN  /\ pads[t] = "data" => Len(group) = 1
              /\ pads[t] = "video" =>
                   /\ g > 1 => group[1].key
                   /\ \A i \in 2 .. Len(group) : ~group[i].key
              /\ pads[t] = "audio" =>
                   /\ Last(group).pts - group[1].pts < Max({AudioTicks, 1})
                   /\ g > 1 => group[1].pts - groups[g - 1][1].pts >= AudioTicks

\* No call waits for a reader, a relay or a new session for good.
CallsReturn == at \notin Ends \cup {"idle"} ~> at \in Ends \cup {"idle"}

\* What is held back goes out, if only from turns, unless the run ends: a run has
\* its last packet, and some time after it nothing is held.
GroupsLeave == Held ~> (~Held \/ at \in Ends)

\* A lost session is replaced once media has gone out, or the run ends.
Mended == (started /\ link # "up") ~> (link = "up" \/ at \in Ends)
=============================================================================
