-------------------------- MODULE PubSessionProofs ---------------------------
(***************************************************************************)
(* Safety of the publisher's session, for every value of the constants.    *)
(*                                                                         *)
(* What holds where a call returns was made so by the awaits on its way,   *)
(* so the invariant follows the call: where each await goes on, what is    *)
(* unsent where, and that a queue once emptied stays so through the last   *)
(* flush.  The second half follows the packets: where each is on its way   *)
(* from the call into the groups, and that none is left on it at the end.  *)
(***************************************************************************)
EXTENDS PubSession, SequenceTheorems, WellFoundedInduction, TLAPS

CallType ==
  [last : BOOLEAN, turn : BOOLEAN, freed : BOOLEAN, messages : BOOLEAN, rows : BOOLEAN]

RenditionType == [pace : PaceType, muxer : Seq(Packet), groups : Seq(Seq(Packet))]

Kinds == {"video", "audio", "data"}

\* The streams stay what they are, and a call goes where its awaits lead.
Routes ==
  /\ pads \in Seq(Kinds)
  /\ at = "open" => ~started /\ ~call.last
  /\ at = "yield" => then \in {"messages", "media"}
  /\ at = "flush" => then \in {"media", "settle", "return", "drain"}
  /\ at = "empty" => then \in {"return", "drain"}
  /\ at = "idle" => ~call.last
  /\ at = "finish" => call.last

\* Fragments wait only while their pad is at hand, and it is one of media.
ReadyIsMedia ==
  ready # << >> =>
    /\ at \in {"media", "failed"} \/ (at = "yield" /\ then = "media")
    /\ pad \in Tracks /\ pads[pad] # "data"

\* The catalog has gone out to the session that is in.
Seen == (started \/ at = "choose") /\ link = "up" => shown

\* Nothing is unsent when a call begins, one that has told a message knows it, and
\* nothing of a message is unsent once media is handled.
MessagesFirst ==
  /\ at \in {"open", "idle"} => unsent = {}
  /\ \/ at \in {"mend", "hold", "choose", "refresh", "catch", "messages"}
     \/ at = "yield" /\ then = "messages"
     => \A t \in unsent : pads[t] = "data" => call.messages
  /\ at \in {"media", "gate"} \/ (at = "yield" /\ then = "media") =>
       \A t \in unsent : pads[t] # "data"

\* What was emptied stays so until the call returns.
StaysEmpty ==
  /\ at = "flush" /\ then = "return" => ~Held
  /\ QuietHoldsNothing

\* What is unsent has a row, and a flush ahead.
RowIsAhead ==
  params.groups /\ unsent # {} =>
    \/ call.last \/ at = "failed"
    \/ call.rows /\ at \in {"messages", "yield", "flush", "media", "gate"}

\* The conjuncts that are inductive together.
IInv ==
  /\ TypeOK
  /\ Routes
  /\ ReadyIsMedia
  /\ Seen
  /\ MessagesFirst
  /\ StaysEmpty
  /\ RowIsAhead

-----------------------------------------------------------------------------
(* A pacer's operations.                                                   *)

PaceOK(p) == p \in PaceType /\ Queued(p) \in Nat

\* No more leave than there are, and none of none.
LEMMA LeavingBound ==
  ASSUME NEW p, PaceOK(p), NEW subscribed \in BOOLEAN
  PROVE  Leaving(p, subscribed) \in 0 .. Queued(p)
<1>1. Most \in Nat /\ Queued(p) \in Nat  BY MostAssumption DEF PaceOK
<1>2. Excess(p) \in 0 .. Queued(p)  BY <1>1 DEF Excess
<1> QED BY <1>1, <1>2 DEF Leaving

\* A look leaves a pacer, and one that holds nothing as it is.
LEMMA LookedType ==
  ASSUME NEW p, PaceOK(p), NEW subscribed \in BOOLEAN
  PROVE  /\ PaceOK(Looked(p, subscribed))
         /\ Queued(p) = 0 => Looked(p, subscribed) = p
<1> DEFINE n == Leaving(p, subscribed)
           out == p.out + n
<1>1. n \in 0 .. Queued(p)  BY LeavingBound
<1>2. /\ p \in PaceType /\ p.cut \in Nat /\ p.out \in Nat /\ p.cut - p.out \in Nat
      /\ Queued(p) = p.cut - p.out
  BY DEF PaceOK, PaceType, Queued
<1> HIDE DEF n
<1>3. out \in Nat /\ p.cut - out \in Nat  BY <1>1, <1>2
<1>4. Queued(p) = 0 => out = p.out  BY <1>1, <1>2
<1>5. Looked(p, subscribed) =
        IF out = p.out THEN p
        ELSE [p EXCEPT !.out = out,
                       !.flight = IF p.open /\ out = p.cut THEN "none" ELSE "going"]
  BY DEF Looked, n
<1> HIDE DEF out
<1>6. (IF p.open /\ out = p.cut THEN "none" ELSE "going") \in Flight  BY DEF Flight
<1>7. CASE out = p.out  BY <1>4, <1>5, <1>7
<1>8. CASE out # p.out
  <2>1. Looked(p, subscribed) \in PaceType  BY <1>2, <1>3, <1>5, <1>6, <1>8 DEF PaceType
  <2>2. /\ Looked(p, subscribed).cut = p.cut /\ Looked(p, subscribed).out = out
    BY <1>2, <1>5, <1>8 DEF PaceType
  <2> QED BY <1>3, <1>4, <1>8, <2>1, <2>2 DEF PaceOK, Queued
<1> QED BY <1>7, <1>8

\* A pacer whose newest group is finished is one.
LEMMA ShutType ==
  ASSUME NEW p, PaceOK(p)
  PROVE  PaceOK(Shut(p)) /\ Shut(p).cut = p.cut /\ Shut(p).out = p.out
<1>1. (IF p.open /\ Queued(p) = 0 THEN "going" ELSE p.flight) \in Flight
  BY DEF PaceOK, PaceType, Flight
<1>2. /\ Shut(p) \in PaceType /\ Shut(p).cut = p.cut /\ Shut(p).out = p.out
  BY <1>1 DEF Shut, PaceOK, PaceType
<1> QED BY <1>2 DEF PaceOK, Queued

\* And so is one that begins another.
LEMMA BegunType ==
  ASSUME NEW p, PaceOK(p), NEW subscribed \in BOOLEAN
  PROVE  PaceOK(Begun(p, subscribed))
<1> DEFINE s == Shut(p)
           d == s.cut + 1
           b == [s EXCEPT !.cut = d, !.open = TRUE]
<1>1. s \in PaceType /\ s.cut \in Nat /\ s.out \in Nat /\ s.cut - s.out \in Nat
  BY ShutType DEF PaceOK, PaceType, Queued
<1>2. Begun(p, subscribed) = Looked(b, subscribed)  BY DEF Begun
<1>3. d \in Nat /\ d = s.cut + 1  BY <1>1
<1> HIDE DEF s, d
<1>4. b \in PaceType /\ b.cut = d /\ b.out = s.out  BY <1>1, <1>3 DEF PaceType
<1> HIDE DEF b
<1>5. PaceOK(b)  BY <1>1, <1>3, <1>4 DEF PaceOK, Queued
<1> QED BY <1>2, <1>5, LookedType

-----------------------------------------------------------------------------
(* A track's operations.                                                   *)

RenditionOK(r) == r \in RenditionType /\ Queued(r.pace) \in Nat

LEMMA RenditionPace == ASSUME NEW r, RenditionOK(r) PROVE PaceOK(r.pace)
BY DEF RenditionOK, RenditionType, PaceOK

\* With another pacer in it a track is one.
LEMMA PaceSet ==
  ASSUME NEW r, RenditionOK(r), NEW p, PaceOK(p)
  PROVE  RenditionOK([r EXCEPT !.pace = p]) /\ [r EXCEPT !.pace = p].pace = p
<1>1. /\ [r EXCEPT !.pace = p] \in RenditionType /\ [r EXCEPT !.pace = p].pace = p
  BY DEF RenditionOK, RenditionType, PaceOK
<1> QED BY <1>1 DEF RenditionOK, PaceOK

LEMMA ClosedType ==
  ASSUME NEW r, RenditionOK(r) PROVE RenditionOK(Closed(r))
<1>1. PaceOK(Shut(r.pace))  BY RenditionPace, ShutType
<1> QED BY <1>1, PaceSet DEF Closed

\* A track with one more frame is one.
LEMMA PublishedType ==
  ASSUME NEW t, NEW r, RenditionOK(r), NEW frame \in Packet
  PROVE  RenditionOK(Published(t, r, frame))
<1> DEFINE cut == StartsAGroup(t, r.groups, frame)
           p == IF cut THEN Begun(r.pace, t \in asked) ELSE r.pace
           gs == IF cut THEN Append(r.groups, <<frame>>)
                 ELSE IntoNewest(r.groups, frame)
           new == [r EXCEPT !.pace = p, !.groups = gs]
<1>1. PaceOK(p)
  <2>1. (t \in asked) \in BOOLEAN  OBVIOUS
  <2>2. PaceOK(r.pace)  BY RenditionPace
  <2>3. PaceOK(Begun(r.pace, t \in asked))  BY <2>1, <2>2, BegunType
  <2> QED BY <2>2, <2>3
<1>2. gs \in Seq(Seq(Packet))
  <2>1. r.groups \in Seq(Seq(Packet))  BY DEF RenditionOK, RenditionType
  <2>2. <<frame>> \in Seq(Packet)  OBVIOUS
  <2>3. CASE cut  BY <2>1, <2>2, <2>3
  <2>4. CASE ~cut
    <3> DEFINE s == r.groups
    <3>1. s \in Seq(Seq(Packet)) /\ s # << >>  BY <2>1, <2>4 DEF StartsAGroup
    <3>2. gs = IntoNewest(s, frame)  BY <2>4
    <3> HIDE DEF s, gs
    <3>3. Len(s) \in 1 .. Len(s) /\ s[Len(s)] \in Seq(Packet)
      BY <3>1, EmptySeq, LenProperties
    <3>4. Append(s[Len(s)], frame) \in Seq(Packet)  BY <3>3
    <3> QED BY <3>1, <3>2, <3>3, <3>4 DEF IntoNewest
  <2> QED BY <2>3, <2>4
<1> HIDE DEF cut, p, gs
<1>3. new \in RenditionType /\ new.pace = p
  BY <1>1, <1>2 DEF RenditionOK, RenditionType, PaceOK
<1>4. RenditionOK(new)  BY <1>1, <1>3 DEF RenditionOK, PaceOK
<1>5. Published(t, r, frame) = IF OneFragmentEach(t) THEN Closed(new) ELSE new
  BY DEF Published, cut, p, gs
<1> HIDE DEF new
<1> QED BY <1>4, <1>5, ClosedType

\* A look at every queue leaves the tracks, and nothing held where nothing was.
LEMMA ReleaseType ==
  ASSUME TypeOK, renditions' = Released, UNCHANGED pads
  PROVE  /\ renditions' \in [Tracks -> RenditionType]
         /\ \A t \in Tracks : Queued(renditions'[t].pace) \in Nat
         /\ ~Held => ~HeldThen
<1>1. ASSUME NEW t \in Tracks
      PROVE  /\ RenditionOK(renditions'[t])
             /\ Queued(renditions[t].pace) = 0 => renditions'[t].pace = renditions[t].pace
  <2> DEFINE p == Looked(renditions[t].pace, t \in asked)
  <2>1. RenditionOK(renditions[t])  BY DEF TypeOK, RenditionOK, RenditionType
  <2>2. (t \in asked) \in BOOLEAN  OBVIOUS
  <2>3. PaceOK(p) /\ (Queued(renditions[t].pace) = 0 => p = renditions[t].pace)
    BY <2>1, <2>2, RenditionPace, LookedType
  <2>4. renditions'[t] = [renditions[t] EXCEPT !.pace = p]  BY DEF Released
  <2> HIDE DEF p
  <2> QED BY <2>1, <2>3, <2>4, PaceSet
<1>2. DOMAIN renditions' = Tracks /\ renditions' = [t \in Tracks |-> renditions'[t]]
  BY DEF Released
<1>3. renditions' \in [Tracks -> RenditionType]  BY <1>1, <1>2 DEF RenditionOK
<1>4. \A t \in Tracks : Queued(renditions'[t].pace) \in Nat  BY <1>1 DEF RenditionOK
<1>5. ~Held => ~HeldThen
  <2> SUFFICES ASSUME ~Held, NEW t \in Tracks PROVE ~(Queued(renditions'[t].pace) > 0)
    BY DEF HeldThen, Tracks
  <2>1. Queued(renditions[t].pace) \in Nat /\ ~(Queued(renditions[t].pace) > 0)
    BY DEF Held, TypeOK
  <2>2. Queued(renditions[t].pace) = 0  BY <2>1
  <2> QED BY <1>1, <2>1, <2>2
<1> QED BY <1>3, <1>4, <1>5
-----------------------------------------------------------------------------
(* Types, and where a call goes.                                           *)

\* The types of where the call is and of what it knows,
CallTypes ==
  /\ at \in Phases /\ then \in Phases
  /\ spins \in 0 .. FlushTurns + CatchUpTurns /\ pad \in 1 .. Len(pads) + 1
  /\ call \in CallType
  /\ started \in BOOLEAN /\ turns \in BOOLEAN /\ quiet \in BOOLEAN /\ late \in BOOLEAN
  /\ sent \in BOOLEAN
  /\ link \in {"none", "up", "ended", "down", "dialed", "spent"}
  /\ asked \subseteq Tracks \cup {0} /\ shown \in BOOLEAN
  /\ unsent \subseteq Tracks /\ finished \in BOOLEAN

\* and those of the tracks and of what is on its way into them.
TrackTypes ==
  /\ input \in [Tracks -> Seq(Packet)] /\ ready \in Seq(Packet)
  /\ renditions \in [Tracks -> RenditionType]
  /\ \A t \in Tracks : Queued(renditions[t].pace) \in Nat
  /\ offered \in [Tracks -> Nat]

LEMMA Types == TypeOK <=> CallTypes /\ TrackTypes
BY DEF TypeOK, CallTypes, TrackTypes, RenditionType, CallType

\* A step that changes neither a track nor what is on its way into one.
LEMMA SameTracks ==
  ASSUME TrackTypes, UNCHANGED <<pads, input, ready, renditions, offered>>
  PROVE  TrackTypes'
<1>1. Tracks' = Tracks  BY DEF Tracks
<1>2. \A t \in Tracks : Queued(renditions[t].pace)' = Queued(renditions[t].pace)
  BY DEF Queued
<1> QED BY <1>1, <1>2 DEF TrackTypes

\* Most steps do not.
LEMMA SimpleTypes ==
  ASSUME CallTypes, TrackTypes, Routes,
         \/ Open \/ Mend \/ Hold \/ Choose \/ Refresh \/ Told \/ Yield \/ NextPad
         \/ MediaDone \/ Fail \/ Gate \/ Settle \/ Return \/ Drain \/ Close \/ Ask
         \/ Drop \/ Redial \/ Deadline \/ UNCHANGED vars
  PROVE  CallTypes' /\ TrackTypes' /\ Routes'
<1> USE DEF Goto, Await, Stay, opened, relay, clock, counter, work, rest
<1>0. /\ pads \in Seq(Kinds) /\ Len(pads) \in Nat
      /\ 0 \in 0 .. FlushTurns + CatchUpTurns /\ 1 \in 1 .. Len(pads) + 1
  <2>1. Len(pads) \in Nat  BY LenProperties DEF Routes
  <2>2. FlushTurns \in Nat /\ CatchUpTurns \in Nat  BY PubSessionAssumption
  <2> QED BY <2>1, <2>2 DEF Routes
<1> USE DEF CallTypes, Phases, Awaits, Ends, Routes
<1>1. CASE Open
  <2>1. UNCHANGED <<pads, input, ready, renditions, offered>>  BY <1>1 DEF Open
  <2>2. TrackTypes'  BY <2>1, SameTracks
  <2>3. CallTypes'  BY <1>0, <1>1 DEF Open, Tracks
  <2>4. Routes'  BY <1>1 DEF Open
  <2> QED BY <2>2, <2>3, <2>4
<1>2. CASE Mend
  <2>1. UNCHANGED <<pads, input, ready, renditions, offered>>  BY <1>2 DEF Mend, Installed, PublishCatalog, Dialed
  <2>2. TrackTypes'  BY <2>1, SameTracks
  <2>3. CallTypes'
    <3>1. /\ at' \in Phases /\ then' = "idle" /\ link' \in {"none", "up", "ended", "down", "dialed", "spent"}
          /\ sent' \in BOOLEAN /\ shown' \in BOOLEAN
          /\ call' = call \/ call' = [call EXCEPT !.rows = TRUE]
          /\ UNCHANGED <<pads, asked, quiet, late, spins, pad, started, turns, unsent, finished>>
      BY <1>2 DEF Mend, Installed, PublishCatalog, Dialed
    <3>2. call' \in CallType  BY <3>1 DEF CallType
    <3>3. Tracks' = Tracks  BY <3>1 DEF Tracks
    <3> QED BY <3>1, <3>2, <3>3
  <2>4. Routes'  BY <1>2 DEF Mend, Installed, PublishCatalog, Dialed
  <2> QED BY <2>2, <2>3, <2>4
<1>3. CASE Hold
  <2>1. UNCHANGED <<pads, input, ready, renditions, offered>>  BY <1>3 DEF Hold, PublishCatalog
  <2>2. TrackTypes'  BY <2>1, SameTracks
  <2>3. CallTypes'  BY <1>0, <1>3 DEF Hold, PublishCatalog, Tracks
  <2>4. Routes'  BY <1>3 DEF Hold, PublishCatalog
  <2> QED BY <2>2, <2>3, <2>4
<1>4. CASE Choose
  <2>1. UNCHANGED <<pads, input, ready, renditions, offered>>  BY <1>4 DEF Choose
  <2>2. TrackTypes'  BY <2>1, SameTracks
  <2>3. CallTypes'
    <3>1. /\ at' = "refresh" /\ then' = "idle" /\ started' = TRUE /\ late' = FALSE
          /\ UNCHANGED <<pads, link, asked, shown, sent, quiet, spins, pad, call, turns, unsent,
                         finished>>
      BY <1>4 DEF Choose
    <3>2. Tracks' = Tracks  BY <3>1 DEF Tracks
    <3>3. CallTypes  OBVIOUS
    <3>4. at' \in Phases /\ then' \in Phases /\ started' \in BOOLEAN /\ late' \in BOOLEAN
      BY <3>1
    <3>5. /\ spins' \in 0 .. FlushTurns + CatchUpTurns /\ pad' \in 1 .. Len(pads') + 1
          /\ call' \in CallType
          /\ turns' \in BOOLEAN /\ quiet' \in BOOLEAN /\ sent' \in BOOLEAN
          /\ link' \in {"none", "up", "ended", "down", "dialed", "spent"}
          /\ shown' \in BOOLEAN /\ finished' \in BOOLEAN
      BY <3>1, <3>3
    <3>6. asked' \subseteq Tracks' \cup {0} /\ unsent' \subseteq Tracks'
      BY <3>1, <3>2, <3>3
    <3> HIDE DEF Phases
    <3> QED BY ONLY <3>4, <3>5, <3>6 DEF CallTypes
  <2>4. Routes'  BY <1>4 DEF Choose
  <2> QED BY <2>2, <2>3, <2>4
<1>5. CASE Refresh
  <2>1. UNCHANGED <<pads, input, ready, renditions, offered>>  BY <1>5 DEF Refresh, PublishCatalog
  <2>2. TrackTypes'  BY <2>1, SameTracks
  <2>3. CallTypes'
    <3>1. /\ at' = "catch" /\ then' = "idle" /\ spins' = 0
          /\ sent' \in BOOLEAN /\ shown' \in BOOLEAN
          /\ UNCHANGED <<pads, link, asked, quiet, late, pad, call, started, turns, unsent,
                         finished>>
      BY <1>5 DEF Refresh, PublishCatalog
    <3>2. Tracks' = Tracks  BY <3>1 DEF Tracks
    <3> QED BY <1>0, <3>1, <3>2
  <2>4. Routes'  BY <1>5 DEF Refresh, PublishCatalog
  <2> QED BY <2>2, <2>3, <2>4
<1>6. CASE Told
  <2>1. UNCHANGED <<pads, input, ready, renditions, offered>>  BY <1>6 DEF Told, ToldFirst
  <2>2. TrackTypes'  BY <2>1, SameTracks
  <2>3. CallTypes'  BY <1>0, <1>6 DEF Told, ToldFirst, Tracks
  <2>4. Routes'  BY <1>6 DEF Told, ToldFirst
  <2> QED BY <2>2, <2>3, <2>4
<1>7. CASE Yield
  <2>1. UNCHANGED <<pads, input, ready, renditions, offered>>  BY <1>7 DEF Yield
  <2>2. TrackTypes'  BY <2>1, SameTracks
  <2>3. CallTypes'  BY <1>0, <1>7 DEF Yield, Tracks
  <2>4. Routes'  BY <1>7 DEF Yield
  <2> QED BY <2>2, <2>3, <2>4
<1>8. CASE NextPad
  <2>1. UNCHANGED <<pads, input, ready, renditions, offered>>  BY <1>8 DEF NextPad
  <2>2. TrackTypes'  BY <2>1, SameTracks
  <2>3. CallTypes'  BY <1>0, <1>8 DEF NextPad, Tracks
  <2>4. Routes'  BY <1>8 DEF NextPad
  <2> QED BY <2>2, <2>3, <2>4
<1>9. CASE MediaDone
  <2>1. UNCHANGED <<pads, input, ready, renditions, offered>>  BY <1>9 DEF MediaDone
  <2>2. TrackTypes'  BY <2>1, SameTracks
  <2>3. CallTypes'  BY <1>0, <1>9 DEF MediaDone, Tracks
  <2>4. Routes'  BY <1>9 DEF MediaDone
  <2> QED BY <2>2, <2>3, <2>4
<1>10. CASE Fail
  <2>1. UNCHANGED <<pads, input, ready, renditions, offered>>  BY <1>10 DEF Fail
  <2>2. TrackTypes'  BY <2>1, SameTracks
  <2>3. CallTypes'  BY <1>0, <1>10 DEF Fail, Tracks
  <2>4. Routes'  BY <1>10 DEF Fail
  <2> QED BY <2>2, <2>3, <2>4
<1>11. CASE Gate
  <2>1. UNCHANGED <<pads, input, ready, renditions, offered>>  BY <1>11 DEF Gate
  <2>2. TrackTypes'  BY <2>1, SameTracks
  <2>3. CallTypes'  BY <1>0, <1>11 DEF Gate, Tracks
  <2>4. Routes'  BY <1>11 DEF Gate
  <2> QED BY <2>2, <2>3, <2>4
<1>12. CASE Settle
  <2>1. UNCHANGED <<pads, input, ready, renditions, offered>>  BY <1>12 DEF Settle
  <2>2. TrackTypes'  BY <2>1, SameTracks
  <2>3. CallTypes'
    <3>1. /\ at' \in Phases /\ then' \in Phases /\ quiet' \in BOOLEAN
          /\ UNCHANGED <<pads, link, asked, shown, sent, late, spins, pad, call, started, turns,
                         unsent, finished>>
      BY <1>12 DEF Settle
    <3>2. Tracks' = Tracks  BY <3>1 DEF Tracks
    <3> QED BY <3>1, <3>2
  <2>4. Routes'  BY <1>12 DEF Settle
  <2> QED BY <2>2, <2>3, <2>4
<1>13. CASE Return
  <2>1. UNCHANGED <<pads, input, ready, renditions, offered>>  BY <1>13 DEF Return, NoCall
  <2>2. TrackTypes'  BY <2>1, SameTracks
  <2>3. CallTypes'
    <3>1. /\ at' \in Phases /\ then' \in Phases
          /\ call' = [last |-> call.last, turn |-> FALSE, freed |-> FALSE, messages |-> FALSE,
                      rows |-> call.last /\ call.rows]
          /\ unsent' = unsent \/ unsent' = {}
          /\ UNCHANGED <<pads, link, asked, shown, sent, quiet, late, spins, pad, started, turns,
                         finished>>
      BY <1>13 DEF Return, NoCall
    <3>2. (call.last /\ call.rows) \in BOOLEAN  OBVIOUS
    <3>3. call' \in CallType  BY <3>1, <3>2 DEF CallType
    <3>4. Tracks' = Tracks  BY <3>1 DEF Tracks
    <3> QED BY <3>1, <3>3, <3>4
  <2>4. Routes'  BY <1>13 DEF Return, NoCall
  <2> QED BY <2>2, <2>3, <2>4
<1>14. CASE Drain
  <2>1. UNCHANGED <<pads, input, ready, renditions, offered>>  BY <1>14 DEF Drain
  <2>2. TrackTypes'  BY <2>1, SameTracks
  <2>3. CallTypes'  BY <1>0, <1>14 DEF Drain, Tracks
  <2>4. Routes'  BY <1>14 DEF Drain
  <2> QED BY <2>2, <2>3, <2>4
<1>15. CASE Close
  <2>1. UNCHANGED <<pads, input, ready, renditions, offered>>  BY <1>15 DEF Close
  <2>2. TrackTypes'  BY <2>1, SameTracks
  <2>3. CallTypes'  BY <1>0, <1>15 DEF Close, Tracks
  <2>4. Routes'  BY <1>15 DEF Close
  <2> QED BY <2>2, <2>3, <2>4
<1>16. CASE Ask
  <2>1. UNCHANGED <<pads, input, ready, renditions, offered>>  BY <1>16 DEF Ask
  <2>2. TrackTypes'  BY <2>1, SameTracks
  <2>3. CallTypes'  BY <1>0, <1>16 DEF Ask, Tracks
  <2>4. Routes'  BY <1>16 DEF Ask
  <2> QED BY <2>2, <2>3, <2>4
<1>17. CASE Drop
  <2>1. UNCHANGED <<pads, input, ready, renditions, offered>>  BY <1>17 DEF Drop
  <2>2. TrackTypes'  BY <2>1, SameTracks
  <2>3. CallTypes'
    <3>1. /\ link' = "ended" /\ asked' = {} /\ shown' = FALSE
          /\ UNCHANGED <<pads, sent, quiet, late, at, then, spins, pad, call, started, turns,
                         unsent, finished>>
      BY <1>17 DEF Drop
    <3>2. Tracks' = Tracks  BY <3>1 DEF Tracks
    <3>3. /\ link' \in {"none", "up", "ended", "down", "dialed", "spent"}
          /\ asked' \subseteq Tracks \cup {0} /\ shown' \in BOOLEAN
      BY <3>1
    <3>4. UNCHANGED <<pads, sent, quiet, late, at, then, spins, pad, call, started, turns,
                      unsent, finished>>
      BY <3>1
    <3> QED BY <3>2, <3>3, <3>4
  <2>4. Routes'  BY <1>17 DEF Drop
  <2> QED BY <2>2, <2>3, <2>4
<1>18. CASE Redial
  <2>1. UNCHANGED <<pads, input, ready, renditions, offered>>  BY <1>18 DEF Redial
  <2>2. TrackTypes'  BY <2>1, SameTracks
  <2>3. CallTypes'  BY <1>0, <1>18 DEF Redial, Tracks
  <2>4. Routes'  BY <1>18 DEF Redial
  <2> QED BY <2>2, <2>3, <2>4
<1>19. CASE Deadline
  <2>1. UNCHANGED <<pads, input, ready, renditions, offered>>  BY <1>19 DEF Deadline
  <2>2. TrackTypes'  BY <2>1, SameTracks
  <2>3. CallTypes'  BY <1>0, <1>19 DEF Deadline, Tracks
  <2>4. Routes'  BY <1>19 DEF Deadline
  <2> QED BY <2>2, <2>3, <2>4
<1>20. CASE UNCHANGED vars
  <2>1. UNCHANGED <<pads, input, ready, renditions, offered>>  BY <1>20 DEF vars
  <2>2. TrackTypes'  BY <2>1, SameTracks
  <2>3. CallTypes'  BY <1>0, <1>20 DEF vars, Tracks
  <2>4. Routes'  BY <1>20 DEF vars
  <2> QED BY <2>2, <2>3, <2>4
<1> QED
  BY <1>1, <1>2, <1>3, <1>4, <1>5, <1>6, <1>7, <1>8, <1>9, <1>10, <1>11, <1>12, <1>13, <1>14, <1>15, <1>16, <1>17, <1>18, <1>19, <1>20

\* What a look at the queues changes, or what becomes of a group in flight.
LEMMA QueueTypes ==
  ASSUME CallTypes, TrackTypes, Routes,
         \/ CatchUp \/ Flush \/ EmptyQueues
         \/ \E t \in Tracks : Take(t) \/ Deliver(t) \/ Pass(t)
  PROVE  CallTypes' /\ TrackTypes' /\ Routes'
<1> USE DEF Goto, Await, Stay, opened, relay, clock, counter, work, rest
<1>0. FlushTurns \in Nat /\ CatchUpTurns \in Nat  BY PubSessionAssumption
<1>1. ASSUME UNCHANGED <<pads, input, ready, offered>>, renditions' = Released
      PROVE  TrackTypes'
  <2>1. Tracks' = Tracks  BY <1>1 DEF Tracks
  <2>2. TypeOK  BY Types
  <2>3. /\ renditions' \in [Tracks -> RenditionType]
        /\ \A t \in Tracks : Queued(renditions'[t].pace) \in Nat
    BY <1>1, <2>2, ReleaseType
  <2>4. \A t \in Tracks : Queued(renditions[t].pace)' = Queued(renditions'[t].pace)
    BY DEF Queued
  <2> QED BY <1>1, <2>1, <2>3, <2>4 DEF TrackTypes
<1>2. CASE CatchUp
  <2>1. /\ UNCHANGED <<pads, params, link, asked, shown, sent, late, pad, input, ready, started,
                       turns, offered, unsent, finished>>
        /\ renditions' = Released
        /\ call' = [call EXCEPT !.freed = @ \/ renditions' # renditions]
        /\ at' \in {"catch", "messages"} /\ then' = "idle"
        /\ \/ spins < CatchUpTurns /\ spins' = spins + 1 /\ UNCHANGED quiet
           \/ /\ spins' = 0
              /\ quiet' = (quiet /\ \A t \in Tracks : pads[t] = "data" \/ input[t] = << >>)
    BY <1>2 DEF CatchUp, Release
  <2>2. TrackTypes'  BY <1>1, <2>1
  <2>3. Routes'  BY <1>2, <2>1 DEF Routes, CatchUp
  <2>4. CallTypes'
    <3>1. (call.freed \/ renditions' # renditions) \in BOOLEAN  BY DEF CallTypes
    <3>2. call' \in CallType  BY <2>1, <3>1 DEF CallTypes, CallType
    <3>3. quiet' \in BOOLEAN  BY <2>1 DEF CallTypes
    <3>4. spins' \in 0 .. FlushTurns + CatchUpTurns  BY <1>0, <2>1 DEF CallTypes
    <3>5. Tracks' = Tracks  BY <2>1 DEF Tracks
    <3>6. at' \in Phases /\ then' \in Phases  BY <2>1 DEF Phases, Awaits
    <3> QED BY <2>1, <3>2, <3>3, <3>4, <3>5, <3>6 DEF CallTypes
  <2> QED BY <2>2, <2>3, <2>4
<1>3. CASE Flush
  <2>1. /\ UNCHANGED <<pads, params, link, asked, shown, sent, quiet, late, pad, call, input,
                       ready, started, turns, offered, finished>>
        /\ renditions' = Released /\ at = "flush"
        /\ \/ spins + 1 < FlushTurns /\ spins' = spins + 1 /\ UNCHANGED <<at, then, unsent>>
           \/ spins' = 0 /\ at' = then /\ then' = "idle" /\ unsent' = {}
    BY <1>3 DEF Flush, Release
  <2>2. TrackTypes'  BY <1>1, <2>1
  <2>3. Routes'  BY <2>1 DEF Routes
  <2>4. CallTypes'
    <3>1. spins' \in 0 .. FlushTurns + CatchUpTurns  BY <1>0, <2>1 DEF CallTypes
    <3>2. Tracks' = Tracks  BY <2>1 DEF Tracks
    <3>3. at' \in Phases /\ then' \in Phases  BY <2>1 DEF CallTypes, Phases
    <3>4. unsent' \subseteq Tracks  BY <2>1 DEF CallTypes
    <3> QED BY <2>1, <3>1, <3>2, <3>3, <3>4 DEF CallTypes
  <2> QED BY <2>2, <2>3, <2>4
<1>4. CASE EmptyQueues
  <2>1. /\ UNCHANGED <<pads, params, link, asked, shown, sent, quiet, late, then, spins, pad,
                       call, input, ready, started, turns, offered, unsent, finished>>
        /\ renditions' = Released /\ at = "empty" /\ at' \in {"empty", "flush"}
    BY <1>4 DEF EmptyQueues, Release
  <2>2. TrackTypes'  BY <1>1, <2>1
  <2>3. Routes'  BY <2>1 DEF Routes
  <2>4. Tracks' = Tracks /\ at' \in Phases  BY <2>1 DEF Tracks, Phases, Awaits
  <2>5. CallTypes'  BY <2>1, <2>4 DEF CallTypes
  <2> QED BY <2>2, <2>3, <2>5
<1>5. ASSUME NEW t \in Tracks, Take(t) \/ Deliver(t) \/ Pass(t)
      PROVE  CallTypes' /\ TrackTypes' /\ Routes'
  <2>1. PICK to \in Flight : /\ renditions' = [renditions EXCEPT ![t].pace.flight = to]
                             /\ UNCHANGED <<opened, relay, clock, counter, call, input, ready, rest>>
    BY <1>5 DEF Take, Deliver, Pass, InFlight, Flight
  <2>2. Tracks' = Tracks  BY <2>1 DEF Tracks
  <2>3. CallTypes' /\ Routes'  BY <2>1, <2>2 DEF CallTypes, Routes
  <2>4. /\ renditions' \in [Tracks -> RenditionType]
        /\ \A u \in Tracks : /\ renditions'[u].pace.cut = renditions[u].pace.cut
                             /\ renditions'[u].pace.out = renditions[u].pace.out
    BY <2>1 DEF TrackTypes, RenditionType, PaceType
  <2>5. \A u \in Tracks : Queued(renditions'[u].pace) = Queued(renditions[u].pace)
    BY <2>4 DEF Queued
  <2>6. \A u \in Tracks : Queued(renditions[u].pace)' = Queued(renditions'[u].pace)
    BY DEF Queued
  <2>7. TrackTypes'  BY <2>1, <2>2, <2>4, <2>5, <2>6 DEF TrackTypes
  <2> QED BY <2>3, <2>7
<1> QED BY <1>2, <1>3, <1>4, <1>5

\* A track that becomes r: it is one, and what that finished has a row.
LEMMA BecomesTypes ==
  ASSUME CallTypes, TrackTypes, UNCHANGED <<pads, offered>>, NEW t \in Tracks,
         NEW r, RenditionOK(r), Becomes(t, r),
         input' \in [Tracks -> Seq(Packet)], ready' \in Seq(Packet)
  PROVE  /\ TrackTypes'
         /\ call' \in CallType
         /\ call'.last = call.last /\ (call.rows => call'.rows)
         /\ pads[t] = "data" => call'.messages
         /\ unsent' \subseteq unsent \cup {t}
         /\ params.groups /\ unsent' # unsent => call'.rows
<1> DEFINE closes == Complete(r) > Complete(renditions[t])
<1>1. /\ renditions' = [renditions EXCEPT ![t] = r]
      /\ unsent' = (IF closes THEN unsent \cup {t} ELSE unsent)
      /\ call' = [call EXCEPT !.rows = @ \/ (closes /\ params.groups),
                             !.messages = @ \/ pads[t] = "data"]
  BY DEF Becomes
<1> HIDE DEF closes
<1>2. Tracks' = Tracks  BY DEF Tracks
<1>3. \A u \in Tracks : renditions'[u] = IF u = t THEN r ELSE renditions[u]
  BY <1>1 DEF TrackTypes
<1>4. renditions' \in [Tracks -> RenditionType]  BY <1>1 DEF TrackTypes, RenditionOK
<1>5. \A u \in Tracks : Queued(renditions'[u].pace) \in Nat
  BY <1>3 DEF TrackTypes, RenditionOK
<1>6. \A u \in Tracks : Queued(renditions[u].pace)' = Queued(renditions'[u].pace)
  BY DEF Queued
<1>7. TrackTypes'  BY <1>2, <1>4, <1>5, <1>6 DEF TrackTypes
<1>8. /\ (call.rows \/ (closes /\ params.groups)) \in BOOLEAN
      /\ (call.messages \/ pads[t] = "data") \in BOOLEAN
  OBVIOUS
<1>9. /\ call' \in CallType
      /\ call'.last = call.last /\ call'.rows = (call.rows \/ (closes /\ params.groups))
      /\ call'.messages = (call.messages \/ pads[t] = "data")
  BY <1>1, <1>8 DEF CallTypes, CallType
<1> QED BY <1>1, <1>7, <1>9

\* A track as the others know it.
LEMMA TrackOK ==
  ASSUME TrackTypes, NEW t \in Tracks
  PROVE  RenditionOK(renditions[t])
BY DEF TrackTypes, RenditionOK

\* The head of what is not empty is a packet, and the tail a sequence of them.
LEMMA Packets ==
  ASSUME NEW s \in Seq(Packet), s # << >>
  PROVE  Head(s) \in Packet /\ Tail(s) \in Seq(Packet)
OBVIOUS

\* A message goes out in a group.
LEMMA TellTypes ==
  ASSUME CallTypes, TrackTypes, Routes, Tell
  PROVE  /\ CallTypes' /\ TrackTypes' /\ Routes' /\ call'.messages
         /\ call'.last = call.last /\ (call.rows => call'.rows)
         /\ params.groups /\ unsent' # unsent => call'.rows
<1>1. PICK t \in Tracks : /\ pads[t] = "data" /\ input[t] # << >>
                          /\ Becomes(t, Published(t, renditions[t], Head(input[t])))
                          /\ input' = [input EXCEPT ![t] = Tail(@)]
  BY DEF Tell
<1>2. /\ at' = "yield" /\ then' = "messages"
      /\ UNCHANGED <<pads, params, link, asked, shown, sent, quiet, late, spins, pad, ready,
                     started, turns, offered, finished>>
  BY DEF Tell, Await, opened, relay, clock
<1>3. input[t] \in Seq(Packet)  BY DEF TrackTypes
<1>4. Head(input[t]) \in Packet /\ Tail(input[t]) \in Seq(Packet)  BY <1>1, <1>3, Packets
<1>5. RenditionOK(Published(t, renditions[t], Head(input[t])))
  BY <1>4, TrackOK, PublishedType
<1>6. input' \in [Tracks -> Seq(Packet)] /\ ready' \in Seq(Packet)
  BY <1>1, <1>2, <1>4 DEF TrackTypes
<1> DEFINE r == Published(t, renditions[t], Head(input[t]))
<1>7. Becomes(t, r) /\ RenditionOK(r)  BY <1>1, <1>5
<1> HIDE DEF r
<1>8. /\ TrackTypes'
      /\ call' \in CallType
      /\ call'.last = call.last /\ (call.rows => call'.rows) /\ call'.messages
      /\ unsent' \subseteq unsent \cup {t}
      /\ params.groups /\ unsent' # unsent => call'.rows
  BY <1>1, <1>2, <1>6, <1>7, BecomesTypes
<1>9. CallTypes'
  <2>1. Tracks' = Tracks /\ unsent' \subseteq Tracks  BY <1>2, <1>8 DEF Tracks, CallTypes
  <2>2. at' \in Phases /\ then' \in Phases  BY <1>2 DEF Phases, Awaits
  <2> QED BY <1>2, <1>8, <2>1, <2>2 DEF CallTypes
<1>10. Routes'  BY <1>2 DEF Routes
<1> QED BY <1>8, <1>9, <1>10

\* A fragment goes out in a group.
LEMMA FragmentTypes ==
  ASSUME CallTypes, TrackTypes, Routes, Fragment, pad \in Tracks
  PROVE  /\ CallTypes' /\ TrackTypes' /\ Routes'
         /\ call'.last = call.last /\ (call.rows => call'.rows)
         /\ unsent' \subseteq unsent \cup {pad}
         /\ params.groups /\ unsent' # unsent => call'.rows
<1> DEFINE r == Published(pad, renditions[pad], Head(ready))
<1>1. /\ ready # << >> /\ ready' = Tail(ready) /\ Becomes(pad, r)
      /\ \/ at' = "yield" /\ then' = "media"
         \/ at' = "media" /\ then' = "idle"
      /\ UNCHANGED <<pads, params, link, asked, shown, sent, quiet, late, spins, pad, input,
                     started, turns, offered, finished>>
  BY DEF Fragment, Await, Goto, opened, relay, clock
<1>2. Head(ready) \in Packet /\ Tail(ready) \in Seq(Packet)
  BY <1>1, Packets DEF TrackTypes
<1>3. RenditionOK(r)  BY <1>2, TrackOK, PublishedType
<1>4. input' \in [Tracks -> Seq(Packet)] /\ ready' \in Seq(Packet)
  BY <1>1, <1>2 DEF TrackTypes
<1> HIDE DEF r
<1>5. /\ TrackTypes'
      /\ call' \in CallType
      /\ call'.last = call.last /\ (call.rows => call'.rows)
      /\ unsent' \subseteq unsent \cup {pad}
      /\ params.groups /\ unsent' # unsent => call'.rows
  BY <1>1, <1>3, <1>4, BecomesTypes
<1>6. CallTypes'
  <2>1. Tracks' = Tracks /\ unsent' \subseteq Tracks  BY <1>1, <1>5 DEF Tracks, CallTypes
  <2>2. at' \in Phases /\ then' \in Phases  BY <1>1 DEF Phases, Awaits
  <2> QED BY <1>1, <1>5, <2>1, <2>2 DEF CallTypes
<1>7. Routes'  BY <1>1 DEF Routes
<1> QED BY <1>5, <1>6, <1>7

\* A packet goes into the muxer.
LEMMA PushTypes ==
  ASSUME CallTypes, TrackTypes, Routes, Push
  PROVE  CallTypes' /\ TrackTypes' /\ Routes'
<1>1. /\ at = "media" /\ pad \in Tracks /\ input[pad] # << >>
      /\ ready' = renditions[pad].muxer
      /\ renditions' = [renditions EXCEPT ![pad].muxer = <<Head(input[pad])>>]
      /\ input' = [input EXCEPT ![pad] = Tail(@)]
      /\ UNCHANGED <<pads, params, link, asked, shown, sent, quiet, late, at, then, spins, pad,
                     call, started, turns, offered, unsent, finished>>
  BY DEF Push, opened, relay, clock, counter, rest
<1>2. Tracks' = Tracks  BY <1>1 DEF Tracks
<1>3. CallTypes' /\ Routes'  BY <1>1, <1>2 DEF CallTypes, Routes
<1>4. Head(input[pad]) \in Packet /\ Tail(input[pad]) \in Seq(Packet)
  BY <1>1, Packets DEF TrackTypes
<1>5. <<Head(input[pad])>> \in Seq(Packet)  BY <1>4
<1>6. input' \in [Tracks -> Seq(Packet)]  BY <1>1, <1>4 DEF TrackTypes
<1>7. ready' \in Seq(Packet)  BY <1>1 DEF TrackTypes, RenditionType
<1>8. /\ renditions' \in [Tracks -> RenditionType]
      /\ \A t \in Tracks : renditions'[t].pace = renditions[t].pace
  BY <1>1, <1>5 DEF TrackTypes, RenditionType
<1>9. \A t \in Tracks : Queued(renditions[t].pace)' = Queued(renditions[t].pace)
  BY <1>8 DEF Queued
<1>10. TrackTypes'  BY <1>1, <1>2, <1>6, <1>7, <1>8, <1>9 DEF TrackTypes
<1> QED BY <1>3, <1>10

\* Every tail is published and its group closed.
LEMMA FinishTypes ==
  ASSUME CallTypes, TrackTypes, Routes, Finish
  PROVE  CallTypes' /\ TrackTypes' /\ Routes'
<1>1. /\ at = "finish" /\ renditions' = [t \in Tracks |-> Completed(t)]
      /\ unsent' = unsent \cup {t \in Tracks : Complete(renditions'[t]) > Complete(renditions[t])}
      /\ at' \in {"empty", "drain"} /\ then' \in {"drain", "idle"}
      /\ at' = "empty" => then' = "drain"
      /\ UNCHANGED <<pads, params, link, asked, shown, sent, quiet, late, spins, pad, call, input,
                     ready, started, turns, offered, finished>>
  BY DEF Finish, FinishInTurn, Await, Goto, opened, relay, clock
<1>2. Tracks' = Tracks  BY <1>1 DEF Tracks
<1>3. ASSUME NEW t \in Tracks PROVE RenditionOK(Completed(t))
  <2> DEFINE r == renditions[t]
             p == Published(t, r, Head(r.muxer))
  <2>1. RenditionOK(r) /\ r.muxer \in Seq(Packet)  BY TrackOK DEF RenditionOK, RenditionType
  <2>2. Completed(t) = Closed(IF r.muxer = << >> THEN r ELSE [p EXCEPT !.muxer = << >>])
    BY DEF Completed
  <2>3. CASE r.muxer = << >>  BY <2>1, <2>2, <2>3, ClosedType
  <2>4. CASE r.muxer # << >>
    <3>1. Head(r.muxer) \in Packet  BY <2>1, <2>4, Packets
    <3>2. RenditionOK(p)  BY <2>1, <3>1, PublishedType
    <3> HIDE DEF p, r
    <3>3. << >> \in Seq(Packet)  OBVIOUS
    <3>4. /\ [p EXCEPT !.muxer = << >>] \in RenditionType
          /\ [p EXCEPT !.muxer = << >>].pace = p.pace
      BY <3>2, <3>3 DEF RenditionOK, RenditionType
    <3>5. RenditionOK([p EXCEPT !.muxer = << >>])  BY <3>2, <3>4 DEF RenditionOK
    <3> QED BY <2>2, <2>4, <3>5, ClosedType
  <2> QED BY <2>3, <2>4
<1>4. \A t \in Tracks : RenditionOK(renditions'[t])  BY <1>1, <1>3
<1>5. renditions' \in [Tracks -> RenditionType]  BY <1>1, <1>4 DEF RenditionOK
<1>6. \A t \in Tracks : /\ Queued(renditions'[t].pace) \in Nat
                        /\ Queued(renditions[t].pace)' = Queued(renditions'[t].pace)
  BY <1>4 DEF RenditionOK, Queued
<1>7. TrackTypes'  BY <1>1, <1>2, <1>5, <1>6 DEF TrackTypes
<1>8. CallTypes'
  <2>1. unsent' \subseteq Tracks  BY <1>1 DEF CallTypes
  <2>2. at' \in Phases /\ then' \in Phases  BY <1>1 DEF Phases, Awaits
  <2> QED BY <1>1, <1>2, <2>1, <2>2 DEF CallTypes
<1>9. Routes'  BY <1>1 DEF Routes
<1> QED BY <1>7, <1>8, <1>9

\* A call brings packets.
LEMMA CalledTypes ==
  ASSUME CallTypes, TrackTypes, Routes, NEW last \in BOOLEAN, Call(last)
  PROVE  CallTypes' /\ TrackTypes' /\ Routes'
<1>1. /\ at = "idle"
      /\ input' \in [Tracks -> UNION {Batch(t) : t \in Tracks}]
      /\ \A t \in Tracks : input'[t] \in Batch(t)
      /\ offered' = [t \in Tracks |-> offered[t] + Len(input'[t])]
      /\ UNCHANGED <<pads, params, link, asked, shown, sent, quiet, late, spins, pad, ready,
                     renditions, started, unsent, finished>>
      /\ at' \in {"return", "mend"} /\ then' = "idle"
      /\ turns' \in BOOLEAN
      /\ \E turn \in BOOLEAN : call' = [NoCall EXCEPT !.last = last, !.turn = turn]
  BY DEF Call, Goto, opened, relay, clock, CallTypes
<1>2. Tracks' = Tracks  BY <1>1 DEF Tracks
<1>3. ASSUME NEW t \in Tracks PROVE input'[t] \in Seq(Packet)
  <2>1. offered[t] \in Nat  BY DEF TrackTypes
  <2> DEFINE bound == Min({MaxBatch, Left})
             pads_t == IF pads[t] = "video" THEN BOOLEAN ELSE {TRUE}
  <2>2. input'[t] \in UNION {{[i \in 1 .. n |-> [pts |-> offered[t] + i, key |-> keys[i]]] :
                                 keys \in [1 .. n -> pads_t]} : n \in 0 .. bound}
    BY <1>1 DEF Batch
  <2>3. pads_t \subseteq BOOLEAN  OBVIOUS
  <2> HIDE DEF bound, pads_t
  <2>4. PICK n \in 0 .. bound :
          input'[t] \in {[i \in 1 .. n |-> [pts |-> offered[t] + i, key |-> keys[i]]] :
                            keys \in [1 .. n -> pads_t]}
    BY <2>2
  <2>5. PICK keys \in [1 .. n -> pads_t] :
          input'[t] = [i \in 1 .. n |-> [pts |-> offered[t] + i, key |-> keys[i]]]
    BY <2>4
  <2>6. n \in Nat  BY <2>4
  <2>7. \A i \in 1 .. n : [pts |-> offered[t] + i, key |-> keys[i]] \in Packet
    BY <2>1, <2>3, <2>5, <2>6 DEF Packet
  <2> QED BY <2>5, <2>6, <2>7
<1>4. input' \in [Tracks -> Seq(Packet)]  BY <1>1, <1>3
<1>5. offered' \in [Tracks -> Nat]
  <2>1. \A t \in Tracks : offered[t] + Len(input'[t]) \in Nat
    BY <1>3, LenProperties DEF TrackTypes
  <2> QED BY <1>1, <2>1
<1>6. \A t \in Tracks : Queued(renditions[t].pace)' = Queued(renditions[t].pace)
  BY <1>1 DEF Queued
<1>7. TrackTypes'  BY <1>1, <1>2, <1>4, <1>5, <1>6 DEF TrackTypes
<1>8. call' \in CallType /\ call'.last = last  BY <1>1 DEF NoCall, CallType
<1>9. CallTypes'
  <2>1. at' \in Phases /\ then' \in Phases  BY <1>1 DEF Phases, Awaits
  <2> QED BY <1>1, <1>2, <1>8, <2>1 DEF CallTypes
<1>10. Routes'  BY <1>1 DEF Routes
<1> QED BY <1>7, <1>9, <1>10

-----------------------------------------------------------------------------
(* The invariant.                                                          *)

Ending == Return \/ Finish \/ Drain \/ Close

\* Every step keeps to the types.
LEMMA NextTypes ==
  ASSUME IInv, [Next]_vars
  PROVE  CallTypes' /\ TrackTypes' /\ Routes'
<1>1. CallTypes /\ TrackTypes /\ Routes  BY Types DEF IInv
<1>2. Fragment => pad \in Tracks  BY DEF IInv, ReadyIsMedia, Fragment
<1>3. \A t \in Tracks : Take(t) \/ Deliver(t) \/ Pass(t) => CallTypes' /\ TrackTypes' /\ Routes'
  BY <1>1, QueueTypes
<1>4. \A last \in BOOLEAN : Call(last) => CallTypes' /\ TrackTypes' /\ Routes'
  BY <1>1, CalledTypes
<1>5. Code => CallTypes' /\ TrackTypes' /\ Routes'
  BY <1>1, <1>2, SimpleTypes, QueueTypes, TellTypes, FragmentTypes, PushTypes, FinishTypes
  DEF Code
<1> QED BY <1>1, <1>3, <1>4, <1>5, SimpleTypes DEF Next

\* What is on its way into no track stays out of it.
LEMMA NextReady == ASSUME IInv, [Next]_vars PROVE ReadyIsMedia'
<1> USE DEF Goto, Await, Stay, opened, relay, clock, counter, work, rest
<1>1. ReadyIsMedia /\ Routes  BY DEF IInv
<1>2. ASSUME UNCHANGED <<pads, ready>>, ready = << >> PROVE ReadyIsMedia'
  BY <1>2 DEF ReadyIsMedia
<1>3. ASSUME UNCHANGED <<pads, ready, at, then, pad>> PROVE ReadyIsMedia'
  BY <1>1, <1>3 DEF ReadyIsMedia, Tracks
<1>4. ASSUME NEW t \in Tracks, Take(t) \/ Deliver(t) \/ Pass(t) PROVE ReadyIsMedia'
  BY <1>3, <1>4 DEF Take, Deliver, Pass, InFlight
<1>5. ASSUME NEW last \in BOOLEAN, Call(last) PROVE ReadyIsMedia'
  BY <1>1, <1>2, <1>5 DEF Call, ReadyIsMedia
<1>6. CASE Ask \/ Drop \/ Redial \/ Deadline \/ UNCHANGED vars
  BY <1>3, <1>6 DEF Ask, Drop, Redial, Deadline, vars
<1>7. CASE Open \/ Mend \/ Hold \/ Choose \/ Refresh \/ CatchUp
  BY <1>1, <1>2, <1>7 DEF Open, Mend, Hold, Choose, Refresh, CatchUp, ReadyIsMedia
<1>8. CASE Tell \/ Told \/ Flush \/ Gate \/ Settle \/ EmptyQueues \/ Ending
  BY <1>1, <1>2, <1>8
  DEF Tell, Told, Flush, Gate, Settle, EmptyQueues, Ending, Return, Finish, Drain, Close,
      ReadyIsMedia
<1>9. CASE Yield \/ Fail
  BY <1>1, <1>9 DEF Yield, Fail, ReadyIsMedia, Tracks
<1>10. CASE Push
  BY <1>1, <1>10 DEF Push, ReadyIsMedia, Tracks
<1>11. CASE Fragment
  BY <1>1, <1>11 DEF Fragment, ReadyIsMedia, Tracks
<1>12. CASE NextPad \/ MediaDone
  <2>1. ready = << >> /\ UNCHANGED <<pads, ready>>
    <3>1. pad = Len(pads) + 1 => pad \notin Tracks
      <4>1. Len(pads) \in Nat  BY <1>1, LenProperties DEF Routes
      <4> QED BY <4>1 DEF Tracks
    <3> QED BY <1>1, <1>12, <3>1 DEF NextPad, MediaDone, ReadyIsMedia
  <2> QED BY <1>2, <2>1
<1> QED
  BY <1>4, <1>5, <1>6, <1>7, <1>8, <1>9, <1>10, <1>11, <1>12 DEF Next, Code, Ending

\* A session that comes in gets the catalog before it is used.
LEMMA NextSeen == ASSUME IInv, [Next]_vars PROVE Seen'
<1> USE DEF Goto, Await, Stay, opened, relay, clock, counter, work, rest
<1>1. Seen /\ Routes  BY DEF IInv
<1>2. ASSUME UNCHANGED <<started, link, shown>>, at' # "choose" PROVE Seen'
  BY <1>1, <1>2 DEF Seen
<1>3. ASSUME UNCHANGED <<started, link, shown, at>> PROVE Seen'
  BY <1>1, <1>3 DEF Seen
<1>4. ASSUME NEW t \in Tracks, Take(t) \/ Deliver(t) \/ Pass(t) PROVE Seen'
  BY <1>3, <1>4 DEF Take, Deliver, Pass, InFlight
<1>5. ASSUME NEW last \in BOOLEAN, Call(last) PROVE Seen'
  BY <1>2, <1>5 DEF Call
<1>6. CASE Ask \/ Deadline \/ UNCHANGED vars  BY <1>3, <1>6 DEF Ask, Deadline, vars
<1>7. CASE Drop \/ Redial \/ Close  BY <1>7 DEF Drop, Redial, Close, Seen
<1>8. CASE Open  BY <1>1, <1>8 DEF Open, Routes, Seen
<1>9. CASE Mend  BY <1>1, <1>9 DEF Mend, Installed, PublishCatalog, Dialed, Seen
<1>10. CASE Hold \/ Choose \/ Refresh
  BY <1>1, <1>10 DEF Hold, Choose, Refresh, PublishCatalog, Seen
<1>11. CASE CatchUp \/ Tell \/ Told \/ Yield \/ Flush
  <2>1. /\ UNCHANGED <<started, link, shown>>
        /\ at' \in {"catch", "messages", "media", "flush", "settle", "return", "drain", "yield"}
    BY <1>1, <1>11 DEF CatchUp, Tell, Told, ToldFirst, Yield, Flush, Routes
  <2> QED BY <1>2, <2>1
<1>12. CASE Push \/ Fragment \/ NextPad \/ MediaDone \/ Fail
  BY <1>2, <1>12 DEF Push, Fragment, NextPad, MediaDone, Fail
<1>13. CASE Gate \/ Settle \/ EmptyQueues
  BY <1>2, <1>13 DEF Gate, Settle, EmptyQueues
<1>14. CASE Return \/ Finish \/ Drain
  BY <1>2, <1>14 DEF Return, Finish, FinishInTurn, Drain
<1> QED
  BY <1>4, <1>5, <1>6, <1>7, <1>8, <1>9, <1>10, <1>11, <1>12, <1>13, <1>14 DEF Next, Code

\* Messages are flushed before media is handled, and none comes up after.
LEMMA NextMessages == ASSUME IInv, [Next]_vars PROVE MessagesFirst'
<1> USE DEF Goto, Await, Stay, opened, relay, clock, counter, work, rest
<1>1. MessagesFirst /\ Routes /\ CallTypes  BY Types DEF IInv
<1> DEFINE Begins == at \in {"open", "idle"}
           Telling == \/ at \in {"mend", "hold", "choose", "refresh", "catch", "messages"}
                      \/ at = "yield" /\ then = "messages"
           Media == at \in {"media", "gate"} \/ (at = "yield" /\ then = "media")
<1>2. ASSUME ~Begins', ~Telling', ~Media' PROVE MessagesFirst'  BY <1>2 DEF MessagesFirst
<1>3. ASSUME UNCHANGED <<pads, unsent>>, Media, ~Begins' PROVE MessagesFirst'
  BY <1>1, <1>3 DEF MessagesFirst
<1>4. ASSUME UNCHANGED <<pads, unsent, at, then, call>> PROVE MessagesFirst'
  BY <1>1, <1>4 DEF MessagesFirst
<1>5. ASSUME unsent' = {} PROVE MessagesFirst'  BY <1>5 DEF MessagesFirst
<1>6. ASSUME UNCHANGED <<pads, unsent>>, Telling, Telling', call'.messages = call.messages
      PROVE  MessagesFirst'
  BY <1>1, <1>6 DEF MessagesFirst
<1>7. ASSUME UNCHANGED unsent, Begins PROVE MessagesFirst'
  BY <1>1, <1>5, <1>7 DEF MessagesFirst
<1>8. ASSUME NEW t \in Tracks, Take(t) \/ Deliver(t) \/ Pass(t) PROVE MessagesFirst'
  BY <1>4, <1>8 DEF Take, Deliver, Pass, InFlight
<1>9. ASSUME NEW last \in BOOLEAN, Call(last) PROVE MessagesFirst'
  BY <1>7, <1>9 DEF Call
<1>10. CASE Ask \/ Drop \/ Redial \/ Deadline \/ UNCHANGED vars
  BY <1>4, <1>10 DEF Ask, Drop, Redial, Deadline, vars
<1>11. CASE Open  BY <1>7, <1>11 DEF Open
<1>12. CASE Mend
  <2>1. /\ UNCHANGED <<pads, unsent>> /\ at = "mend" /\ at' \in {"refresh", "hold", "failed"}
        /\ call' = call \/ call' = [call EXCEPT !.rows = TRUE]
    BY <1>12 DEF Mend, Installed, Dialed
  <2>2. call'.messages = call.messages  BY <1>1, <2>1 DEF CallTypes, CallType
  <2>3. CASE at' = "failed"  BY <1>2, <2>3
  <2>4. CASE at' # "failed"  BY <1>6, <2>1, <2>2, <2>4
  <2> QED BY <2>3, <2>4
<1>13. CASE Hold \/ Choose \/ Refresh  BY <1>6, <1>13 DEF Hold, Choose, Refresh
<1>14. CASE CatchUp
  <2>1. /\ UNCHANGED <<pads, unsent>> /\ at = "catch" /\ at' \in {"catch", "messages"}
        /\ call' = [call EXCEPT !.freed = @ \/ renditions' # renditions]
    BY <1>14 DEF CatchUp
  <2>2. call'.messages = call.messages  BY <1>1, <2>1 DEF CallTypes, CallType
  <2> QED BY <1>6, <2>1, <2>2
<1>15. CASE Tell
  <2>1. at' = "yield" /\ then' = "messages"  BY <1>15 DEF Tell
  <2>2. call'.messages  BY <1>15, Types, TellTypes DEF IInv
  <2> QED BY <2>1, <2>2 DEF MessagesFirst
<1>16. CASE Told
  <2>1. at = "messages" /\ UNCHANGED <<pads, unsent, call>>  BY <1>16 DEF Told
  <2>2. CASE call.messages
    <3>1. at' = "flush"  BY <1>16, <2>2 DEF Told, ToldFirst
    <3> QED BY <1>2, <3>1
  <2>3. CASE ~call.messages
    <3>1. at' = "media"  BY <1>16, <2>3 DEF Told, ToldFirst
    <3>2. \A t \in unsent : pads[t] # "data"  BY <1>1, <2>1, <2>3 DEF MessagesFirst
    <3> QED BY <2>1, <3>1, <3>2 DEF MessagesFirst
  <2> QED BY <2>2, <2>3
<1>17. CASE Gate \/ Settle \/ EmptyQueues \/ Fail
  BY <1>2, <1>17 DEF Gate, Settle, EmptyQueues, Fail
<1>18. CASE Return
  <2>1. unsent' = {} \/ at' = "finish"  BY <1>18 DEF Return
  <2> QED BY <1>2, <1>5, <2>1
<1>19. CASE Finish \/ Drain \/ Close
  BY <1>2, <1>19 DEF Finish, FinishInTurn, Drain, Close
<1>20. CASE Yield
  <2>1. CASE then = "messages"  BY <1>6, <1>20, <2>1 DEF Yield
  <2>2. CASE then = "media"  BY <1>3, <1>20, <2>2 DEF Yield
  <2> QED BY <1>1, <1>20, <2>1, <2>2 DEF Yield, Routes
<1>21. CASE Flush  BY <1>2, <1>5, <1>21 DEF Flush
<1>22. CASE Push \/ NextPad \/ MediaDone
  BY <1>3, <1>22 DEF Push, NextPad, MediaDone
<1>23. CASE Fragment
  <2>1. pad \in Tracks /\ pads[pad] # "data"
    BY <1>23 DEF IInv, ReadyIsMedia, Fragment
  <2>2. unsent' \subseteq unsent \cup {pad}
    BY <1>23, <2>1, Types, FragmentTypes DEF IInv
  <2>3. \A t \in unsent : pads[t] # "data"  BY <1>1, <1>23 DEF Fragment, MessagesFirst
  <2>4. pads' = pads /\ Media'  BY <1>23 DEF Fragment
  <2> QED BY <2>1, <2>2, <2>3, <2>4 DEF MessagesFirst
<1> QED
  BY <1>8, <1>9, <1>10, <1>11, <1>12, <1>13, <1>14, <1>15, <1>16, <1>17, <1>18, <1>19, <1>20,
     <1>21, <1>22, <1>23
  DEF Next, Code

\* What is held in the next state is what the step leaves in the tracks.
LEMMA HeldNext == ASSUME UNCHANGED pads PROVE Held' <=> HeldThen
BY DEF Held, HeldThen, Queued, Tracks

\* What one call empties, nothing fills before the call returns.
LEMMA NextEmpty == ASSUME IInv, [Next]_vars PROVE StaysEmpty'
<1> USE DEF Goto, Await, Stay, opened, relay, clock, counter, work, rest
<1>1. StaysEmpty /\ Routes /\ TypeOK  BY DEF IInv
<1> DEFINE Emptied == (at = "flush" /\ then = "return") \/ at = "return"
<1>2. ASSUME ~Emptied' PROVE StaysEmpty'
  BY <1>2 DEF StaysEmpty, QuietHoldsNothing
<1>3. ASSUME UNCHANGED <<pads, renditions, at, then, call, turns, quiet>> PROVE StaysEmpty'
  <2>1. Held' <=> Held  BY <1>3, HeldNext DEF Held, HeldThen
  <2> QED BY <1>1, <1>3, <2>1 DEF StaysEmpty, QuietHoldsNothing
<1>4. ASSUME NEW t \in Tracks, Take(t) \/ Deliver(t) \/ Pass(t) PROVE StaysEmpty'
  <2>1. PICK to \in Flight :
          /\ renditions' = [renditions EXCEPT ![t].pace.flight = to]
          /\ UNCHANGED <<pads, at, then, call, turns, quiet>>
    BY <1>4 DEF Take, Deliver, Pass, InFlight, Flight
  <2>2. \A u \in Tracks : /\ renditions'[u].pace.cut = renditions[u].pace.cut
                          /\ renditions'[u].pace.out = renditions[u].pace.out
    BY <1>1, <2>1 DEF TypeOK, PaceType
  <2>3. \A u \in Tracks : Queued(renditions'[u].pace) = Queued(renditions[u].pace)
    BY <2>2 DEF Queued
  <2>4. Held' <=> Held  BY <2>1, <2>3, HeldNext DEF Held, HeldThen
  <2> QED BY <1>1, <2>1, <2>4 DEF StaysEmpty, QuietHoldsNothing
<1>5. ASSUME NEW last \in BOOLEAN, Call(last) PROVE StaysEmpty'
  BY <1>5 DEF Call, StaysEmpty, QuietHoldsNothing
<1>6. CASE Ask \/ Drop \/ Redial \/ Deadline \/ UNCHANGED vars
  BY <1>3, <1>6 DEF Ask, Drop, Redial, Deadline, vars
<1>7. CASE Open \/ Mend \/ Hold \/ Choose \/ Refresh \/ CatchUp
  BY <1>2, <1>7 DEF Open, Mend, Hold, Choose, Refresh, CatchUp
<1>8. CASE Tell \/ Told \/ Push \/ Fragment \/ NextPad \/ MediaDone \/ Fail \/ Gate
  BY <1>2, <1>8 DEF Tell, Told, ToldFirst, Push, Fragment, NextPad, MediaDone, Fail, Gate
<1>9. CASE Yield  BY <1>1, <1>2, <1>9 DEF Yield, Routes
<1>10. CASE Flush
  <2>1. UNCHANGED <<pads, call, turns, quiet>> /\ renditions' = Released
    BY <1>10 DEF Flush, Release
  <2>2. ~Held => ~Held'  BY <1>1, <2>1, ReleaseType, HeldNext
  <2>3. Emptied' => at = "flush" /\ then = "return"  BY <1>10 DEF Flush
  <2>4. Emptied' => ~Held'  BY <1>1, <2>2, <2>3 DEF StaysEmpty
  <2> QED BY <2>4 DEF StaysEmpty, QuietHoldsNothing
<1>11. CASE Settle
  <2>1. UNCHANGED <<pads, renditions>> /\ ~(at' = "flush")
    BY <1>11 DEF Settle
  <2>2. Held' <=> Held  BY <2>1, HeldNext DEF Held, HeldThen
  <2>3. at' = "return" => ~(~call'.last /\ ~turns' /\ quiet' /\ Held)
    BY <1>11 DEF Settle, NoCallSoon
  <2> QED BY <2>1, <2>2, <2>3 DEF StaysEmpty, QuietHoldsNothing
<1>12. CASE EmptyQueues
  <2>1. UNCHANGED pads /\ at' # "return" /\ (at' = "flush" => ~HeldThen)
    BY <1>12 DEF EmptyQueues
  <2> QED BY <2>1, HeldNext DEF StaysEmpty, QuietHoldsNothing
<1>13. CASE Return \/ Finish \/ Drain \/ Close
  BY <1>2, <1>13 DEF Return, Finish, FinishInTurn, Drain, Close
<1> QED
  BY <1>4, <1>5, <1>6, <1>7, <1>8, <1>9, <1>10, <1>11, <1>12, <1>13 DEF Next, Code

\* A group that a call finished has its row, and the row gets it flushed.
LEMMA NextRow == ASSUME IInv, [Next]_vars PROVE RowIsAhead'
<1> USE DEF Goto, Await, Stay, opened, relay, clock, counter, work, rest
<1>1. RowIsAhead /\ Routes /\ TypeOK /\ CallTypes /\ TrackTypes  BY Types DEF IInv
<1> DEFINE Ahead == at \in {"messages", "yield", "flush", "media", "gate"}
<1>2. ASSUME unsent' = {} \/ call'.last \/ at' = "failed" PROVE RowIsAhead'
  BY <1>2 DEF RowIsAhead
<1>3. ASSUME UNCHANGED <<params, unsent>>, call'.last = call.last, ~Ahead, at # "failed"
      PROVE  RowIsAhead'
  BY <1>1, <1>3 DEF RowIsAhead
<1>4. ASSUME UNCHANGED <<params, unsent, call, at>> PROVE RowIsAhead'
  BY <1>1, <1>4 DEF RowIsAhead
<1>5. ASSUME UNCHANGED <<params, unsent, call>>, at # "failed", Ahead' PROVE RowIsAhead'
  BY <1>1, <1>5 DEF RowIsAhead
<1>6. ASSUME NEW t \in Tracks, Take(t) \/ Deliver(t) \/ Pass(t) PROVE RowIsAhead'
  BY <1>4, <1>6 DEF Take, Deliver, Pass, InFlight
<1>7. ASSUME NEW last \in BOOLEAN, Call(last) PROVE RowIsAhead'
  BY <1>1, <1>7 DEF Call, Routes, RowIsAhead
<1>8. CASE Ask \/ Drop \/ Redial \/ Deadline \/ UNCHANGED vars
  BY <1>4, <1>8 DEF Ask, Drop, Redial, Deadline, vars
<1>9. CASE Open \/ Hold \/ Choose \/ Refresh \/ Settle \/ EmptyQueues \/ Drain \/ Close
  BY <1>3, <1>9 DEF Open, Hold, Choose, Refresh, Settle, EmptyQueues, Drain, Close
<1>10. CASE Mend
  <2>1. UNCHANGED <<params, unsent>> /\ at = "mend"
        /\ (call' = call \/ call' = [call EXCEPT !.rows = TRUE])
    BY <1>10 DEF Mend, Installed
  <2>2. call'.last = call.last  BY <1>1, <2>1 DEF CallTypes, CallType
  <2> QED BY <1>3, <2>1, <2>2
<1>11. CASE CatchUp
  <2>1. UNCHANGED <<params, unsent>> /\ at = "catch"
    BY <1>11 DEF CatchUp
  <2>2. call'.last = call.last  BY <1>1, <1>11 DEF CatchUp, CallTypes
  <2> QED BY <1>3, <2>1, <2>2
<1>12. CASE Tell
  <2>1. /\ call'.last = call.last /\ (call.rows => call'.rows)
        /\ params.groups /\ unsent' # unsent => call'.rows
    BY <1>1, <1>12, TellTypes
  <2>2. params' = params /\ at = "messages" /\ at' = "yield"  BY <1>12 DEF Tell
  <2> QED BY <1>1, <2>1, <2>2 DEF RowIsAhead
<1>13. CASE Fragment
  <2>1. pad \in Tracks  BY <1>13 DEF IInv, ReadyIsMedia, Fragment
  <2>2. /\ call'.last = call.last /\ (call.rows => call'.rows)
        /\ params.groups /\ unsent' # unsent => call'.rows
    BY <1>1, <1>13, <2>1, FragmentTypes
  <2>3. params' = params /\ at = "media" /\ at' \in {"media", "yield"}  BY <1>13 DEF Fragment
  <2> QED BY <1>1, <2>2, <2>3 DEF RowIsAhead
<1>14. CASE Told \/ Push \/ NextPad \/ MediaDone
  BY <1>5, <1>14 DEF Told, ToldFirst, Push, NextPad, MediaDone
<1>15. CASE Yield  BY <1>1, <1>5, <1>15 DEF Yield, Routes
<1>16. CASE Flush
  <2>1. CASE unsent' = {}  BY <1>2, <2>1
  <2>2. CASE UNCHANGED <<at, unsent>>
    <3>1. UNCHANGED <<params, call>>  BY <1>16 DEF Flush
    <3> QED BY <1>4, <2>2, <3>1
  <2> QED BY <1>16, <2>1, <2>2 DEF Flush
<1>17. CASE Fail  BY <1>2, <1>17 DEF Fail
<1>18. CASE Gate
  <2>1. CASE call.rows
    BY <1>5, <1>18, <2>1 DEF Gate, WorthAFlush
  <2>2. CASE ~call.rows
    <3>1. UNCHANGED <<params, unsent, call>> /\ at = "gate"  BY <1>18 DEF Gate
    <3> QED BY <1>1, <2>2, <3>1 DEF RowIsAhead
  <2> QED BY <2>1, <2>2
<1>19. CASE Return
  <2>1. CASE call.last
    <3>1. call'.last  BY <1>19, <2>1 DEF Return, NoCall
    <3> QED BY <1>2, <3>1
  <2>2. CASE ~call.last  BY <1>2, <1>19, <2>2 DEF Return
  <2> QED BY <2>1, <2>2
<1>20. CASE Finish
  <2>1. call'.last  BY <1>1, <1>20 DEF Finish, Routes
  <2> QED BY <1>2, <2>1
<1> QED
  BY <1>6, <1>7, <1>8, <1>9, <1>10, <1>11, <1>12, <1>13, <1>14, <1>15, <1>16, <1>17, <1>18,
     <1>19, <1>20
  DEF Next, Code

\* A session starts with nothing done.
LEMMA InitIInv == Init => IInv
<1> SUFFICES ASSUME Init PROVE IInv  OBVIOUS
<1>1. pads \in Seq(Kinds) /\ Len(pads) \in Nat /\ FlushTurns \in Nat /\ CatchUpTurns \in Nat
  BY PubSessionAssumption, LenProperties DEF Init, Kinds
<1>2. CallTypes
  <2>1. /\ at = "open" /\ then = "idle" /\ spins = 0 /\ pad = 1
        /\ call = NoCall /\ NoCall \in CallType
        /\ started = FALSE /\ turns = FALSE /\ sent = FALSE /\ quiet = TRUE /\ late = FALSE
        /\ link = "none" /\ asked = {} /\ shown = FALSE /\ unsent = {} /\ finished = FALSE
    BY DEF Init, NoCall, CallType
  <2>2. 0 \in 0 .. FlushTurns + CatchUpTurns /\ 1 \in 1 .. Len(pads) + 1  BY <1>1
  <2>3. at \in Phases /\ then \in Phases  BY <2>1 DEF Phases, Awaits
  <2> QED BY <2>1, <2>2, <2>3 DEF CallTypes
<1>3. TrackTypes
  <2>1. Idle \in PaceType /\ Queued(Idle) = 0  BY DEF Idle, PaceType, Flight, Queued
  <2>2. << >> \in Seq(Packet) /\ << >> \in Seq(Seq(Packet))  OBVIOUS
  <2>3. [pace |-> Idle, muxer |-> << >>, groups |-> << >>] \in RenditionType
    BY <2>1, <2>2 DEF RenditionType
  <2>4. \A t \in Tracks : renditions[t] = [pace |-> Idle, muxer |-> << >>, groups |-> << >>]
    BY DEF Init
  <2>5. renditions \in [Tracks -> RenditionType]  BY <2>3 DEF Init
  <2>6. \A t \in Tracks : Queued(renditions[t].pace) \in Nat  BY <2>1, <2>4
  <2> QED BY <2>2, <2>5, <2>6 DEF Init, TrackTypes
<1>4. Routes  BY <1>1 DEF Init, Routes, NoCall
<1>5. ReadyIsMedia /\ Seen /\ MessagesFirst /\ StaysEmpty /\ RowIsAhead
  BY DEF Init, ReadyIsMedia, Seen, MessagesFirst, StaysEmpty, QuietHoldsNothing, RowIsAhead
<1> QED BY <1>2, <1>3, <1>4, <1>5, Types DEF IInv

LEMMA NextIInv == IInv /\ [Next]_vars => IInv'
<1> SUFFICES ASSUME IInv, [Next]_vars PROVE IInv'  OBVIOUS
<1>1. CallTypes' /\ TrackTypes' /\ Routes'  BY NextTypes
<1>2. TypeOK'  BY <1>1 DEF TypeOK, CallTypes, TrackTypes, RenditionType, CallType
<1> QED
  BY <1>1, <1>2, NextReady, NextSeen, NextMessages, NextEmpty, NextRow DEF IInv

LEMMA Invariant == Spec => []IInv
BY InitIInv, NextIInv, PTL DEF Spec

-----------------------------------------------------------------------------
(* What follows.                                                           *)

\* However the host calls, the readers come and the relay goes, every variable
\* of the session keeps to its type (Session and Rendition).
THEOREM PubTypes == Spec => []TypeOK
<1>1. IInv => TypeOK  BY DEF IInv
<1> QED BY <1>1, Invariant, PTL

\* Once media is cut, no session is in without the catalog having gone out to it
\* (mend, which publishes the catalog as it takes a session in).
THEOREM PubCatalogFirst == Spec => []CatalogFirst
<1>1. IInv => CatalogFirst  BY DEF IInv, Seen, CatalogFirst
<1> QED BY <1>1, Invariant, PTL

\* On a host that calls only with packets a call returns with nothing held back
\* once the media is quiet (drive, and the turns it takes at its end).
THEOREM PubQuietHoldsNothing == Spec => []QuietHoldsNothing
<1>1. IInv => QuietHoldsNothing  BY DEF IInv, StaysEmpty
<1> QED BY <1>1, Invariant, PTL

\* No media is handled while a message of the same call is not on the socket
\* (drive, which flushes between the two).
THEOREM PubAnnounced == Spec => []Announced
<1>1. IInv => Announced  BY DEF IInv, MessagesFirst, Announced
<1> QED BY <1>1, Invariant, PTL

\* With a row for each group, a call that finished one flushes it before it
\* returns (drive, whose flush depends on the rows).
THEOREM PubFlushedIfReported == Spec => []FlushedIfReported
<1>1. IInv => FlushedIfReported
  BY DEF IInv, RowIsAhead, FlushedIfReported, Flushed
<1> QED BY <1>1, Invariant, PTL

-----------------------------------------------------------------------------
(* Where the packets are.  Those a track was given are numbered from 1; the *)
(* groups hold the first of them, the muxer and the fragments it has handed *)
(* back come next, and the call has the others yet to take.                 *)

\* The packets of s are the ones after n.
Counted(s, n) == \A i \in DOMAIN s : s[i].pts = n + i

\* Elements of a set in a row are a sequence of it.
LEMMA InSeq ==
  ASSUME NEW S, NEW n \in Nat, NEW s, s = [i \in 1 .. n |-> s[i]], \A i \in 1 .. n : s[i] \in S
  PROVE  s \in Seq(S)
<1>1. s \in [1 .. n -> S]  OBVIOUS
<1> QED BY <1>1

\* The last packet in the first g groups.
Upto(groups, g) == IF g = 0 THEN 0 ELSE Last(groups[g]).pts

Written(groups) == Upto(groups, Len(groups))

\* No group is empty; their packets go on from each other, from one group to the
\* next, and so a later group is all later.
Ordered(groups) ==
  \A g \in DOMAIN groups :
    /\ groups[g] # << >>
    /\ Counted(groups[g], Upto(groups, g - 1))
    /\ \A h \in DOMAIN groups : h < g => Upto(groups, h) < groups[g][1].pts

\* What follows in the groups, by the rules of a track of this kind.
Disciplined(kind, groups) ==
  \A g \in DOMAIN groups :
    LET group == groups[g]
    IN  /\ kind = "data" => Len(group) = 1
        /\ kind = "video" =>
             /\ g > 1 => group[1].key
             /\ \A i \in 2 .. Len(group) : ~group[i].key
        /\ kind = "audio" =>
             /\ Last(group).pts - group[1].pts < Max({AudioTicks, 1})
             /\ g > 1 => group[1].pts - groups[g - 1][1].pts >= AudioTicks

\* A packet is in the groups, handed back, in the muxer or yet to be taken, and
\* they are in that order.
Flowing(groups, handed, muxer, coming, n) ==
  LET w == Written(groups)
  IN  /\ Len(handed) <= 1 /\ Len(muxer) <= 1
      /\ Counted(handed, w)
      /\ Counted(muxer, w + Len(handed))
      /\ Counted(coming, w + Len(handed) + Len(muxer))
      /\ n = w + Len(handed) + Len(muxer) + Len(coming)

\* A group more, and a frame more in the newest.
LEMMA Opened ==
  ASSUME NEW groups \in Seq(Seq(Packet)), NEW frame \in Packet
  PROVE  LET after == Append(groups, <<frame>>)
         IN  /\ after \in Seq(Seq(Packet)) /\ Len(after) = Len(groups) + 1
             /\ \A g \in 1 .. Len(groups) : after[g] = groups[g]
             /\ after[Len(groups) + 1] = <<frame>>
OBVIOUS

LEMMA Grown ==
  ASSUME NEW groups \in Seq(Seq(Packet)), groups # << >>, NEW frame \in Packet
  PROVE  LET after == IntoNewest(groups, frame)
             n     == Len(groups)
         IN  /\ n \in Nat \ {0} /\ after \in Seq(Seq(Packet)) /\ Len(after) = n
             /\ \A g \in 1 .. n - 1 : after[g] = groups[g]
             /\ after[n] = Append(groups[n], frame) /\ groups[n] \in Seq(Packet)
<1>1. Len(groups) \in Nat \ {0} /\ Len(groups) \in DOMAIN groups
  BY EmptySeq, LenProperties
<1>2. groups[Len(groups)] \in Seq(Packet)  BY <1>1
<1>3. Append(groups[Len(groups)], frame) \in Seq(Packet)  BY <1>2
<1> QED BY <1>1, <1>2, <1>3 DEF IntoNewest

\* A group in order has its packets where its first is, and the last is the last.
LEMMA InGroup ==
  ASSUME NEW groups \in Seq(Seq(Packet)), Ordered(groups), NEW g \in DOMAIN groups
  PROVE  /\ groups[g] \in Seq(Packet) /\ Len(groups[g]) \in Nat \ {0}
         /\ Upto(groups, g) \in Nat /\ Upto(groups, g - 1) \in Nat
         /\ Upto(groups, g) = Upto(groups, g - 1) + Len(groups[g])
         /\ groups[g][1].pts = Upto(groups, g - 1) + 1
         /\ groups[g][Len(groups[g])].pts = Upto(groups, g)
<1>1. g \in 1 .. Len(groups) /\ Len(groups) \in Nat  BY LenProperties
<1>2. /\ \A h \in DOMAIN groups : groups[h] \in Seq(Packet) /\ groups[h] # << >>
      /\ Counted(groups[g], Upto(groups, g - 1))
  BY DEF Ordered
<1>3. \A h \in DOMAIN groups :
        /\ Len(groups[h]) \in Nat \ {0} /\ groups[h][Len(groups[h])] \in Packet
  <2> TAKE h \in DOMAIN groups
  <2> DEFINE s == groups[h]
  <2>1. s \in Seq(Packet) /\ s # << >>  BY <1>2
  <2> HIDE DEF s
  <2>2. Len(s) \in Nat \ {0} /\ s[Len(s)] \in Packet  BY <2>1, EmptySeq, LenProperties
  <2> QED BY <2>2 DEF s
<1>4. \A h \in DOMAIN groups : Upto(groups, h) = groups[h][Len(groups[h])].pts
  BY <1>1 DEF Upto, Last
<1>5. \A h \in DOMAIN groups : Upto(groups, h) \in Nat  BY <1>3, <1>4 DEF Packet
<1>6. Upto(groups, g - 1) \in Nat
  <2>1. CASE g = 1  BY <2>1 DEF Upto
  <2>2. CASE g # 1
    <3>1. g - 1 \in DOMAIN groups  BY <1>1, <2>2
    <3> QED BY <1>5, <3>1
  <2> QED BY <2>1, <2>2
<1>7. /\ 1 \in DOMAIN groups[g] /\ Len(groups[g]) \in DOMAIN groups[g]
  BY <1>2, <1>3
<1>8. /\ groups[g][1].pts = Upto(groups, g - 1) + 1
      /\ groups[g][Len(groups[g])].pts = Upto(groups, g - 1) + Len(groups[g])
  BY <1>2, <1>7 DEF Counted
<1> QED BY <1>2, <1>3, <1>4, <1>5, <1>6, <1>8

LEMMA WrittenIs ==
  ASSUME NEW groups \in Seq(Seq(Packet)), Ordered(groups)
  PROVE  /\ Written(groups) \in Nat
         /\ groups # << >> => Written(groups) = Last(Last(groups)).pts
         /\ groups = << >> => Written(groups) = 0
         /\ \A g \in DOMAIN groups : Upto(groups, g) <= Written(groups)
<1>1. CASE groups = << >>  BY <1>1 DEF Written, Upto
<1>2. CASE groups # << >>
  <2> DEFINE n == Len(groups)
  <2>1. n \in Nat \ {0} /\ n \in DOMAIN groups /\ DOMAIN groups = 1 .. n
    BY <1>2, EmptySeq, LenProperties
  <2>2. Written(groups) = Upto(groups, n) /\ Upto(groups, n) = Last(Last(groups)).pts
    BY <2>1 DEF Written, Upto, Last
  <2>3. ASSUME NEW g \in DOMAIN groups PROVE Upto(groups, g) <= Upto(groups, n)
    <3>1. Upto(groups, g) \in Nat /\ Upto(groups, n) \in Nat  BY <2>1, InGroup
    <3>2. CASE g = n  BY <3>1, <3>2
    <3>3. CASE g # n
      <4>1. g < n  BY <2>1, <3>3
      <4>2. Upto(groups, g) < groups[n][1].pts  BY <2>1, <4>1 DEF Ordered
      <4>3. /\ groups[n][1].pts = Upto(groups, n - 1) + 1 /\ Upto(groups, n - 1) \in Nat
            /\ Upto(groups, n) = Upto(groups, n - 1) + Len(groups[n])
            /\ Len(groups[n]) \in Nat \ {0}
        BY <2>1, InGroup
      <4> HIDE DEF n
      <4> QED BY <3>1, <4>2, <4>3
    <3> QED BY <3>2, <3>3
  <2>4. Upto(groups, n) \in Nat  BY <2>1, InGroup
  <2> QED BY <1>2, <2>2, <2>3, <2>4
<1> QED BY <1>1, <1>2

\* The next packet keeps the order in a group of its own.
LEMMA OpenedInOrder ==
  ASSUME NEW groups \in Seq(Seq(Packet)), Ordered(groups),
         NEW frame \in Packet, frame.pts = Written(groups) + 1
  PROVE  LET after == Append(groups, <<frame>>)
         IN  Ordered(after) /\ Written(after) = frame.pts
<1> DEFINE n == Len(groups)
           after == Append(groups, <<frame>>)
<1>1. n \in Nat /\ DOMAIN groups = 1 .. n  BY LenProperties
<1>2. /\ Len(after) = n + 1 /\ DOMAIN after = 1 .. n + 1
      /\ \A g \in 1 .. n : after[g] = groups[g]
      /\ after[n + 1] = <<frame>>
  BY Opened
<1> HIDE DEF n, after
<1>3. \A g \in 0 .. n : Upto(after, g) = Upto(groups, g)
  BY <1>1, <1>2 DEF Upto
<1>4. Upto(after, n + 1) = frame.pts
  <2>1. Last(<<frame>>) = frame  BY DEF Last
  <2> QED BY <1>1, <1>2, <2>1 DEF Upto
<1>5. Upto(groups, n) = Written(groups)  BY DEF Written, n
<1>6. ASSUME NEW g \in DOMAIN after
      PROVE  /\ after[g] # << >>
             /\ Counted(after[g], Upto(after, g - 1))
             /\ \A h \in DOMAIN after : h < g => Upto(after, h) < after[g][1].pts
  <2>1. CASE g \in 1 .. n
    <3>1. /\ groups[g] # << >> /\ Counted(groups[g], Upto(groups, g - 1))
          /\ \A h \in DOMAIN groups : h < g => Upto(groups, h) < groups[g][1].pts
      BY <1>1, <2>1 DEF Ordered
    <3>2. g - 1 \in 0 .. n /\ after[g] = groups[g]  BY <1>1, <1>2, <2>1
    <3>3. \A h \in DOMAIN after : h < g => h \in DOMAIN groups /\ h \in 0 .. n
      BY <1>1, <1>2, <2>1
    <3> QED BY <1>3, <3>1, <3>2, <3>3
  <2>2. CASE g = n + 1
    <3>1. /\ after[g] = <<frame>> /\ DOMAIN <<frame>> = {1} /\ <<frame>>[1] = frame
          /\ <<frame>> # << >>
      BY <1>2, <2>2
    <3>2. Upto(after, g - 1) = Written(groups)  BY <1>1, <1>3, <1>5, <2>2
    <3>3. Counted(<<frame>>, Written(groups))  BY <3>1 DEF Counted
    <3>4. \A h \in DOMAIN after : h < g => Upto(after, h) < frame.pts
      <4> TAKE h \in DOMAIN after
      <4> HAVE h < g
      <4>1. h \in 1 .. n /\ h \in DOMAIN groups  BY <1>1, <1>2, <2>2
      <4>2. Upto(after, h) = Upto(groups, h) /\ Upto(groups, h) <= Written(groups)
        BY <1>1, <1>3, <4>1, WrittenIs
      <4>3. Upto(groups, h) \in Nat /\ Written(groups) \in Nat
        BY <4>1, InGroup, WrittenIs
      <4> QED BY <4>2, <4>3
    <3> QED BY <3>1, <3>2, <3>3, <3>4
  <2> QED BY <1>1, <1>2, <2>1, <2>2
<1>7. Ordered(after)  BY <1>6 DEF Ordered
<1>8. Written(after) = frame.pts  BY <1>2, <1>4 DEF Written
<1> QED BY <1>7, <1>8 DEF after

\* And in the newest group.
LEMMA GrownInOrder ==
  ASSUME NEW groups \in Seq(Seq(Packet)), Ordered(groups), groups # << >>,
         NEW frame \in Packet, frame.pts = Written(groups) + 1
  PROVE  LET after == IntoNewest(groups, frame)
         IN  Ordered(after) /\ Written(after) = frame.pts
<1> DEFINE n == Len(groups)
           s == groups[n]
           m == Len(s)
           after == IntoNewest(groups, frame)
<1>1. n \in Nat \ {0} /\ DOMAIN groups = 1 .. n  BY LenProperties, Grown
<1>2. /\ Len(after) = n /\ DOMAIN after = 1 .. n
      /\ \A g \in 1 .. n - 1 : after[g] = groups[g]
      /\ after[n] = Append(s, frame) /\ s \in Seq(Packet)
  <2>1. /\ after \in Seq(Seq(Packet)) /\ Len(after) = n
        /\ \A g \in 1 .. n - 1 : after[g] = groups[g]
        /\ after[n] = Append(s, frame) /\ s \in Seq(Packet)
    BY Grown
  <2> HIDE DEF after, n, s
  <2> QED BY <2>1
<1>3. n \in DOMAIN groups  BY <1>1
<1>4. /\ m \in Nat \ {0} /\ Upto(groups, n) \in Nat /\ Upto(groups, n - 1) \in Nat
      /\ Upto(groups, n) = Upto(groups, n - 1) + m
      /\ Counted(s, Upto(groups, n - 1))
  BY <1>3, InGroup DEF Ordered
<1>5. frame.pts = Upto(groups, n) + 1  BY DEF Written
<1> HIDE DEF n, after
<1>6. /\ DOMAIN Append(s, frame) = 1 .. m + 1 /\ Len(Append(s, frame)) = m + 1
      /\ \A i \in 1 .. m : Append(s, frame)[i] = s[i]
      /\ Append(s, frame)[m + 1] = frame /\ DOMAIN s = 1 .. m
  BY <1>2
<1>7. \A g \in 0 .. n - 1 : Upto(after, g) = Upto(groups, g)
  BY <1>1, <1>2 DEF Upto
<1> HIDE DEF s, m
<1>8. Upto(after, n) = frame.pts  BY <1>1, <1>2, <1>6 DEF Upto, Last
<1>9. ASSUME NEW g \in DOMAIN after
      PROVE  /\ after[g] # << >>
             /\ Counted(after[g], Upto(after, g - 1))
             /\ \A h \in DOMAIN after : h < g => Upto(after, h) < after[g][1].pts
  <2>1. /\ groups[g] # << >> /\ Counted(groups[g], Upto(groups, g - 1))
        /\ \A h \in DOMAIN groups : h < g => Upto(groups, h) < groups[g][1].pts
    BY <1>1, <1>2 DEF Ordered
  <2>2. Upto(after, g - 1) = Upto(groups, g - 1)  BY <1>1, <1>2, <1>7
  <2>3. \A h \in DOMAIN after : h < g => h \in DOMAIN groups /\ Upto(after, h) = Upto(groups, h)
    BY <1>1, <1>2, <1>7
  <2>4. CASE g # n
    <3>1. after[g] = groups[g]  BY <1>1, <1>2, <2>4
    <3> QED BY <2>1, <2>2, <2>3, <3>1
  <2>5. CASE g = n
    <3>1. Append(s, frame) # << >>
      <4>1. s \in Seq(Packet)  BY <1>2
      <4> QED BY <4>1, AppendProperties
    <3>2. Counted(Append(s, frame), Upto(groups, n - 1))
      <4> SUFFICES ASSUME NEW i \in 1 .. m + 1
                   PROVE  Append(s, frame)[i].pts = Upto(groups, n - 1) + i
        BY <1>6 DEF Counted
      <4>1. CASE i \in 1 .. m  BY <1>4, <1>6, <4>1 DEF Counted
      <4>2. CASE i = m + 1  BY <1>4, <1>5, <1>6, <4>2
      <4>3. m \in Nat  BY <1>4
      <4>4. i \in 1 .. m \/ i = m + 1  BY <4>3
      <4> QED BY <4>1, <4>2, <4>4
    <3>3. Append(s, frame)[1] = groups[g][1]  BY <1>4, <1>6, <2>5 DEF s
    <3> QED BY <1>2, <2>1, <2>2, <2>3, <2>5, <3>1, <3>2, <3>3
  <2> QED BY <2>4, <2>5
<1>10. Ordered(after)  BY <1>9 DEF Ordered
<1>11. Written(after) = frame.pts  BY <1>2, <1>8 DEF Written
<1> QED BY <1>10, <1>11 DEF after

\* What the bound on an audio group is.
LEMMA LongestAudio ==
  /\ Max({AudioTicks, 1}) >= AudioTicks /\ Max({AudioTicks, 1}) >= 1
  /\ Max({AudioTicks, 1}) \in Nat
<1> DEFINE m == IF AudioTicks >= 1 THEN AudioTicks ELSE 1
<1>1. AudioTicks \in Nat  BY PubSessionAssumption
<1>2. m \in {AudioTicks, 1} /\ \A y \in {AudioTicks, 1} : m >= y  BY <1>1
<1> HIDE DEF m
<1>3. \E x \in {AudioTicks, 1} : \A y \in {AudioTicks, 1} : x >= y  BY <1>2
<1>4. Max({AudioTicks, 1}) \in {AudioTicks, 1}
      /\ \A y \in {AudioTicks, 1} : Max({AudioTicks, 1}) >= y
  BY <1>3 DEF Max
<1> QED BY <1>1, <1>4

\* A frame goes where the rules of its track put it.
Filed(t, groups, frame) ==
  IF StartsAGroup(t, groups, frame) THEN Append(groups, <<frame>>)
  ELSE IntoNewest(groups, frame)

LEMMA FiledInOrder ==
  ASSUME NEW t, NEW groups \in Seq(Seq(Packet)), Ordered(groups),
         NEW frame \in Packet, frame.pts = Written(groups) + 1
  PROVE  /\ Filed(t, groups, frame) \in Seq(Seq(Packet))
         /\ Ordered(Filed(t, groups, frame)) /\ Written(Filed(t, groups, frame)) = frame.pts
         /\ Len(Filed(t, groups, frame)) =
              Len(groups) + IF StartsAGroup(t, groups, frame) THEN 1 ELSE 0
<1>1. CASE StartsAGroup(t, groups, frame)
  BY <1>1, Opened, OpenedInOrder DEF Filed
<1>2. CASE ~StartsAGroup(t, groups, frame)
  <2>1. groups # << >>  BY <1>2 DEF StartsAGroup
  <2>2. Len(groups) \in Nat  BY LenProperties
  <2> QED BY <1>2, <2>1, <2>2, Grown, GrownInOrder DEF Filed
<1> QED BY <1>1, <1>2

\* And the rules are kept.
LEMMA FiledByTheRules ==
  ASSUME NEW t, NEW groups \in Seq(Seq(Packet)), Ordered(groups),
         Disciplined(pads[t], groups),
         NEW frame \in Packet, frame.pts = Written(groups) + 1
  PROVE  Disciplined(pads[t], Filed(t, groups, frame))
<1> DEFINE n == Len(groups)
           kind == pads[t]
           after == Filed(t, groups, frame)
           first == groups[n][1].pts
           m == Max({AudioTicks, 1})
<1>1. n \in Nat /\ DOMAIN groups = 1 .. n /\ AudioTicks \in Nat /\ frame.pts \in Nat
  BY LenProperties, PubSessionAssumption DEF Packet
<1>2. m >= AudioTicks /\ m >= 1 /\ m \in Nat  BY LongestAudio
<1>3. ASSUME groups # << >>
      PROVE  /\ n \in DOMAIN groups /\ n >= 1 /\ first \in Nat /\ first < frame.pts
             /\ Last(groups)[1].pts = first
             /\ groups[n] \in Seq(Packet) /\ Len(groups[n]) \in Nat \ {0}
  <2>1. n \in DOMAIN groups /\ n >= 1  BY <1>1, <1>3, EmptySeq
  <2>2. /\ groups[n] \in Seq(Packet) /\ Len(groups[n]) \in Nat \ {0}
        /\ Upto(groups, n) \in Nat /\ Upto(groups, n - 1) \in Nat
        /\ Upto(groups, n) = Upto(groups, n - 1) + Len(groups[n])
        /\ first = Upto(groups, n - 1) + 1
    BY <2>1, InGroup
  <2>3. frame.pts = Upto(groups, n) + 1  BY DEF Written
  <2>4. Last(groups)[1].pts = first  BY DEF Last
  <2> HIDE DEF n, first
  <2>5. first \in Nat /\ first < frame.pts  BY <2>2, <2>3
  <2> QED BY <2>1, <2>2, <2>4, <2>5
<1>4. ASSUME NEW g \in DOMAIN groups
      PROVE  /\ kind = "data" => Len(groups[g]) = 1
             /\ kind = "video" => /\ g > 1 => groups[g][1].key
                                  /\ \A i \in 2 .. Len(groups[g]) : ~groups[g][i].key
             /\ kind = "audio" =>
                  /\ Last(groups[g]).pts - groups[g][1].pts < m
                  /\ g > 1 => groups[g][1].pts - groups[g - 1][1].pts >= AudioTicks
  BY DEF Disciplined
<1>5. /\ groups = << >> \/ OneFragmentEach(t)
           \/ (kind = "video" /\ frame.key)
           \/ (kind = "audio" /\ frame.pts - Last(groups)[1].pts >= AudioTicks)
         <=> StartsAGroup(t, groups, frame)
      /\ OneFragmentEach(t) <=> kind = "data" \/ (kind = "audio" /\ AudioTicks = 0)
  BY DEF StartsAGroup, OneFragmentEach
<1>6. CASE StartsAGroup(t, groups, frame)
  <2>1. after = Append(groups, <<frame>>)  BY <1>6 DEF Filed
  <2>2. /\ Len(after) = n + 1 /\ DOMAIN after = 1 .. n + 1
        /\ \A g \in 1 .. n : after[g] = groups[g]
        /\ after[n + 1] = <<frame>>
    BY <2>1, Opened
  <2>3. groups # << >> => n + 1 - 1 = n  BY <1>1
  <2> HIDE DEF n, kind, after, first, m
  <2> SUFFICES ASSUME NEW g \in 1 .. n + 1
               PROVE  /\ kind = "data" => Len(after[g]) = 1
                      /\ kind = "video" => /\ g > 1 => after[g][1].key
                                           /\ \A i \in 2 .. Len(after[g]) : ~after[g][i].key
                      /\ kind = "audio" =>
                           /\ Last(after[g]).pts - after[g][1].pts < m
                           /\ g > 1 => after[g][1].pts - after[g - 1][1].pts >= AudioTicks
    BY <2>2 DEF Disciplined, m, kind, after
  <2>4. CASE g \in 1 .. n
    <3>1. after[g] = groups[g] /\ (g > 1 => after[g - 1] = groups[g - 1])
      BY <1>1, <2>2, <2>4
    <3>2. g \in DOMAIN groups  BY <1>1, <2>4
    <3> QED BY <1>4, <3>1, <3>2
  <2>5. CASE g = n + 1
    <3>1. /\ after[g] = <<frame>> /\ Len(<<frame>>) = 1 /\ <<frame>>[1] = frame
          /\ Last(<<frame>>) = frame
      BY <2>2, <2>5 DEF Last
    <3>2. g > 1 => n >= 1 /\ groups # << >> /\ after[g - 1] = groups[n]
      <4> HAVE g > 1
      <4>1. n >= 1  BY <1>1, <2>5
      <4>2. g - 1 = n /\ n \in 1 .. n  BY <1>1, <2>5, <4>1
      <4>3. groups # << >>  BY <4>1 DEF n
      <4> QED BY <2>2, <4>1, <4>2, <4>3
    <3>3. kind = "video" /\ g > 1 => frame.key  BY <1>5, <1>6, <3>2
    <3>4. kind = "audio" /\ g > 1 => frame.pts - first >= AudioTicks
      <4> HAVE kind = "audio" /\ g > 1
      <4>1. first \in Nat /\ first < frame.pts /\ Last(groups)[1].pts = first
        BY <1>3, <3>2
      <4>2. AudioTicks = 0 \/ frame.pts - first >= AudioTicks
        BY <1>5, <1>6, <3>2, <4>1
      <4> QED BY <1>1, <4>1, <4>2
    <3>5. frame.pts - frame.pts < m  BY <1>1, <1>2
    <3>6. after[g - 1][1].pts = first \/ ~(g > 1)  BY <3>2 DEF first
    <3> QED BY <3>1, <3>3, <3>4, <3>5, <3>6
  <2> QED BY <1>1, <2>4, <2>5
<1>7. CASE ~StartsAGroup(t, groups, frame)
  <2>1. groups # << >> /\ after = IntoNewest(groups, frame)
    BY <1>5, <1>7 DEF Filed
  <2>2. /\ Len(after) = n /\ n \in Nat \ {0}
        /\ \A g \in 1 .. n - 1 : after[g] = groups[g]
        /\ after[n] = Append(groups[n], frame)
        /\ after \in Seq(Seq(Packet))
    BY <2>1, Grown
  <2>3. DOMAIN after = 1 .. n  BY <2>2
  <2> DEFINE s == groups[n]
             k == Len(s)
             longer == Append(s, frame)
  <2>4. s \in Seq(Packet) /\ k \in Nat \ {0}  BY <1>3, <2>1
  <2>5. /\ Len(longer) = k + 1 /\ \A i \in 1 .. k : longer[i] = s[i]
        /\ longer[k + 1] = frame
    BY <2>4
  <2>6. after[n] = longer /\ n \in DOMAIN groups /\ first = s[1].pts
    BY <1>3, <2>1, <2>2
  <2> HIDE DEF n, kind, after, first, m, s, k, longer
  <2>7. Last(longer) = frame /\ longer[1] = s[1]
    BY <2>4, <2>5 DEF Last
  <2> SUFFICES ASSUME NEW g \in 1 .. n
               PROVE  /\ kind = "data" => Len(after[g]) = 1
                      /\ kind = "video" => /\ g > 1 => after[g][1].key
                                           /\ \A i \in 2 .. Len(after[g]) : ~after[g][i].key
                      /\ kind = "audio" =>
                           /\ Last(after[g]).pts - after[g][1].pts < m
                           /\ g > 1 => after[g][1].pts - after[g - 1][1].pts >= AudioTicks
    BY <2>3 DEF Disciplined, m, kind, after
  <2>8. g \in DOMAIN groups /\ (g > 1 => after[g - 1] = groups[g - 1])
    BY <1>1, <2>2
  <2>9. CASE g # n
    <3>1. after[g] = groups[g]  BY <2>2, <2>9
    <3> QED BY <1>4, <2>8, <3>1
  <2>10. CASE g = n
    <3>1. groups[g] = s  BY <2>10 DEF s
    <3>2. kind # "data"  BY <1>5, <1>7
    <3>3. kind = "video" => /\ g > 1 => longer[1].key
                            /\ \A i \in 2 .. Len(longer) : ~longer[i].key
      <4> HAVE kind = "video"
      <4>1. ~frame.key  BY <1>5, <1>7
      <4>2. (g > 1 => s[1].key) /\ \A i \in 2 .. k : ~s[i].key
        BY <1>4, <2>8, <3>1 DEF k
      <4>3. ASSUME NEW i \in 2 .. Len(longer) PROVE ~longer[i].key
        <5>1. i \in 2 .. k \/ i = k + 1  BY <2>4, <2>5
        <5>2. i \in 2 .. k => i \in 1 .. k  BY <2>4
        <5> QED BY <2>5, <4>1, <4>2, <5>1, <5>2
      <4> QED BY <2>7, <4>2, <4>3
    <3>4. kind = "audio" =>
            /\ frame.pts - s[1].pts < m
            /\ g > 1 => s[1].pts - groups[g - 1][1].pts >= AudioTicks
      <4> HAVE kind = "audio"
      <4>1. first \in Nat /\ Last(groups)[1].pts = first  BY <1>3, <2>1
      <4>2. ~(frame.pts - first >= AudioTicks)  BY <1>5, <1>7, <4>1
      <4>3. frame.pts - first < m  BY <1>1, <1>2, <4>1, <4>2
      <4>4. g > 1 => s[1].pts - groups[g - 1][1].pts >= AudioTicks
        BY <1>4, <2>8, <3>1
      <4> QED BY <2>6, <4>3, <4>4
    <3> QED BY <2>6, <2>7, <2>8, <2>10, <3>2, <3>3, <3>4
  <2> QED BY <2>9, <2>10
<1> QED BY <1>6, <1>7

\* A look, and the end of the newest group, leave how many there are.
LEMMA LookedKeeps ==
  ASSUME NEW p, PaceOK(p), NEW subscribed \in BOOLEAN
  PROVE  Looked(p, subscribed).cut = p.cut /\ Looked(p, subscribed).open = p.open
<1> DEFINE out == p.out + Leaving(p, subscribed)
           flight == IF p.open /\ out = p.cut THEN "none" ELSE "going"
<1>1. Looked(p, subscribed) =
        IF out = p.out THEN p ELSE [p EXCEPT !.out = out, !.flight = flight]
  BY DEF Looked
<1> HIDE DEF out, flight
<1> QED BY <1>1 DEF PaceOK, PaceType

LEMMA ShutKeeps ==
  ASSUME NEW p, PaceOK(p)
  PROVE  Shut(p).cut = p.cut /\ Shut(p).open = FALSE
BY DEF PaceOK, PaceType, Shut

LEMMA BegunCuts ==
  ASSUME NEW p, PaceOK(p), NEW subscribed \in BOOLEAN
  PROVE  Begun(p, subscribed).cut = p.cut + 1
<1> DEFINE s == Shut(p)
           c == p.cut + 1
           b == [s EXCEPT !.cut = c, !.open = TRUE]
<1>1. PaceOK(s) /\ s.cut = p.cut  BY ShutType
<1>2. p.cut \in Nat /\ p.out \in Nat /\ p.cut - p.out \in Nat /\ s.out = p.out
  BY ShutType DEF PaceOK, PaceType, Queued
<1>3. Begun(p, subscribed) = Looked(b, subscribed)  BY <1>1 DEF Begun
<1>4. c \in Nat /\ c - p.out \in Nat  BY <1>2
<1> HIDE DEF s, c
<1>5. b \in PaceType /\ b.cut = c /\ b.out = p.out  BY <1>1, <1>2, <1>4 DEF PaceOK, PaceType
<1> HIDE DEF b
<1>6. PaceOK(b)  BY <1>4, <1>5 DEF PaceOK, Queued
<1>7. Looked(b, subscribed).cut = b.cut  BY <1>6, LookedKeeps
<1> QED BY <1>3, <1>5, <1>7 DEF c

\* What a frame does to its track.
LEMMA PublishedIs ==
  ASSUME NEW t, NEW r, RenditionOK(r), NEW frame \in Packet
  PROVE  /\ Published(t, r, frame).groups = Filed(t, r.groups, frame)
         /\ Published(t, r, frame).muxer = r.muxer
         /\ Published(t, r, frame).pace.cut =
              r.pace.cut + IF StartsAGroup(t, r.groups, frame) THEN 1 ELSE 0
<1> DEFINE cut == StartsAGroup(t, r.groups, frame)
           p == IF cut THEN Begun(r.pace, t \in asked) ELSE r.pace
           gs == Filed(t, r.groups, frame)
           new == [r EXCEPT !.pace = p, !.groups = gs]
<1>1. PaceOK(p) /\ p.cut = r.pace.cut + IF cut THEN 1 ELSE 0
  <2>1. (t \in asked) \in BOOLEAN  OBVIOUS
  <2>2. PaceOK(r.pace) /\ r.pace.cut \in Nat  BY RenditionPace DEF PaceOK, PaceType
  <2>3. /\ PaceOK(Begun(r.pace, t \in asked))
        /\ Begun(r.pace, t \in asked).cut = r.pace.cut + 1
    BY <2>1, <2>2, BegunType, BegunCuts
  <2> QED BY <2>2, <2>3
<1>2. Published(t, r, frame) = IF OneFragmentEach(t) THEN Closed(new) ELSE new
  BY DEF Published, Filed
<1> HIDE DEF cut, p, gs
<1>3. new.pace = p /\ new.groups = gs /\ new.muxer = r.muxer
  BY DEF RenditionOK, RenditionType
<1>4. /\ Closed(new).groups = new.groups /\ Closed(new).muxer = new.muxer
      /\ Closed(new).pace = Shut(new.pace)
  BY DEF Closed, RenditionOK, RenditionType
<1>5. Shut(p).cut = p.cut  BY <1>1, ShutKeeps
<1> HIDE DEF new
<1> QED BY <1>1, <1>2, <1>3, <1>4, <1>5 DEF cut, gs

-----------------------------------------------------------------------------
(* How the packets move on.                                                *)

\* The first of a sequence, and the others.
LEMMA FirstAndRest ==
  ASSUME NEW s \in Seq(Packet), s # << >>, NEW n \in Nat, Counted(s, n)
  PROVE  /\ Head(s) \in Packet /\ Head(s).pts = n + 1
         /\ Len(s) \in Nat \ {0} /\ Len(Tail(s)) = Len(s) - 1
         /\ Counted(Tail(s), n + 1)
         /\ Counted(<<Head(s)>>, n)
<1>1. /\ Len(s) \in Nat \ {0} /\ Len(Tail(s)) = Len(s) - 1 /\ Tail(s) \in Seq(Packet)
      /\ Head(s) = s[1] /\ DOMAIN s = 1 .. Len(s)
      /\ \A i \in 1 .. Len(s) - 1 : Tail(s)[i] = s[i + 1]
  OBVIOUS
<1>2. 1 \in DOMAIN s /\ s[1] \in Packet  BY <1>1
<1>3. DOMAIN Tail(s) = 1 .. Len(s) - 1  BY <1>1
<1>4. ASSUME NEW i \in DOMAIN Tail(s) PROVE Tail(s)[i].pts = n + 1 + i
  <2> DEFINE k == Len(s)
  <2>1. k \in Nat  BY <1>1
  <2> HIDE DEF k
  <2>2. i \in 1 .. k - 1  BY <1>3 DEF k
  <2>3. i + 1 \in 1 .. k /\ i \in Nat  BY <2>1, <2>2
  <2>4. s[i + 1].pts = n + (i + 1)  BY <1>1, <2>3 DEF Counted, k
  <2>5. n + (i + 1) = n + 1 + i  BY <2>3
  <2> QED BY <1>1, <2>2, <2>4, <2>5 DEF k
<1>5. Counted(<<Head(s)>>, n)
  <2>1. DOMAIN <<Head(s)>> = {1} /\ <<Head(s)>>[1] = Head(s)  OBVIOUS
  <2>2. Head(s).pts = n + 1  BY <1>1, <1>2 DEF Counted
  <2> QED BY <2>1, <2>2 DEF Counted
<1> QED BY <1>1, <1>2, <1>4, <1>5 DEF Counted

\* Nothing is counted anywhere.
LEMMA CountsNothing == ASSUME NEW n PROVE Counted(<< >>, n) /\ Len(<< >>) = 0
BY DEF Counted

\* A message, straight from the call.
LEMMA TellFlows ==
  ASSUME NEW groups \in Seq(Seq(Packet)), Ordered(groups), NEW after,
         NEW coming \in Seq(Packet), coming # << >>, NEW n,
         Flowing(groups, << >>, << >>, coming, n)
  PROVE  /\ Head(coming).pts = Written(groups) + 1
         /\ Written(after) = Head(coming).pts =>
              Flowing(after, << >>, << >>, Tail(coming), n)
<1> DEFINE w == Written(groups)
           k == Len(coming)
<1>1. w \in Nat /\ Len(<< >>) = 0  BY WrittenIs
<1>2. w + 0 + 0 = w /\ w + 1 + 0 + 0 = w + 1  BY <1>1
<1>3. Counted(coming, w) /\ n = w + k  BY <1>1, <1>2 DEF Flowing
<1>4. /\ Head(coming).pts = w + 1 /\ k \in Nat \ {0} /\ Len(Tail(coming)) = k - 1
      /\ Counted(Tail(coming), w + 1)
  BY <1>1, <1>3, FirstAndRest
<1> HIDE DEF w, k
<1>5. n = w + 1 + 0 + 0 + (k - 1) /\ 0 <= 1  BY <1>1, <1>3, <1>4
<1>6. Written(after) = w + 1 => Flowing(after, << >>, << >>, Tail(coming), n)
  BY <1>1, <1>2, <1>4, <1>5, CountsNothing DEF Flowing
<1> QED BY <1>4, <1>6 DEF w

\* A fragment.
LEMMA FragmentFlows ==
  ASSUME NEW groups \in Seq(Seq(Packet)), Ordered(groups), NEW after,
         NEW handed \in Seq(Packet), handed # << >>,
         NEW muxer \in Seq(Packet), NEW coming \in Seq(Packet), NEW n,
         Flowing(groups, handed, muxer, coming, n)
  PROVE  /\ Head(handed).pts = Written(groups) + 1
         /\ Written(after) = Head(handed).pts =>
              Flowing(after, Tail(handed), muxer, coming, n)
<1> DEFINE w == Written(groups)
           k == Len(handed)
           m == Len(muxer)
           c == Len(coming)
<1>1. w \in Nat /\ m \in Nat /\ c \in Nat  BY WrittenIs, LenProperties
<1>2. /\ k <= 1 /\ m <= 1 /\ Counted(handed, w) /\ Counted(muxer, w + k)
      /\ Counted(coming, w + k + m) /\ n = w + k + m + c
  BY DEF Flowing
<1>3. /\ Head(handed).pts = w + 1 /\ k \in Nat \ {0} /\ Len(Tail(handed)) = k - 1
      /\ Counted(Tail(handed), w + 1)
  BY <1>1, <1>2, FirstAndRest
<1> HIDE DEF w, k, m, c
<1>4. /\ w + 1 + (k - 1) = w + k /\ w + 1 + (k - 1) + m = w + k + m
      /\ w + 1 + (k - 1) + m + c = w + k + m + c /\ k - 1 <= 1
  BY <1>1, <1>2, <1>3
<1>5. Written(after) = w + 1 => Flowing(after, Tail(handed), muxer, coming, n)
  BY <1>2, <1>3, <1>4 DEF Flowing, m, c
<1> QED BY <1>3, <1>5 DEF w

\* The tail of a track.
LEMMA TailFlows ==
  ASSUME NEW groups \in Seq(Seq(Packet)), Ordered(groups), NEW after,
         NEW muxer \in Seq(Packet), muxer # << >>, NEW coming \in Seq(Packet), NEW n,
         Flowing(groups, << >>, muxer, coming, n)
  PROVE  /\ Head(muxer).pts = Written(groups) + 1
         /\ Written(after) = Head(muxer).pts =>
              Flowing(after, << >>, << >>, coming, n)
<1> DEFINE w == Written(groups)
           m == Len(muxer)
           c == Len(coming)
<1>1. w \in Nat /\ m \in Nat /\ c \in Nat /\ Len(<< >>) = 0  BY WrittenIs, LenProperties
<1>2. w + 0 = w /\ w + 1 + 0 + 0 = w + 1 /\ 0 <= 1  BY <1>1
<1>3. /\ m <= 1 /\ Counted(muxer, w) /\ Counted(coming, w + m) /\ n = w + m + c
  BY <1>1, <1>2 DEF Flowing
<1>4. Head(muxer).pts = w + 1 /\ m \in Nat \ {0}  BY <1>1, <1>3, FirstAndRest
<1> HIDE DEF w, m, c
<1>5. m = 1  BY <1>3, <1>4
<1>6. Written(after) = w + 1 => Flowing(after, << >>, << >>, coming, n)
  BY <1>1, <1>2, <1>3, <1>5, CountsNothing DEF Flowing, c
<1> QED BY <1>4, <1>6 DEF w

\* A packet goes into the muxer, and the sample it held comes out.
LEMMA PushFlows ==
  ASSUME NEW groups \in Seq(Seq(Packet)), Ordered(groups),
         NEW muxer \in Seq(Packet), NEW coming \in Seq(Packet), coming # << >>, NEW n,
         Flowing(groups, << >>, muxer, coming, n)
  PROVE  Flowing(groups, muxer, <<Head(coming)>>, Tail(coming), n)
<1> DEFINE w == Written(groups)
           m == Len(muxer)
           c == Len(coming)
<1>1. w \in Nat /\ m \in Nat /\ Len(<< >>) = 0 /\ Len(<<Head(coming)>>) = 1
  BY WrittenIs, LenProperties
<1>2. w + 0 = w /\ 1 <= 1  BY <1>1
<1>3. /\ m <= 1 /\ Counted(muxer, w) /\ Counted(coming, w + m) /\ n = w + m + c
  BY <1>1, <1>2 DEF Flowing
<1>4. w + m \in Nat  BY <1>1
<1>5. /\ c \in Nat \ {0} /\ Len(Tail(coming)) = c - 1
      /\ Counted(Tail(coming), w + m + 1) /\ Counted(<<Head(coming)>>, w + m)
  BY <1>3, <1>4, FirstAndRest
<1> HIDE DEF w, m, c
<1>6. w + m + 1 + (c - 1) = w + m + c  BY <1>1, <1>5
<1> QED BY <1>1, <1>2, <1>3, <1>5, <1>6 DEF Flowing, w, m

\* A call brings the next ones.
LEMMA CallFlows ==
  ASSUME NEW groups \in Seq(Seq(Packet)), Ordered(groups),
         NEW handed \in Seq(Packet), NEW muxer \in Seq(Packet),
         NEW coming \in Seq(Packet), NEW n,
         Flowing(groups, handed, muxer, << >>, n), Counted(coming, n)
  PROVE  Flowing(groups, handed, muxer, coming, n + Len(coming))
<1> DEFINE w == Written(groups)
           k == Len(handed)
           m == Len(muxer)
<1>1. w \in Nat /\ k \in Nat /\ m \in Nat /\ Len(<< >>) = 0  BY WrittenIs, LenProperties
<1>2. n = w + k + m  BY <1>1 DEF Flowing
<1> QED BY <1>2 DEF Flowing

-----------------------------------------------------------------------------
(* The packets of the groups, one after the other.  What `FlattenSeq`      *)
(* computes is a recursive function: there is one, since the packet at     *)
(* each place is known by its number, and what it returns is shown by the  *)
(* least group for which it would not be so.                               *)

\* A set of numbers has a least one.
LEMMA LeastNumber ==
  ASSUME NEW S, S \subseteq Nat, S # {}
  PROVE  \E n \in S : \A m \in S : n <= m
<1> DEFINE Less == {pair \in Nat \X Nat : pair[1] < pair[2]}
<1>1. IsWellFoundedOn(Less, Nat)  BY NatLessThanWellFounded DEF OpToRel
<1>2. \A x, y \in Nat : x < y => <<x, y>> \in Less  OBVIOUS
<1> HIDE DEF Less
<1>3. PICK n \in S : \A m \in S : ~(<<m, n>> \in Less)  BY <1>1, WFMin
<1>4. \A m \in S : ~(m < n)  BY <1>2, <1>3
<1> QED BY <1>4

\* What the recursion asks of its function.
IsFlat(groups, flat) ==
  flat = [g \in 1 .. Len(groups) |->
            IF g = 1 THEN groups[g] ELSE flat[g - 1] \o groups[g]]

\* If one there is, FlattenSeq is one's last value.
LEMMA FlattenIs ==
  ASSUME NEW groups, Len(groups) # 0, NEW some, IsFlat(groups, some)
  PROVE  \E flat : IsFlat(groups, flat) /\ FlattenSeq(groups) = flat[Len(groups)]
<1> DEFINE flat == CHOOSE f : IsFlat(groups, f)
<1>1. IsFlat(groups, flat)  OBVIOUS
<1>2. FlattenSeq(groups) = flat[Len(groups)]  BY DEF FlattenSeq, IsFlat
<1> QED BY <1>1, <1>2

\* The packet with this number.
Numbered(groups, k) ==
  CHOOSE packet : \E g \in DOMAIN groups : \E i \in DOMAIN groups[g] :
                    packet = groups[g][i] /\ packet.pts = k

LEMMA Within ==
  ASSUME NEW u \in Nat, NEW l \in Nat, NEW i \in 1 .. l
  PROVE  /\ i \in Nat /\ u + i \in Nat /\ u + i <= u + l /\ u + i >= u + 1
         /\ \A j \in 1 .. l : u + i = u + j => i = j
OBVIOUS

LEMMA NumberedIs ==
  ASSUME NEW groups \in Seq(Seq(Packet)), Ordered(groups),
         NEW g \in DOMAIN groups, NEW i \in DOMAIN groups[g]
  PROVE  Numbered(groups, Upto(groups, g - 1) + i) = groups[g][i]
<1> DEFINE k == Upto(groups, g - 1) + i
           packet == Numbered(groups, k)
<1>1. groups[g][i].pts = k  BY DEF Ordered, Counted
<1>2. PICK h \in DOMAIN groups : \E j \in DOMAIN groups[h] :
        packet = groups[h][j] /\ packet.pts = k
  BY <1>1 DEF Numbered
<1>3. PICK j \in DOMAIN groups[h] : packet = groups[h][j] /\ packet.pts = k
  BY <1>2
<1>4. groups[h][j].pts = Upto(groups, h - 1) + j  BY DEF Ordered, Counted
<1>5. /\ Upto(groups, g) \in Nat /\ Upto(groups, g - 1) \in Nat
      /\ Len(groups[g]) \in Nat /\ groups[g] \in Seq(Packet)
      /\ Upto(groups, g) = Upto(groups, g - 1) + Len(groups[g])
      /\ groups[g][1].pts = Upto(groups, g - 1) + 1
  BY InGroup
<1>6. /\ Upto(groups, h) \in Nat /\ Upto(groups, h - 1) \in Nat
      /\ Len(groups[h]) \in Nat /\ groups[h] \in Seq(Packet)
      /\ Upto(groups, h) = Upto(groups, h - 1) + Len(groups[h])
      /\ groups[h][1].pts = Upto(groups, h - 1) + 1
  BY InGroup
<1>7. i \in 1 .. Len(groups[g]) /\ j \in 1 .. Len(groups[h])
  <2>1. DOMAIN groups[g] = 1 .. Len(groups[g])  BY <1>5
  <2>2. DOMAIN groups[h] = 1 .. Len(groups[h])  BY <1>6
  <2> QED BY <2>1, <2>2
<1>8. g \in Nat /\ h \in Nat  BY LenProperties
<1>9. /\ k <= Upto(groups, g) /\ k >= Upto(groups, g - 1) + 1
      /\ k <= Upto(groups, h) /\ k >= Upto(groups, h - 1) + 1
      /\ k \in Nat
  <2>1. k = Upto(groups, g - 1) + i /\ k = Upto(groups, h - 1) + j  BY <1>3, <1>4
  <2>2. /\ k \in Nat /\ k <= Upto(groups, g - 1) + Len(groups[g])
        /\ k >= Upto(groups, g - 1) + 1
    BY <1>5, <1>7, <2>1, Within
  <2> HIDE DEF k
  <2>3. /\ k <= Upto(groups, h - 1) + Len(groups[h])
        /\ k >= Upto(groups, h - 1) + 1
    <3>1. /\ Upto(groups, h - 1) + j <= Upto(groups, h - 1) + Len(groups[h])
          /\ Upto(groups, h - 1) + j >= Upto(groups, h - 1) + 1
      BY <1>6, <1>7, Within
    <3> QED BY <2>1, <3>1
  <2> QED BY <1>5, <1>6, <2>2, <2>3
<1> HIDE DEF k
<1>10. ~(g < h) /\ ~(h < g)
  <2>1. ASSUME g < h PROVE FALSE
    <3>1. Upto(groups, g) < Upto(groups, h - 1) + 1  BY <1>6, <2>1 DEF Ordered
    <3> QED BY <1>5, <1>6, <1>9, <3>1
  <2>2. ASSUME h < g PROVE FALSE
    <3>1. Upto(groups, h) < Upto(groups, g - 1) + 1  BY <1>5, <2>2 DEF Ordered
    <3> QED BY <1>5, <1>6, <1>9, <3>1
  <2> QED BY <2>1, <2>2
<1>11. g = h  BY <1>8, <1>10
<1>12. i = j
  <2>1. Upto(groups, g - 1) + i = Upto(groups, g - 1) + j  BY <1>3, <1>4, <1>11 DEF k
  <2>2. j \in 1 .. Len(groups[g])  BY <1>7, <1>11
  <2> QED BY <1>5, <1>7, <2>1, <2>2, Within
<1> QED BY <1>3, <1>11, <1>12 DEF k

\* The function there is.
LEMMA FlatExists ==
  ASSUME NEW groups \in Seq(Seq(Packet)), Ordered(groups)
  PROVE  \E flat : IsFlat(groups, flat)
<1> DEFINE n == Len(groups)
           S == {Numbered(groups, k) : k \in Nat}
           upto(g) == Upto(groups, g)
           prefix(g) == [k \in 1 .. upto(g) |-> Numbered(groups, k)]
           flat == [g \in 1 .. n |-> prefix(g)]
<1>1. n \in Nat /\ DOMAIN groups = 1 .. n  BY LenProperties
<1>2. \A g \in 0 .. n : upto(g) \in Nat
  <2> TAKE g \in 0 .. n
  <2>1. CASE g = 0  BY <2>1 DEF Upto
  <2>2. CASE g # 0
    <3>1. g \in DOMAIN groups  BY <1>1, <2>2
    <3> QED BY <3>1, InGroup
  <2> QED BY <2>1, <2>2
<1>3. ASSUME NEW g \in 0 .. n
      PROVE  prefix(g) \in Seq(S) /\ Len(prefix(g)) = upto(g)
  <2>1. upto(g) \in Nat  BY <1>2
  <2> DEFINE u == upto(g)
  <2> HIDE DEF u
  <2>2. \A k \in 1 .. u : Numbered(groups, k) \in S  BY <2>1 DEF u
  <2> HIDE DEF S
  <2>3. [k \in 1 .. u |-> Numbered(groups, k)] \in [1 .. u -> S]  BY <2>2
  <2>4. /\ [k \in 1 .. u |-> Numbered(groups, k)] \in Seq(S)
        /\ Len([k \in 1 .. u |-> Numbered(groups, k)]) = u
    BY <2>1, <2>3 DEF u
  <2> QED BY <2>4 DEF u
<1>4. ASSUME NEW g \in DOMAIN groups
      PROVE  /\ groups[g] \in Seq(S) /\ Len(groups[g]) \in Nat
             /\ upto(g) = upto(g - 1) + Len(groups[g])
             /\ \A i \in 1 .. Len(groups[g]) : groups[g][i] = Numbered(groups, upto(g - 1) + i)
  <2>1. /\ groups[g] \in Seq(Packet) /\ Len(groups[g]) \in Nat
        /\ upto(g - 1) \in Nat /\ upto(g) = upto(g - 1) + Len(groups[g])
    BY InGroup
  <2>2. ASSUME NEW i \in 1 .. Len(groups[g])
        PROVE  groups[g][i] = Numbered(groups, upto(g - 1) + i)
    <3>1. i \in DOMAIN groups[g]  BY <2>1
    <3> QED BY <3>1, NumberedIs
  <2> DEFINE s == groups[g]
             u == upto(g - 1)
  <2>3. s \in Seq(Packet) /\ u \in Nat /\ \A i \in 1 .. Len(s) : s[i] = Numbered(groups, u + i)
    BY <2>1, <2>2
  <2> HIDE DEF s, u
  <2>4. \A i \in 1 .. Len(s) : s[i] \in S
    <3> TAKE i \in 1 .. Len(s)
    <3>1. u + i \in Nat  BY <2>3
    <3> QED BY <2>3, <3>1
  <2> HIDE DEF S
  <2>5. s = [i \in 1 .. Len(s) |-> s[i]] /\ Len(s) \in Nat  BY <2>3
  <2>6. s \in Seq(S)  BY <2>4, <2>5, InSeq
  <2> QED BY <2>1, <2>2, <2>6 DEF s
<1> HIDE DEF S, upto
<1>5. ASSUME NEW g \in 1 .. n
      PROVE  prefix(g) = IF g = 1 THEN groups[g] ELSE prefix(g - 1) \o groups[g]
  <2> DEFINE a == prefix(g - 1)
             s == groups[g]
             b == prefix(g)
  <2>1. g \in DOMAIN groups /\ g \in 0 .. n /\ g - 1 \in 0 .. n  BY <1>1
  <2>2. /\ a \in Seq(S) /\ Len(a) = upto(g - 1) /\ b \in Seq(S) /\ Len(b) = upto(g)
        /\ upto(g - 1) \in Nat
    BY <1>2, <1>3, <2>1
  <2>3. /\ s \in Seq(S) /\ Len(s) \in Nat /\ upto(g) = upto(g - 1) + Len(s)
        /\ \A i \in 1 .. Len(s) : s[i] = Numbered(groups, upto(g - 1) + i)
    BY <1>4, <2>1
  <2>4. /\ \A k \in 1 .. upto(g) : b[k] = Numbered(groups, k)
        /\ \A k \in 1 .. upto(g - 1) : a[k] = Numbered(groups, k)
    OBVIOUS
  <2> HIDE DEF a, s, b
  <2>5. CASE g = 1
    <3>1. upto(g - 1) = 0  BY <2>5 DEF upto, Upto
    <3>2. Len(s) = Len(b) /\ \A k \in 1 .. Len(s) : s[k] = b[k]
      BY <2>2, <2>3, <2>4, <3>1
    <3>3. s = b  BY <2>2, <2>3, <3>2, SeqEqual
    <3> QED BY <2>5, <3>3 DEF s, b
  <2>6. CASE g # 1
    <3>1. /\ a \o s \in Seq(S) /\ Len(a \o s) = Len(a) + Len(s)
          /\ \A k \in 1 .. Len(a) + Len(s) :
               (a \o s)[k] = IF k <= Len(a) THEN a[k] ELSE s[k - Len(a)]
      BY <2>2, <2>3, ConcatProperties
    <3>2. ASSUME NEW k \in 1 .. Len(a \o s) PROVE (a \o s)[k] = b[k]
      <4> DEFINE u == upto(g - 1)
                 l == Len(s)
      <4>1. u \in Nat /\ l \in Nat /\ k \in 1 .. u + l /\ upto(g) = u + l /\ Len(a) = u
        BY <2>2, <2>3, <3>1
      <4> HIDE DEF u, l
      <4>2. CASE k <= u
        <5>1. k \in 1 .. u  BY <4>1, <4>2
        <5> QED BY <2>4, <3>1, <4>1, <4>2, <5>1 DEF u, l
      <4>3. CASE ~(k <= u)
        <5>1. k - u \in 1 .. l /\ u + (k - u) = k  BY <4>1, <4>3
        <5>2. s[k - u] = Numbered(groups, k)  BY <2>3, <5>1 DEF u, l
        <5> QED BY <2>4, <3>1, <4>1, <4>3, <5>2 DEF u, l
      <4> QED BY <4>2, <4>3
    <3>3. Len(a \o s) = Len(b)  BY <2>2, <2>3, <3>1
    <3>4. a \o s = b  BY <2>2, <3>1, <3>2, <3>3, SeqEqual
    <3> QED BY <2>6, <3>4 DEF a, s, b
  <2> QED BY <2>5, <2>6
<1> HIDE DEF prefix
<1>6. \A g \in 1 .. n : g # 1 => g - 1 \in 1 .. n  BY <1>1
<1>7. flat = [g \in 1 .. n |-> IF g = 1 THEN groups[g] ELSE flat[g - 1] \o groups[g]]
  <2>1. \A g \in 1 .. n :
          prefix(g) = IF g = 1 THEN groups[g] ELSE flat[g - 1] \o groups[g]
    BY <1>5, <1>6
  <2> QED BY <2>1
<1> QED BY <1>7 DEF IsFlat

\* One after the other, the packets of the groups are numbered from 1.
LEMMA FlattenedInOrder ==
  ASSUME NEW groups \in Seq(Seq(Packet)), Ordered(groups)
  PROVE  /\ FlattenSeq(groups) \in Seq(Packet)
         /\ Len(FlattenSeq(groups)) = Written(groups)
         /\ Counted(FlattenSeq(groups), 0)
<1>1. CASE Len(groups) = 0
  <2>1. FlattenSeq(groups) = groups  BY <1>1 DEF FlattenSeq
  <2>2. groups = << >>  BY <1>1, EmptySeq
  <2>3. /\ FlattenSeq(groups) = << >> /\ Written(groups) = 0
        /\ Counted(<< >>, 0) /\ Len(<< >>) = 0
    BY <2>1, <2>2, WrittenIs, CountsNothing
  <2>4. << >> \in Seq(Packet)  OBVIOUS
  <2> QED BY <2>3, <2>4
<1>2. CASE Len(groups) # 0
  <2> DEFINE n == Len(groups)
             upto(g) == Upto(groups, g)
  <2>1. n \in Nat \ {0} /\ DOMAIN groups = 1 .. n  BY <1>2, LenProperties
  <2>2. PICK flat : IsFlat(groups, flat) /\ FlattenSeq(groups) = flat[n]
    BY <1>2, FlatExists, FlattenIs
  <2>3. \A g \in 1 .. n : flat[g] = IF g = 1 THEN groups[g] ELSE flat[g - 1] \o groups[g]
    BY <2>2 DEF IsFlat
  <2> DEFINE Right(g) == /\ flat[g] \in Seq(Packet) /\ Len(flat[g]) = upto(g)
                         /\ Counted(flat[g], 0)
             Wrong == {g \in 1 .. n : ~Right(g)}
  <2>4. Wrong = {}
    <3> SUFFICES ASSUME Wrong # {} PROVE FALSE  OBVIOUS
    <3>1. Wrong \subseteq Nat  BY <2>1
    <3>2. PICK g \in Wrong : \A m \in Wrong : g <= m  BY <3>1, LeastNumber
    <3>3. g \in 1 .. n /\ ~Right(g) /\ g \in DOMAIN groups  BY <2>1, <3>2
    <3>4. g > 1 => g - 1 \in 1 .. n /\ Right(g - 1)
      <4> HAVE g > 1
      <4>1. g - 1 \in 1 .. n /\ ~(g <= g - 1)  BY <2>1, <3>3
      <4> QED BY <3>2, <4>1
    <3> DEFINE s == groups[g]
    <3>5. /\ s \in Seq(Packet) /\ Len(s) \in Nat /\ upto(g) \in Nat /\ upto(g - 1) \in Nat
          /\ upto(g) = upto(g - 1) + Len(s)
      BY <3>3, InGroup
    <3>6. Counted(s, upto(g - 1))  BY <3>3 DEF Ordered
    <3>7. CASE g = 1
      <4>1. upto(g - 1) = 0  BY <3>7 DEF Upto
      <4>2. flat[g] = s  BY <2>3, <3>3, <3>7
      <4> HIDE DEF upto, s
      <4>3. Right(g)  BY <3>5, <3>6, <4>1, <4>2
      <4> QED BY <3>3, <4>3
    <3>8. CASE g # 1
      <4> DEFINE a == flat[g - 1]
      <4>1. g > 1  BY <2>1, <3>3, <3>8
      <4>2. a \in Seq(Packet) /\ Len(a) = upto(g - 1) /\ Counted(a, 0)
        BY <3>4, <4>1
      <4>3. flat[g] = a \o s  BY <2>3, <3>3, <3>8
      <4> DEFINE u == upto(g - 1)
                 l == Len(s)
      <4>4. /\ a \o s \in Seq(Packet) /\ Len(a \o s) = u + l
            /\ \A k \in 1 .. u + l : (a \o s)[k] = IF k <= u THEN a[k] ELSE s[k - u]
            /\ DOMAIN a = 1 .. u /\ DOMAIN s = 1 .. l /\ DOMAIN (a \o s) = 1 .. u + l
        <5>0. a \in Seq(Packet) /\ s \in Seq(Packet)  BY <3>5, <4>2
        <5> HIDE DEF a, s
        <5>1. /\ a \o s \in Seq(Packet) /\ Len(a \o s) = Len(a) + Len(s)
              /\ \A k \in 1 .. Len(a) + Len(s) :
                   (a \o s)[k] = IF k <= Len(a) THEN a[k] ELSE s[k - Len(a)]
          BY <5>0, ConcatProperties
        <5>2. DOMAIN a = 1 .. Len(a) /\ DOMAIN s = 1 .. Len(s)
              /\ DOMAIN (a \o s) = 1 .. Len(a \o s)
          BY <5>0, <5>1
        <5> QED BY <4>2, <5>1, <5>2 DEF u, l
      <4>5. u \in Nat /\ l \in Nat /\ upto(g) = u + l  BY <3>5
      <4> HIDE DEF upto, a, s, u, l
      <4>6. Counted(a \o s, 0)
        <5> SUFFICES ASSUME NEW k \in 1 .. u + l PROVE (a \o s)[k].pts = 0 + k
          BY <4>4 DEF Counted
        <5>1. CASE k <= u
          <6>1. k \in 1 .. u  BY <4>5, <5>1
          <6> QED BY <4>2, <4>4, <5>1, <6>1 DEF Counted
        <5>2. CASE ~(k <= u)
          <6>1. k - u \in 1 .. l /\ u + (k - u) = 0 + k  BY <4>5, <5>2
          <6>2. s[k - u].pts = u + (k - u)  BY <3>6, <4>4, <6>1 DEF Counted, u
          <6> QED BY <4>4, <5>2, <6>1, <6>2
        <5> QED BY <5>1, <5>2
      <4>7. Right(g)  BY <4>3, <4>4, <4>5, <4>6
      <4> QED BY <3>3, <4>7
    <3> QED BY <3>7, <3>8
  <2>5. Right(n)
    <3>1. n \in 1 .. n  BY <2>1
    <3> HIDE DEF Right, n
    <3> QED BY <2>4, <3>1
  <2> QED BY <2>2, <2>5 DEF Written
<1> QED BY <1>1, <1>2

-----------------------------------------------------------------------------
(* The run's packets, track by track.                                      *)

\* Fragments are of the pad at hand.
Handed(t) == IF t = pad THEN ready ELSE << >>

\* One track: its groups are in order and by the rules, its pacer counts them,
\* and the others of its packets follow.  A message goes into no muxer.
InOrder(kind, r, handed, coming, n) ==
  /\ Ordered(r.groups) /\ Disciplined(kind, r.groups)
  /\ Len(r.groups) = r.pace.cut
  /\ Flowing(r.groups, handed, r.muxer, coming, n)
  /\ kind = "data" => r.muxer = << >>

AllInOrder ==
  \A t \in Tracks : InOrder(pads[t], renditions[t], Handed(t), input[t], offered[t])

\* What a call has yet to take is taken up before it gets on: messages first, and
\* then one pad after the other.
Taken ==
  \A t \in Tracks : input[t] # << >> =>
    \/ at \in {"mend", "hold", "choose", "refresh", "catch", "messages", "failed"}
    \/ at = "yield" /\ then = "messages"
    \/ /\ at = "media" \/ (at \in {"yield", "flush"} /\ then = "media")
       /\ pads[t] # "data" /\ t >= pad

AtTheEnd ==
  at \in {"drain", "linger", "over"} \/ (at \in {"empty", "flush"} /\ then = "drain")

\* Once the tails are out no muxer holds a sample and no group is open, and with
\* the last flush nothing is held back; only then are the tracks told.
TailsFirst ==
  /\ AtTheEnd => \A t \in Tracks : renditions[t].muxer = << >> /\ ~renditions[t].pace.open
  /\ AtTheEnd /\ at # "empty" => ~Held
  /\ finished => at \in {"linger", "over"}

TailInv == AllInOrder /\ Taken /\ TailsFirst

\* A step that moves no packet.
LEMMA NothingMoves ==
  ASSUME AllInOrder, UNCHANGED <<pads, input, offered>>,
         \A t \in Tracks : /\ renditions'[t].groups = renditions[t].groups
                           /\ renditions'[t].muxer = renditions[t].muxer
                           /\ renditions'[t].pace.cut = renditions[t].pace.cut,
         UNCHANGED <<pad, ready>> \/ (ready = << >> /\ ready' = << >>)
  PROVE  AllInOrder'
<1>1. Tracks' = Tracks  BY DEF Tracks
<1>2. \A t \in Tracks : Handed(t)' = Handed(t)  BY DEF Handed
<1>3. ASSUME NEW t \in Tracks
      PROVE  InOrder(pads[t], renditions'[t], Handed(t), input[t], offered[t])
  <2>1. InOrder(pads[t], renditions[t], Handed(t), input[t], offered[t])  BY DEF AllInOrder
  <2> QED BY <2>1 DEF InOrder
<1> QED BY <1>1, <1>2, <1>3 DEF AllInOrder

\* A look at the queues moves none.
LEMMA LooksMoveNothing ==
  ASSUME TrackTypes, renditions' = Released, NEW t \in Tracks
  PROVE  /\ renditions'[t].groups = renditions[t].groups
         /\ renditions'[t].muxer = renditions[t].muxer
         /\ renditions'[t].pace.cut = renditions[t].pace.cut
         /\ renditions'[t].pace.open = renditions[t].pace.open
<1> DEFINE r == renditions[t]
           p == Looked(r.pace, t \in asked)
<1>1. RenditionOK(r) /\ (t \in asked) \in BOOLEAN  BY TrackOK
<1>2. p.cut = r.pace.cut /\ p.open = r.pace.open
  BY <1>1, RenditionPace, LookedKeeps
<1>3. renditions'[t] = [r EXCEPT !.pace = p]  BY DEF Released
<1> HIDE DEF p
<1> QED BY <1>1, <1>2, <1>3 DEF RenditionOK, RenditionType

\* A frame that is next goes into its track in order.
LEMMA PublishedInOrder ==
  ASSUME NEW t, NEW r, RenditionOK(r), Ordered(r.groups), Disciplined(pads[t], r.groups),
         Len(r.groups) = r.pace.cut,
         NEW frame \in Packet, frame.pts = Written(r.groups) + 1
  PROVE  LET p == Published(t, r, frame)
         IN  /\ Ordered(p.groups) /\ Disciplined(pads[t], p.groups)
             /\ Len(p.groups) = p.pace.cut
             /\ Written(p.groups) = frame.pts /\ p.muxer = r.muxer
<1>1. r.groups \in Seq(Seq(Packet))  BY DEF RenditionOK, RenditionType
<1> DEFINE gs == Filed(t, r.groups, frame)
           p == Published(t, r, frame)
<1>2. /\ p.groups = gs /\ p.muxer = r.muxer
      /\ p.pace.cut = r.pace.cut + IF StartsAGroup(t, r.groups, frame) THEN 1 ELSE 0
  BY PublishedIs
<1>3. /\ Ordered(gs) /\ Written(gs) = frame.pts /\ Disciplined(pads[t], gs)
      /\ Len(gs) = Len(r.groups) + IF StartsAGroup(t, r.groups, frame) THEN 1 ELSE 0
  BY <1>1, FiledInOrder, FiledByTheRules
<1> HIDE DEF gs, p
<1> QED BY <1>2, <1>3 DEF p

\* One track changes, and its packets are where they should be.
LEMMA OneTrackMoves ==
  ASSUME AllInOrder, TrackTypes, UNCHANGED <<pads, pad, offered>>,
         NEW t \in Tracks, NEW r,
         renditions' = [renditions EXCEPT ![t] = r],
         t = pad \/ UNCHANGED ready,
         \A u \in Tracks : u # t => input'[u] = input[u],
         InOrder(pads[t], r, Handed(t)', input'[t], offered[t])
  PROVE  AllInOrder'
<1>1. Tracks' = Tracks  BY DEF Tracks
<1>2. \A u \in Tracks : renditions'[u] = IF u = t THEN r ELSE renditions[u]
  BY DEF TrackTypes
<1>3. ASSUME NEW u \in Tracks
      PROVE  InOrder(pads[u], renditions'[u], Handed(u)', input'[u], offered[u])
  <2>1. CASE u = t  BY <1>2, <2>1
  <2>2. CASE u # t
    <3>1. InOrder(pads[u], renditions[u], Handed(u), input[u], offered[u])
      BY DEF AllInOrder
    <3>2. Handed(u)' = Handed(u)  BY <2>2 DEF Handed
    <3> QED BY <1>2, <2>2, <3>1, <3>2
  <2> QED BY <2>1, <2>2
<1> QED BY <1>1, <1>3 DEF AllInOrder

LEMMA TellInOrder == ASSUME IInv, AllInOrder, Tell PROVE AllInOrder'
<1>1. PICK t \in Tracks : /\ pads[t] = "data" /\ input[t] # << >>
                          /\ Becomes(t, Published(t, renditions[t], Head(input[t])))
                          /\ input' = [input EXCEPT ![t] = Tail(@)]
  BY DEF Tell
<1> DEFINE r == renditions[t]
           s == input[t]
           p == Published(t, r, Head(s))
           n == offered[t]
<1>2. at = "messages" /\ UNCHANGED <<pads, pad, ready, offered>>  BY DEF Tell, clock, opened
<1>3. TrackTypes /\ RenditionOK(r) /\ s \in Seq(Packet) /\ r.groups \in Seq(Seq(Packet))
  BY Types, TrackOK DEF IInv, TrackTypes, RenditionOK, RenditionType
<1>4. ready = << >>  BY <1>2 DEF IInv, ReadyIsMedia
<1>5. Handed(t) = << >> /\ Handed(t)' = << >>  BY <1>2, <1>4 DEF Handed
<1>6. InOrder(pads[t], r, Handed(t), s, n)  BY DEF AllInOrder
<1>7. renditions' = [renditions EXCEPT ![t] = p]  BY <1>1 DEF Becomes
<1>8. input'[t] = Tail(s) /\ \A u \in Tracks : u # t => input'[u] = input[u]
  BY <1>1, <1>3 DEF TrackTypes
<1> HIDE DEF r, s, p, n
<1>9. /\ Ordered(r.groups) /\ Disciplined(pads[t], r.groups) /\ Len(r.groups) = r.pace.cut
      /\ r.muxer = << >> /\ Flowing(r.groups, << >>, << >>, s, n)
  BY <1>1, <1>5, <1>6 DEF InOrder
<1>10. s # << >>  BY <1>1 DEF s
<1>11. /\ Head(s).pts = Written(r.groups) + 1
       /\ Written(p.groups) = Head(s).pts => Flowing(p.groups, << >>, << >>, Tail(s), n)
  BY <1>3, <1>9, <1>10, TellFlows
<1>12. Head(s) \in Packet  BY <1>3, <1>10, Packets
<1>13. /\ Ordered(p.groups) /\ Disciplined(pads[t], p.groups) /\ Len(p.groups) = p.pace.cut
       /\ Written(p.groups) = Head(s).pts /\ p.muxer = r.muxer
  BY <1>3, <1>9, <1>11, <1>12, PublishedInOrder DEF p
<1>14. InOrder(pads[t], p, Handed(t)', input'[t], offered[t])
  BY <1>5, <1>8, <1>9, <1>11, <1>13 DEF InOrder, n
<1> QED BY <1>2, <1>3, <1>7, <1>8, <1>14, OneTrackMoves

LEMMA FragmentInOrder == ASSUME IInv, AllInOrder, Fragment PROVE AllInOrder'
<1> DEFINE r == renditions[pad]
           s == ready
           p == Published(pad, r, Head(s))
           n == offered[pad]
           c == input[pad]
<1>1. /\ ready # << >> /\ ready' = Tail(ready) /\ Becomes(pad, p)
      /\ UNCHANGED <<pads, pad, input, offered>>
  BY DEF Fragment, opened
<1>2. pad \in Tracks /\ pads[pad] # "data"  BY <1>1 DEF IInv, ReadyIsMedia
<1>3. /\ TrackTypes /\ RenditionOK(r) /\ s \in Seq(Packet) /\ c \in Seq(Packet)
      /\ r.groups \in Seq(Seq(Packet)) /\ r.muxer \in Seq(Packet)
  BY <1>2, Types, TrackOK DEF IInv, TrackTypes, RenditionOK, RenditionType
<1>4. Handed(pad) = s /\ Handed(pad)' = Tail(s)  BY <1>1 DEF Handed
<1>5. InOrder(pads[pad], r, Handed(pad), c, n)  BY <1>2 DEF AllInOrder
<1>6. renditions' = [renditions EXCEPT ![pad] = p]  BY <1>1 DEF Becomes
<1>7. s # << >>  BY <1>1
<1> HIDE DEF r, s, p, n, c
<1>8. /\ Ordered(r.groups) /\ Disciplined(pads[pad], r.groups) /\ Len(r.groups) = r.pace.cut
      /\ Flowing(r.groups, s, r.muxer, c, n)
  BY <1>4, <1>5 DEF InOrder
<1>9. /\ Head(s).pts = Written(r.groups) + 1
      /\ Written(p.groups) = Head(s).pts => Flowing(p.groups, Tail(s), r.muxer, c, n)
  BY <1>3, <1>7, <1>8, FragmentFlows
<1>10. Head(s) \in Packet  BY <1>3, <1>7, Packets
<1>11. /\ Ordered(p.groups) /\ Disciplined(pads[pad], p.groups) /\ Len(p.groups) = p.pace.cut
       /\ Written(p.groups) = Head(s).pts /\ p.muxer = r.muxer
  BY <1>3, <1>8, <1>9, <1>10, PublishedInOrder DEF p
<1>12. InOrder(pads[pad], p, Handed(pad)', input'[pad], offered[pad])
  BY <1>1, <1>2, <1>4, <1>9, <1>11 DEF InOrder, n, c
<1> QED BY <1>1, <1>2, <1>3, <1>6, <1>12, OneTrackMoves

LEMMA PushInOrder == ASSUME IInv, AllInOrder, Push PROVE AllInOrder'
<1> DEFINE r == renditions[pad]
           s == input[pad]
           q == [r EXCEPT !.muxer = <<Head(s)>>]
           n == offered[pad]
<1>1. /\ pad \in Tracks /\ pads[pad] # "data" /\ ready = << >> /\ input[pad] # << >>
      /\ ready' = r.muxer /\ renditions' = [renditions EXCEPT ![pad].muxer = <<Head(s)>>]
      /\ input' = [input EXCEPT ![pad] = Tail(@)]
      /\ UNCHANGED <<pads, pad, offered>>
  BY DEF Push, opened, counter, rest
<1>2. /\ TrackTypes /\ RenditionOK(r) /\ s \in Seq(Packet)
      /\ r.groups \in Seq(Seq(Packet)) /\ r.muxer \in Seq(Packet)
  BY <1>1, Types, TrackOK DEF IInv, TrackTypes, RenditionOK, RenditionType
<1>3. Handed(pad) = << >> /\ Handed(pad)' = r.muxer  BY <1>1 DEF Handed
<1>4. InOrder(pads[pad], r, Handed(pad), s, n)  BY <1>1 DEF AllInOrder
<1>5. renditions' = [renditions EXCEPT ![pad] = q]  BY <1>1
<1>6. q.groups = r.groups /\ q.muxer = <<Head(s)>> /\ q.pace = r.pace
  BY <1>2 DEF RenditionOK, RenditionType
<1>7. input'[pad] = Tail(s) /\ \A u \in Tracks : u # pad => input'[u] = input[u]
  BY <1>1, <1>2 DEF TrackTypes
<1>8. s # << >>  BY <1>1
<1> HIDE DEF r, s, q, n
<1>9. /\ Ordered(r.groups) /\ Disciplined(pads[pad], r.groups) /\ Len(r.groups) = r.pace.cut
      /\ Flowing(r.groups, << >>, r.muxer, s, n)
  BY <1>3, <1>4 DEF InOrder
<1>10. Flowing(r.groups, r.muxer, <<Head(s)>>, Tail(s), n)
  BY <1>2, <1>8, <1>9, PushFlows
<1>11. InOrder(pads[pad], q, Handed(pad)', input'[pad], offered[pad])
  BY <1>1, <1>3, <1>6, <1>7, <1>9, <1>10 DEF InOrder, n
<1> QED BY <1>1, <1>2, <1>5, <1>7, <1>11, OneTrackMoves

LEMMA CompletedInOrder ==
  ASSUME IInv, AllInOrder, Finish, NEW t \in Tracks
  PROVE  /\ InOrder(pads[t], Completed(t), << >>, input[t], offered[t])
         /\ Completed(t).muxer = << >> /\ Completed(t).pace.open = FALSE
<1> DEFINE r == renditions[t]
           s == r.muxer
           p == Published(t, r, Head(s))
           e == [p EXCEPT !.muxer = << >>]
           n == offered[t]
           c == input[t]
<1>1. /\ TrackTypes /\ RenditionOK(r) /\ s \in Seq(Packet) /\ c \in Seq(Packet)
      /\ r.groups \in Seq(Seq(Packet))
  BY Types, TrackOK DEF IInv, TrackTypes, RenditionOK, RenditionType
<1>2. ready = << >>  BY DEF Finish, IInv, ReadyIsMedia
<1>3. Handed(t) = << >>  BY <1>2 DEF Handed
<1>4. InOrder(pads[t], r, Handed(t), c, n)  BY DEF AllInOrder
<1>5. Completed(t) = Closed(IF s = << >> THEN r ELSE e)  BY DEF Completed
<1>6. ASSUME NEW q, RenditionOK(q)
      PROVE  /\ Closed(q).groups = q.groups /\ Closed(q).muxer = q.muxer
             /\ Closed(q).pace.cut = q.pace.cut /\ Closed(q).pace.open = FALSE
  <2>1. PaceOK(q.pace)  BY <1>6, RenditionPace
  <2>2. Shut(q.pace).cut = q.pace.cut /\ Shut(q.pace).open = FALSE  BY <2>1, ShutKeeps
  <2>3. /\ Closed(q).groups = q.groups /\ Closed(q).muxer = q.muxer
        /\ Closed(q).pace = Shut(q.pace)
    BY <1>6 DEF Closed, RenditionOK, RenditionType
  <2> QED BY <2>2, <2>3
<1> HIDE DEF r, n, c
<1>7. /\ Ordered(r.groups) /\ Disciplined(pads[t], r.groups) /\ Len(r.groups) = r.pace.cut
      /\ Flowing(r.groups, << >>, s, c, n)
  BY <1>3, <1>4 DEF InOrder
<1>8. CASE s = << >>
  <2>1. Completed(t) = Closed(r)  BY <1>5, <1>8
  <2> QED BY <1>1, <1>6, <1>7, <1>8, <2>1 DEF InOrder, n, c
<1>9. CASE s # << >>
  <2>1. Head(s) \in Packet  BY <1>1, <1>9, Packets
  <2>2. /\ Head(s).pts = Written(r.groups) + 1
        /\ Written(p.groups) = Head(s).pts => Flowing(p.groups, << >>, << >>, c, n)
    BY <1>1, <1>7, <1>9, TailFlows
  <2>3. /\ Ordered(p.groups) /\ Disciplined(pads[t], p.groups) /\ Len(p.groups) = p.pace.cut
        /\ Written(p.groups) = Head(s).pts
    BY <1>1, <1>7, <2>1, <2>2, PublishedInOrder
  <2>4. RenditionOK(p)  BY <1>1, <2>1, PublishedType
  <2>5. << >> \in Seq(Packet)  OBVIOUS
  <2> HIDE DEF p
  <2>6. e \in RenditionType /\ e.muxer = << >> /\ e.groups = p.groups /\ e.pace = p.pace
    BY <2>4, <2>5 DEF RenditionOK, RenditionType
  <2>7. RenditionOK(e)  BY <2>4, <2>6 DEF RenditionOK
  <2>8. Completed(t) = Closed(e)  BY <1>5, <1>9
  <2> HIDE DEF e
  <2> QED BY <1>6, <2>2, <2>3, <2>6, <2>7, <2>8 DEF InOrder, n, c
<1> QED BY <1>8, <1>9

LEMMA FinishInOrder == ASSUME IInv, AllInOrder, Finish PROVE AllInOrder'
<1>1. /\ at = "finish" /\ renditions' = [t \in Tracks |-> Completed(t)]
      /\ UNCHANGED <<pads, pad, ready, input, offered>>
  BY DEF Finish, opened
<1>2. Tracks' = Tracks /\ ready' = << >>
  BY <1>1 DEF Tracks, IInv, ReadyIsMedia
<1>3. \A t \in Tracks : Handed(t)' = << >>  BY <1>2 DEF Handed
<1>4. \A t \in Tracks : InOrder(pads[t], Completed(t), << >>, input[t], offered[t])
  BY CompletedInOrder
<1> HIDE DEF InOrder
<1>5. \A t \in Tracks : renditions'[t] = Completed(t)  BY <1>1
<1> QED BY <1>1, <1>2, <1>3, <1>4, <1>5 DEF AllInOrder

\* The packets of a call are the next ones.
LEMMA BatchIsNext ==
  ASSUME NEW t \in Tracks, NEW batch \in Batch(t), offered[t] \in Nat
  PROVE  Counted(batch, offered[t])
<1> DEFINE bound == Min({MaxBatch, Left})
           kinds == IF pads[t] = "video" THEN BOOLEAN ELSE {TRUE}
<1>1. batch \in UNION {{[i \in 1 .. n |-> [pts |-> offered[t] + i, key |-> keys[i]]] :
                          keys \in [1 .. n -> kinds]} : n \in 0 .. bound}
  BY DEF Batch
<1> HIDE DEF bound, kinds
<1>2. PICK n \in 0 .. bound :
        batch \in {[i \in 1 .. n |-> [pts |-> offered[t] + i, key |-> keys[i]]] :
                     keys \in [1 .. n -> kinds]}
  BY <1>1
<1>3. PICK keys \in [1 .. n -> kinds] :
        batch = [i \in 1 .. n |-> [pts |-> offered[t] + i, key |-> keys[i]]]
  BY <1>2
<1> QED BY <1>3 DEF Counted

LEMMA CallInOrder ==
  ASSUME IInv, AllInOrder, Taken, NEW last \in BOOLEAN, Call(last)
  PROVE  AllInOrder'
<1>1. /\ at = "idle" /\ \A t \in Tracks : input'[t] \in Batch(t)
      /\ offered' = [t \in Tracks |-> offered[t] + Len(input'[t])]
      /\ UNCHANGED <<pads, pad, ready, renditions>>
  BY DEF Call, opened
<1>2. Tracks' = Tracks /\ TrackTypes /\ TrackTypes'  BY <1>1, Types, NextTypes DEF Next, Tracks, IInv
<1>3. \A t \in Tracks : Handed(t)' = Handed(t)  BY <1>1 DEF Handed
<1>4. ASSUME NEW t \in Tracks
      PROVE  InOrder(pads[t], renditions[t], Handed(t), input'[t], offered'[t])
  <2> DEFINE r == renditions[t]
             s == input'[t]
             n == offered[t]
             h == Handed(t)
  <2>1. input[t] = << >>  BY <1>1 DEF Taken
  <2>2. InOrder(pads[t], r, h, << >>, n)  BY <2>1 DEF AllInOrder
  <2>3. n \in Nat /\ s \in Seq(Packet)  BY <1>2 DEF TrackTypes
  <2>4. Counted(s, n)  BY <1>1, <2>3, BatchIsNext
  <2>5. offered'[t] = n + Len(s)  BY <1>1
  <2>6. r.groups \in Seq(Seq(Packet)) /\ r.muxer \in Seq(Packet) /\ h \in Seq(Packet)
    <3>1. << >> \in Seq(Packet)  OBVIOUS
    <3>2. h \in Seq(Packet)  BY <1>2, <3>1 DEF TrackTypes, Handed
    <3>3. RenditionOK(r)  BY <1>2, TrackOK
    <3> QED BY <3>2, <3>3 DEF RenditionOK, RenditionType
  <2> HIDE DEF r, s, n, h
  <2>7. Flowing(r.groups, h, r.muxer, s, n + Len(s))
    BY <2>2, <2>3, <2>4, <2>6, CallFlows DEF InOrder
  <2> QED BY <2>2, <2>5, <2>7 DEF InOrder, r, s, h
<1> QED BY <1>1, <1>2, <1>3, <1>4 DEF AllInOrder

\* Every step keeps the packets in order.
LEMMA NextInOrder ==
  ASSUME IInv, TailInv, [Next]_vars PROVE AllInOrder'
<1> USE DEF Goto, Await, Stay, opened, relay, clock, counter, work, rest
<1>1. AllInOrder /\ Taken /\ ReadyIsMedia /\ Routes /\ TrackTypes
  BY Types DEF IInv, TailInv
<1>2. ASSUME UNCHANGED <<pads, input, offered, renditions, pad, ready>> PROVE AllInOrder'
  BY <1>1, <1>2, NothingMoves
<1>3. ASSUME UNCHANGED <<pads, input, offered, pad, ready>>, renditions' = Released
      PROVE  AllInOrder'
  BY <1>1, <1>3, LooksMoveNothing, NothingMoves
<1>4. ASSUME NEW t \in Tracks, Take(t) \/ Deliver(t) \/ Pass(t) PROVE AllInOrder'
  <2>1. PICK to : /\ renditions' = [renditions EXCEPT ![t].pace.flight = to]
                  /\ UNCHANGED <<pads, input, offered, pad, ready>>
    BY <1>4 DEF Take, Deliver, Pass, InFlight
  <2>2. \A u \in Tracks : /\ renditions'[u].groups = renditions[u].groups
                          /\ renditions'[u].muxer = renditions[u].muxer
                          /\ renditions'[u].pace.cut = renditions[u].pace.cut
    BY <1>1, <2>1 DEF TrackTypes, RenditionType, PaceType
  <2> QED BY <1>1, <2>1, <2>2, NothingMoves
<1>5. ASSUME NEW last \in BOOLEAN, Call(last) PROVE AllInOrder'
  BY <1>1, <1>5, CallInOrder
<1>6. CASE Ask \/ Drop \/ Redial \/ Deadline \/ UNCHANGED vars
  BY <1>2, <1>6 DEF Ask, Drop, Redial, Deadline, vars
<1>7. CASE Open \/ Mend \/ Hold \/ Choose \/ Refresh \/ Yield \/ Fail \/ Gate \/ Settle
  BY <1>2, <1>7 DEF Open, Mend, Hold, Choose, Refresh, Yield, Fail, Gate, Settle
<1>8. CASE Return \/ Drain \/ Close  BY <1>2, <1>8 DEF Return, Drain, Close
<1>9. CASE CatchUp \/ Flush \/ EmptyQueues
  BY <1>3, <1>9 DEF CatchUp, Flush, EmptyQueues, Release
<1>10. CASE Told \/ NextPad \/ MediaDone
  <2>1. /\ ready = << >> /\ ready' = << >>
        /\ UNCHANGED <<pads, input, offered, renditions>>
    <3>1. pad = Len(pads) + 1 => pad \notin Tracks
      <4>1. Len(pads) \in Nat  BY <1>1, LenProperties DEF Routes
      <4> QED BY <4>1 DEF Tracks
    <3> QED BY <1>1, <1>10, <3>1 DEF Told, ToldFirst, NextPad, MediaDone, ReadyIsMedia
  <2> QED BY <1>1, <2>1, NothingMoves
<1>11. CASE Tell  BY <1>1, <1>11, TellInOrder
<1>12. CASE Push  BY <1>1, <1>12, PushInOrder
<1>13. CASE Fragment  BY <1>1, <1>13, FragmentInOrder
<1>14. CASE Finish  BY <1>1, <1>14, FinishInOrder
<1> QED
  BY <1>4, <1>5, <1>6, <1>7, <1>8, <1>9, <1>10, <1>11, <1>12, <1>13, <1>14 DEF Next, Code

\* And takes up what there is to take, one pad after the other.
LEMMA NextTaken == ASSUME IInv, TailInv, [Next]_vars PROVE Taken'
<1>1. Taken /\ ReadyIsMedia /\ Routes /\ TrackTypes
  <2>1. TypeOK  BY DEF IInv
  <2>2. TrackTypes  BY <2>1, Types
  <2> QED BY <2>2 DEF IInv, TailInv
<1> USE DEF Goto, Await, Stay, opened, relay, clock, counter, work, rest
<1> DEFINE Early == at \in {"mend", "hold", "choose", "refresh", "catch", "messages", "failed"}
           Telling == Early \/ (at = "yield" /\ then = "messages")
           Media == at = "media" \/ (at \in {"yield", "flush"} /\ then = "media")
<1>2. pads' = pads /\ Tracks' = Tracks
  BY DEF Next, Code, vars, Tracks, Open, Mend, Hold, Choose, Refresh, CatchUp, Tell, Told, Yield,
         Flush, Push, Fragment, NextPad, MediaDone, Fail, Gate, Settle, EmptyQueues, Return,
         Finish, Drain, Close, Call, Ask, Drop, Redial, Take, Deliver, Pass, InFlight, Deadline
<1>3. ASSUME Telling' PROVE Taken'  BY <1>3 DEF Taken
<1>4. ASSUME \A t \in Tracks : input'[t] = << >> PROVE Taken'  BY <1>2, <1>4 DEF Taken
<1>5. ASSUME ~Telling, ~Media PROVE \A t \in Tracks : input[t] = << >>
  BY <1>1, <1>5 DEF Taken
<1>6. ASSUME input' = input, ~Telling, ~Media PROVE Taken'  BY <1>4, <1>5, <1>6
<1>7. ASSUME UNCHANGED <<input, pad, at, then>> PROVE Taken'
  BY <1>1, <1>2, <1>7 DEF Taken
<1>8. ASSUME NEW t \in Tracks, Take(t) \/ Deliver(t) \/ Pass(t) PROVE Taken'
  BY <1>7, <1>8 DEF Take, Deliver, Pass, InFlight
<1>9. ASSUME NEW last \in BOOLEAN, Call(last) PROVE Taken'
  <2>1. CASE at' = "mend"  BY <1>3, <2>1
  <2>2. CASE at' # "mend"
    <3>1. \A t \in Tracks : input'[t] = << >>  BY <1>9, <2>2 DEF Call
    <3> QED BY <1>4, <3>1
  <2> QED BY <2>1, <2>2
<1>10. CASE Ask \/ Drop \/ Redial \/ Deadline \/ UNCHANGED vars
  BY <1>7, <1>10 DEF Ask, Drop, Redial, Deadline, vars
<1>11. CASE Open \/ Gate \/ Settle \/ Return \/ Finish \/ Drain \/ Close
  BY <1>6, <1>11 DEF Open, Gate, Settle, Return, Finish, Drain, Close
<1>12. CASE Mend \/ Hold \/ Choose \/ Refresh \/ CatchUp \/ Tell \/ Fail
  BY <1>3, <1>12 DEF Mend, Hold, Choose, Refresh, CatchUp, Tell, Fail
<1>13. CASE EmptyQueues  BY <1>6, <1>13 DEF EmptyQueues
<1>14. CASE Told
  <2>1. /\ at = "messages" /\ \A t \in Tracks : pads[t] = "data" => input[t] = << >>
        /\ input' = input /\ pad' = 1 /\ Media'
    BY <1>14 DEF Told, ToldFirst
  <2>2. \A t \in Tracks : t >= 1  BY DEF Tracks
  <2> QED BY <1>2, <2>1, <2>2 DEF Taken
<1>15. CASE Yield
  <2>1. UNCHANGED <<input, pad>> /\ at = "yield" /\ at' = then /\ then \in {"messages", "media"}
    BY <1>1, <1>15 DEF Yield, Routes
  <2> QED BY <1>1, <1>2, <1>3, <2>1 DEF Taken
<1>16. CASE Flush
  <2>1. UNCHANGED <<input, pad>> /\ at = "flush"
        /\ (UNCHANGED <<at, then>> \/ at' = then)
    BY <1>16 DEF Flush
  <2>2. CASE UNCHANGED <<at, then>>  BY <1>7, <2>1, <2>2
  <2>3. CASE at' = then  BY <1>1, <1>2, <2>1, <2>3 DEF Taken
  <2> QED BY <2>1, <2>2, <2>3
<1>17. CASE Push
  <2>1. /\ at = "media" /\ pad \in Tracks /\ pads[pad] # "data"
        /\ input' = [input EXCEPT ![pad] = Tail(@)] /\ UNCHANGED <<at, then, pad>>
    BY <1>17 DEF Push
  <2>2. \A t \in Tracks : t # pad => input'[t] = input[t]  BY <2>1 DEF TrackTypes
  <2>3. pad >= pad  BY <2>1 DEF Tracks
  <2> QED BY <1>1, <1>2, <2>1, <2>2, <2>3 DEF Taken
<1>18. CASE Fragment
  <2>1. UNCHANGED <<input, pad>> /\ at = "media" /\ Media'  BY <1>18 DEF Fragment
  <2> QED BY <1>1, <1>2, <2>1 DEF Taken
<1>19. CASE NextPad
  <2>1. /\ at = "media" /\ pad \in Tracks /\ Media' /\ pad' = pad + 1 /\ input' = input
        /\ pads[pad] = "data" \/ input[pad] = << >>
    BY <1>19 DEF NextPad
  <2>2. ASSUME NEW t \in Tracks, input[t] # << >> PROVE pads[t] # "data" /\ t >= pad + 1
    <3>1. pads[t] # "data" /\ t >= pad  BY <1>1, <2>1, <2>2 DEF Taken
    <3>2. t # pad  BY <2>1, <2>2, <3>1
    <3>3. t \in Nat /\ pad \in Nat  BY <2>1 DEF Tracks
    <3> QED BY <3>1, <3>2, <3>3
  <2> QED BY <1>2, <2>1, <2>2 DEF Taken
<1>20. CASE MediaDone
  <2>1. at = "media" /\ pad = Len(pads) + 1 /\ input' = input  BY <1>20 DEF MediaDone
  <2>2. Len(pads) \in Nat  BY <1>1, LenProperties DEF Routes
  <2>3. \A t \in Tracks : ~(t >= pad)  BY <2>1, <2>2 DEF Tracks
  <2>4. \A t \in Tracks : input[t] = << >>  BY <1>1, <2>1, <2>3 DEF Taken
  <2> QED BY <1>4, <2>1, <2>4
<1> QED
  BY <1>8, <1>9, <1>10, <1>11, <1>12, <1>13, <1>14, <1>15, <1>16, <1>17, <1>18, <1>19, <1>20
  DEF Next, Code

\* The tails go out before the tracks are told it is over.
LEMMA NextTails == ASSUME IInv, TailInv, [Next]_vars PROVE TailsFirst'
<1> USE DEF Goto, Await, Stay, opened, relay, clock, counter, work, rest
<1>1. TailsFirst /\ Routes /\ TrackTypes /\ TypeOK /\ AllInOrder
  BY Types DEF IInv, TailInv
<1>2. ASSUME UNCHANGED <<pads, renditions, at, then, finished>> PROVE TailsFirst'
  <2>1. (Held' <=> Held) /\ Tracks' = Tracks
    BY <1>2, HeldNext DEF Held, HeldThen, Tracks
  <2> QED BY <1>1, <1>2, <2>1 DEF TailsFirst, AtTheEnd
<1>3. ASSUME ~AtTheEnd', finished' = finished, at \notin {"linger", "over"} PROVE TailsFirst'
  BY <1>1, <1>3 DEF TailsFirst
<1>4. ASSUME NEW t \in Tracks, Take(t) \/ Deliver(t) \/ Pass(t) PROVE TailsFirst'
  <2>1. PICK to : /\ renditions' = [renditions EXCEPT ![t].pace.flight = to]
                  /\ UNCHANGED <<pads, at, then, finished>>
    BY <1>4 DEF Take, Deliver, Pass, InFlight
  <2>2. \A u \in Tracks : /\ renditions'[u].muxer = renditions[u].muxer
                          /\ renditions'[u].pace.cut = renditions[u].pace.cut
                          /\ renditions'[u].pace.out = renditions[u].pace.out
                          /\ renditions'[u].pace.open = renditions[u].pace.open
    BY <1>1, <2>1 DEF TrackTypes, RenditionType, PaceType
  <2>3. Tracks' = Tracks  BY <2>1 DEF Tracks
  <2>4. Held' <=> Held
    <3>1. HeldThen <=> Held  BY <2>2 DEF Held, HeldThen, Queued
    <3> QED BY <2>1, <3>1, HeldNext
  <2> QED BY <1>1, <2>1, <2>2, <2>3, <2>4 DEF TailsFirst, AtTheEnd
<1>5. ASSUME NEW last \in BOOLEAN, Call(last) PROVE TailsFirst'
  <2>1. at = "idle" /\ at' \in {"mend", "return"} /\ UNCHANGED <<pads, finished>>
    BY <1>5 DEF Call
  <2> QED BY <1>3, <2>1 DEF AtTheEnd
<1>6. CASE Ask \/ Drop \/ Redial \/ Deadline \/ UNCHANGED vars
  BY <1>2, <1>6 DEF Ask, Drop, Redial, Deadline, vars
<1>7. CASE Open \/ Mend \/ Hold \/ Choose \/ Refresh \/ CatchUp \/ Tell
  BY <1>3, <1>7 DEF AtTheEnd, Open, Mend, Hold, Choose, Refresh, CatchUp, Tell
<1>8. CASE Told \/ Push \/ Fragment \/ NextPad \/ MediaDone \/ Fail
  BY <1>3, <1>8 DEF AtTheEnd, Told, ToldFirst, Push, Fragment, NextPad, MediaDone, Fail
<1>9. CASE Yield
  <2>1. at = "yield" /\ at' \in {"messages", "media"} /\ finished' = finished
    BY <1>1, <1>9 DEF Yield, Routes
  <2> QED BY <1>3, <2>1 DEF AtTheEnd
<1>10. CASE Gate \/ Settle \/ Return
  BY <1>3, <1>10 DEF AtTheEnd, Gate, Settle, Return
<1>11. ASSUME UNCHANGED <<pads, finished>>, renditions' = Released, AtTheEnd
       PROVE  /\ \A t \in Tracks : /\ renditions'[t].muxer = << >>
                                   /\ ~renditions'[t].pace.open
              /\ ~Held => ~Held'
              /\ Tracks' = Tracks
  <2>1. \A t \in Tracks : renditions[t].muxer = << >> /\ ~renditions[t].pace.open
    BY <1>1, <1>11 DEF TailsFirst
  <2>2. \A t \in Tracks : /\ renditions'[t].muxer = renditions[t].muxer
                          /\ renditions'[t].pace.open = renditions[t].pace.open
    BY <1>1, <1>11, LooksMoveNothing
  <2>3. ~Held => ~Held'  BY <1>1, <1>11, ReleaseType, HeldNext
  <2> QED BY <1>11, <2>1, <2>2, <2>3 DEF Tracks
<1>12. CASE Flush
  <2>1. /\ at = "flush" /\ renditions' = Released /\ UNCHANGED <<pads, finished>>
        /\ (UNCHANGED <<at, then>> \/ (at' = then /\ then' = "idle"))
    BY <1>12 DEF Flush, Release
  <2>2. CASE then = "drain"
    <3>1. AtTheEnd /\ ~Held  BY <1>1, <2>1, <2>2 DEF AtTheEnd, TailsFirst
    <3> QED BY <1>1, <1>11, <2>1, <3>1 DEF TailsFirst
  <2>3. CASE then # "drain"
    <3>1. ~AtTheEnd'  BY <1>1, <2>1, <2>3 DEF AtTheEnd, Routes
    <3> QED BY <1>3, <2>1, <3>1
  <2> QED BY <2>2, <2>3
<1>13. CASE EmptyQueues
  <2>1. /\ at = "empty" /\ renditions' = Released /\ UNCHANGED <<pads, finished, then>>
        /\ at' = (IF HeldThen THEN "empty" ELSE "flush")
    BY <1>13 DEF EmptyQueues, Release
  <2>2. CASE then = "drain"
    <3>1. AtTheEnd  BY <2>1, <2>2 DEF AtTheEnd
    <3>2. at' # "empty" => ~Held'  BY <2>1, HeldNext
    <3> QED BY <1>1, <1>11, <2>1, <3>1, <3>2 DEF TailsFirst
  <2>3. CASE then # "drain"
    <3>1. ~AtTheEnd'  BY <2>1, <2>3 DEF AtTheEnd
    <3> QED BY <1>3, <2>1, <3>1
  <2> QED BY <2>2, <2>3
<1>14. CASE Finish
  <2>1. /\ at = "finish" /\ renditions' = [t \in Tracks |-> Completed(t)]
        /\ UNCHANGED <<pads, finished>>
        /\ at' = (IF HeldThen THEN "empty" ELSE "drain")
    BY <1>14 DEF Finish, FinishInTurn
  <2>2. Tracks' = Tracks  BY <2>1 DEF Tracks
  <2>3. \A t \in Tracks : renditions'[t].muxer = << >> /\ ~renditions'[t].pace.open
    BY <1>1, <1>14, <2>1, CompletedInOrder
  <2>4. at' # "empty" => ~Held'  BY <2>1, HeldNext
  <2>5. ~finished'  BY <1>1, <2>1 DEF TailsFirst
  <2> QED BY <2>2, <2>3, <2>4, <2>5 DEF TailsFirst
<1>15. CASE Drain \/ Close
  <2>1. /\ at \in {"drain", "linger"} /\ at' \in {"linger", "over"}
        /\ UNCHANGED <<pads, renditions>>
    BY <1>15 DEF Drain, Close
  <2>2. (Held' <=> Held) /\ Tracks' = Tracks
    BY <2>1, HeldNext DEF Held, HeldThen, Tracks
  <2> QED BY <1>1, <2>1, <2>2 DEF TailsFirst, AtTheEnd
<1> QED
  BY <1>4, <1>5, <1>6, <1>7, <1>8, <1>9, <1>10, <1>12, <1>13, <1>14, <1>15 DEF Next, Code

LEMMA InitTailInv == Init => TailInv
<1> SUFFICES ASSUME Init PROVE TailInv  OBVIOUS
<1>1. AllInOrder
  <2> SUFFICES ASSUME NEW t \in Tracks
               PROVE  InOrder(pads[t], renditions[t], Handed(t), input[t], offered[t])
    BY DEF AllInOrder
  <2>1. /\ renditions[t].groups = << >> /\ renditions[t].muxer = << >>
        /\ renditions[t].pace.cut = 0
        /\ Handed(t) = << >> /\ input[t] = << >> /\ offered[t] = 0
    BY DEF Init, Handed, Idle
  <2>2. Ordered(<< >>) /\ Disciplined(pads[t], << >>)  BY DEF Ordered, Disciplined
  <2>3. Len(<< >>) = 0 /\ Written(<< >>) = 0 /\ 0 <= 1 /\ 0 + 0 + 0 + 0 = 0
    BY DEF Written, Upto
  <2>4. Flowing(<< >>, << >>, << >>, << >>, 0)
    BY <2>3, CountsNothing DEF Flowing
  <2> QED BY <2>1, <2>2, <2>3, <2>4 DEF InOrder
<1>2. Taken  BY DEF Init, Taken
<1>3. TailsFirst  BY DEF Init, TailsFirst, AtTheEnd
<1> QED BY <1>1, <1>2, <1>3 DEF TailInv

LEMMA TailInvariant == Spec => [](IInv /\ TailInv)
<1>1. IInv /\ TailInv /\ [Next]_vars => IInv' /\ TailInv'
  BY NextIInv, NextInOrder, NextTaken, NextTails DEF TailInv
<1> QED BY <1>1, InitIInv, InitTailInv, PTL DEF Spec

\* What goes on from a sequence of packets is one with it.
LEMMA CountedOn ==
  ASSUME NEW s \in Seq(Packet), NEW u \in Seq(Packet), Counted(s, 0), Counted(u, Len(s))
  PROVE  /\ s \o u \in Seq(Packet) /\ Len(s \o u) = Len(s) + Len(u)
         /\ Counted(s \o u, 0)
<1> DEFINE k == Len(s)
           m == Len(u)
           c == s \o u
<1>1. k \in Nat /\ m \in Nat /\ DOMAIN s = 1 .. k /\ DOMAIN u = 1 .. m  BY LenProperties
<1>2. /\ c \in Seq(Packet) /\ Len(c) = k + m
      /\ \A i \in 1 .. k + m : c[i] = IF i <= k THEN s[i] ELSE u[i - k]
  BY ConcatProperties
<1>3. DOMAIN c = 1 .. k + m  BY <1>2, LenProperties
<1>4. /\ \A i \in 1 .. k : s[i].pts = 0 + i
      /\ \A i \in 1 .. m : u[i].pts = k + i
  BY <1>1 DEF Counted
<1> HIDE DEF k, m, c
<1>5. ASSUME NEW i \in 1 .. k + m PROVE c[i].pts = 0 + i
  <2>1. CASE i <= k  BY <1>1, <1>2, <1>4, <2>1
  <2>2. CASE ~(i <= k)
    <3>1. i - k \in 1 .. m /\ k + (i - k) = 0 + i  BY <1>1, <2>2
    <3>2. c[i].pts = u[i - k].pts  BY <1>2, <2>2
    <3>3. u[i - k].pts = k + (i - k)  BY <1>4, <3>1
    <3> QED BY <3>1, <3>2, <3>3
  <2> QED BY <2>1, <2>2
<1>6. Counted(c, 0)  BY <1>3, <1>5 DEF Counted
<1> QED BY <1>2, <1>6 DEF k, m, c

\* Where the packets of a track are: in its groups, with the call, in the muxer, or
\* yet to be taken.
OnTheWay(t) ==
  ((FlattenSeq(renditions[t].groups) \o Handed(t)) \o renditions[t].muxer) \o input[t]

\* In that order they are the packets the track was ever given, each of them once.
PacketsInOrder ==
  \A t \in Tracks :
    /\ Len(OnTheWay(t)) = offered[t]
    /\ \A i \in DOMAIN OnTheWay(t) : OnTheWay(t)[i].pts = i

\* At every moment of a run no packet of a track has been left out, none is in twice,
\* and none has overtaken another between the call, the muxer and the groups
\* (Session::drive, Rendition::publish_fragment).
THEOREM PubPacketsInOrder == Spec => []PacketsInOrder
<1>1. ASSUME IInv, TailInv, NEW t \in Tracks
      PROVE  /\ Len(OnTheWay(t)) = offered[t]
             /\ \A i \in DOMAIN OnTheWay(t) : OnTheWay(t)[i].pts = i
  <2> DEFINE gs == renditions[t].groups
             f == FlattenSeq(gs)
             h == Handed(t)
             x == renditions[t].muxer
             y == input[t]
             w == Written(gs)
             n == offered[t]
  <2>1. TrackTypes /\ AllInOrder  BY <1>1, Types DEF IInv, TailInv
  <2>2. gs \in Seq(Seq(Packet)) /\ x \in Seq(Packet) /\ y \in Seq(Packet) /\ h \in Seq(Packet)
    <3>1. << >> \in Seq(Packet)  OBVIOUS
    <3>2. h \in Seq(Packet) /\ y \in Seq(Packet)  BY <2>1, <3>1 DEF TrackTypes, Handed
    <3>3. RenditionOK(renditions[t])  BY <2>1, TrackOK
    <3> QED BY <3>2, <3>3 DEF RenditionOK, RenditionType
  <2>3. Ordered(gs) /\ Flowing(gs, h, x, y, n)  BY <2>1 DEF AllInOrder, InOrder
  <2>4. OnTheWay(t) = ((f \o h) \o x) \o y  BY DEF OnTheWay
  <2>5. f \in Seq(Packet) /\ Len(f) = w /\ Counted(f, 0)
    BY <2>2, <2>3, FlattenedInOrder
  <2> HIDE DEF gs, f, h, x, y, n
  <2>6. /\ Counted(h, w) /\ Counted(x, w + Len(h)) /\ Counted(y, w + Len(h) + Len(x))
        /\ n = w + Len(h) + Len(x) + Len(y)
    BY <2>3 DEF Flowing
  <2> HIDE DEF w
  <2> DEFINE a == f \o h
             b == a \o x
             c == b \o y
  <2>7. a \in Seq(Packet) /\ Len(a) = w + Len(h) /\ Counted(a, 0)
    BY <2>2, <2>5, <2>6, CountedOn
  <2>8. OnTheWay(t) = c  BY <2>4
  <2> HIDE DEF a
  <2>9. b \in Seq(Packet) /\ Len(b) = w + Len(h) + Len(x) /\ Counted(b, 0)
    <3>1. Counted(x, Len(a))  BY <2>6, <2>7
    <3>2. b \in Seq(Packet) /\ Len(b) = Len(a) + Len(x) /\ Counted(b, 0)
      BY <2>2, <2>7, <3>1, CountedOn
    <3> QED BY <2>7, <3>2
  <2> HIDE DEF b
  <2>10. c \in Seq(Packet) /\ Len(c) = w + Len(h) + Len(x) + Len(y) /\ Counted(c, 0)
    <3>1. Counted(y, Len(b))  BY <2>6, <2>9
    <3>2. c \in Seq(Packet) /\ Len(c) = Len(b) + Len(y) /\ Counted(c, 0)
      BY <2>2, <2>9, <3>1, CountedOn
    <3> QED BY <2>9, <3>2
  <2> HIDE DEF c
  <2>11. ASSUME NEW i \in DOMAIN OnTheWay(t) PROVE OnTheWay(t)[i].pts = i
    <3>1. OnTheWay(t)[i].pts = 0 + i  BY <2>10, <2>8, <2>11 DEF Counted
    <3>2. DOMAIN OnTheWay(t) = 1 .. Len(OnTheWay(t)) /\ Len(OnTheWay(t)) \in Nat
      BY <2>10, <2>8, LenProperties
    <3>3. i \in Nat  BY <3>2
    <3> QED BY <3>1, <3>3
  <2>12. Len(OnTheWay(t)) = n  BY <2>6, <2>10, <2>8
  <2> QED BY <2>11, <2>12 DEF n
<1>2. IInv /\ TailInv => PacketsInOrder  BY <1>1 DEF PacketsInOrder
<1> QED BY <1>2, TailInvariant, PTL

\* A picture's key frame is only ever the first of its group, and every group but
\* the track's very first begins with one; a message has a group of its own; a group
\* of sound is as long as it was asked to be and no longer (Groups::append).
THEOREM PubDiscipline == Spec => []Discipline
<1>1. TailInv => Discipline
  BY DEF TailInv, AllInOrder, InOrder, Disciplined, Discipline
<1> QED BY <1>1, TailInvariant, PTL

\* Tracks are told it is over with every packet they were ever given in a group, in
\* order, and every group finished and on the wire (finish, and the drain before it).
THEOREM PubTailIsOut == Spec => []TailIsOut
<1>1. ASSUME IInv, TailInv, finished, NEW t \in Tracks
      PROVE  LET r == renditions[t]
             IN  /\ r.muxer = << >> /\ Queued(r.pace) = 0 /\ ~r.pace.open
                 /\ Len(r.groups) = r.pace.cut
                 /\ [i \in 1 .. offered[t] |-> i] =
                      [i \in DOMAIN FlattenSeq(r.groups) |-> FlattenSeq(r.groups)[i].pts]
  <2> DEFINE r == renditions[t]
             gs == r.groups
  <2>1. AllInOrder /\ Taken /\ TailsFirst /\ ReadyIsMedia /\ TrackTypes
    BY <1>1, Types DEF IInv, TailInv
  <2>2. at \in {"linger", "over"} /\ AtTheEnd  BY <1>1, <2>1 DEF TailsFirst, AtTheEnd
  <2>3. r.muxer = << >> /\ ~r.pace.open /\ ~Held  BY <2>1, <2>2 DEF TailsFirst
  <2>4. Queued(r.pace) = 0
    <3>1. Queued(r.pace) \in Nat  BY <2>1 DEF TrackTypes
    <3>2. ~(Queued(r.pace) > 0)  BY <2>3 DEF Held
    <3> QED BY <3>1, <3>2
  <2>5. input[t] = << >> /\ Handed(t) = << >>
    BY <2>1, <2>2 DEF Taken, ReadyIsMedia, Handed
  <2>6. InOrder(pads[t], r, << >>, << >>, offered[t])  BY <2>1, <2>5 DEF AllInOrder
  <2>7. RenditionOK(r) /\ gs \in Seq(Seq(Packet))
    BY <2>1, TrackOK DEF RenditionOK, RenditionType
  <2> HIDE DEF r
  <2>8. /\ Ordered(gs) /\ Len(gs) = r.pace.cut
        /\ Flowing(gs, << >>, << >>, << >>, offered[t])
    BY <2>3, <2>6 DEF InOrder
  <2> DEFINE s == FlattenSeq(gs)
             w == Written(gs)
  <2>9. s \in Seq(Packet) /\ Len(s) = w /\ Counted(s, 0)  BY <2>7, <2>8, FlattenedInOrder
  <2>10. w \in Nat /\ offered[t] = w
    <3>1. w \in Nat /\ Len(<< >>) = 0  BY <2>7, <2>8, WrittenIs
    <3>2. offered[t] = w + Len(<< >>) + Len(<< >>) + Len(<< >>)  BY <2>8 DEF Flowing
    <3> HIDE DEF w
    <3> QED BY <3>1, <3>2
  <2> HIDE DEF s, w
  <2>11. DOMAIN s = 1 .. w  BY <2>9
  <2>12. \A i \in 1 .. w : s[i].pts = i
    <3> TAKE i \in 1 .. w
    <3>1. s[i].pts = 0 + i /\ i \in Nat  BY <2>9, <2>10, <2>11 DEF Counted
    <3> QED BY <3>1
  <2>13. [i \in 1 .. offered[t] |-> i] = [i \in DOMAIN s |-> s[i].pts]
    BY <2>10, <2>11, <2>12
  <2> QED BY <2>3, <2>4, <2>8, <2>13 DEF r, s
<1>2. IInv /\ TailInv => TailIsOut  BY <1>1 DEF TailIsOut
<1> QED BY <1>2, TailInvariant, PTL
=============================================================================
