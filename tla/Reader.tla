-------------------------------- MODULE Reader --------------------------------
(***************************************************************************)
(* The subscriber: subscribe/src/module.rs, from `open_broadcast` and      *)
(* `read_catalog` to the node's `shape`, `init` and `process`, with        *)
(* `Reader`, whose pull reads all tracks of a run off one session, and     *)
(* opens another when that ends.                                           *)
(*                                                                         *)
(* Everything shares one thread: the tasks, the session and the relay run  *)
(* where the code awaits, and between two awaits the reader is alone.  As  *)
(* in `Track`, a task's step includes the filing of the word it sends,     *)
(* since the channel is drained before anything else is looked at; and a   *)
(* session that is given up has its tasks say no more, since theirs is a   *)
(* channel that is never read again.                                       *)
(*                                                                         *)
(* `Track` has one track in full; here there are several, and of the hold  *)
(* of each only how much is held behind its cursor, in stretches of groups *)
(* with no hole between them, and what has become of the hole before them, *)
(* are kept.  So are the reports and the doubling of the waits left out.   *)
(***************************************************************************)
EXTENDS CatalogNames, Functions

CONSTANTS
  Broadcasts,   \* what may be on the relay: [pads, catalog], no pads if not ours
  MaxTracks,    \* bound: the tracks a query latches onto
  ProbeDials,   \* PROBE_DIALS
  CatalogTries, \* CATALOG_TRIES
  TrackRetries, \* TRACK_RETRIES
  Window,       \* whether reconnect_s is other than 0
  MaxHeld,      \* bound: the stretches a track holds; of each it has one fetch at a time
  MaxFaults     \* bound: streams that break and sessions that drop

ASSUME ReaderAssumption ==
  /\ MaxTracks \in Nat /\ ProbeDials \in Nat \ {0} /\ CatalogTries \in Nat \ {0}
  /\ TrackRetries \in Nat /\ Window \in BOOLEAN
  /\ MaxHeld \in Nat \ {0} /\ MaxFaults \in Nat

\* A catalog is a document: it has so many renditions, and their names have parts.
ASSUME CatalogAssumption ==
  \A b \in Broadcasts :
    IsFiniteSet(b.catalog) /\ \A r \in b.catalog : r.name \in Seq(STRING)

\* A pad as a sink is handed it.
PadType ==
  [row : Nat, kind : {"video", "audio", "data"}, height : Nat, name : {None} \cup Seq(STRING)]

\* What this package publishes is listed as it was named.
ASSUME PublishedAssumption ==
  \A b \in Broadcasts :
    b.pads # << >> => b.pads \in Seq(PadType) /\ b.catalog = CatalogOf(b.pads)

VARIABLES
  broadcast,  \* what the shape has read of the relay, while it relates it
  at,         \* where the node is
  goal,       \* what a session is being opened for, if one is
  tries,      \* sessions dialed, or reads of the catalog, for that
  spent,      \* the window to reconnect in is over
  count,      \* how many tracks the run pulls
  pad,        \* the track whose subscription is registered or awaited
  holds,      \* by track, of its hold: [held, hole]
  finished,   \* the readers that have said they are done
  lost,       \* a track has said that it needs another session
  asking,     \* the tracks whose holds have asked for a fetch, not yet made
  produced,   \* this pull has packets
  link,       \* the session, "up" or "ended"
  tasks,      \* by track, its reading task
  attempts,   \* by track, the times its task has subscribed again
  fetches,    \* the tracks with a fetch under way
  ended,      \* the publisher: the tracks it has finished
  joined,     \* history: where a subscription of the session that is opened began,
              \* "edge" if that is the publisher's newest group still, else "behind"
  faults      \* the bound's count

opening == <<goal, tries, spent>>
run     == <<count, holds, finished, lost, asking>>
wire    == <<link, tasks, attempts, fetches, ended, joined, faults>>
vars    == <<broadcast, at, opening, pad, run, produced, wire>>

Nothing == [pads |-> << >>, catalog |-> {}]
Tracks == 1 .. count
Ends   == {"over", "stopped", "failed"}

\* Mutant: each subscription is awaited before the next is registered.
AwaitsOneByOne ==
  {"dial", "announce", "catalog", "closing", "register", "opening", "again", "yield", "wait"}

\* Where the executor runs the session and the tasks.
Awaits == {"dial", "announce", "catalog", "closing", "opening", "again", "yield", "wait"}
Phases == Awaits \cup Ends \cup {"asked", "bound", "read", "register", "opened", "idle", "drain", "full"}

NewHold == [held |-> 0, hole |-> "none"]

Init ==
  /\ broadcast = Nothing
  /\ at = "asked" /\ goal = "none" /\ tries = 0 /\ spent = FALSE
  /\ count = 0 /\ pad = 1 /\ holds = << >>
  /\ finished = 0 /\ lost = FALSE /\ asking = {} /\ produced = FALSE
  /\ link = "up" /\ tasks = << >> /\ attempts = << >> /\ fetches = {}
  /\ ended = {} /\ joined = << >> /\ faults = 0

-----------------------------------------------------------------------------
(* Opening a broadcast: dial, announcement, catalog.                       *)

\* The host asks for a session's worth of what is on the relay, or the
\* parameters are refused.
OpenFor(purpose) == at' = "dial" /\ goal' = purpose /\ tries' = 0

Shape ==
  /\ at = "asked"
  /\ OpenFor("shape") \/ (at' = "failed" /\ UNCHANGED <<goal, tries>>)
  /\ UNCHANGED <<broadcast, spent, pad, run, produced, wire>>

Start ==
  /\ at = "bound"
  /\ OpenFor("init")
  /\ UNCHANGED <<broadcast, spent, pad, run, produced, wire>>

\* Mutant: the window is never looked at.
AgainForEver == at' = IF goal = "resume" THEN "again" ELSE "failed"

\* A broadcast that could not be opened is tried again within the window, if it
\* is one that was being read.
NotOpened == at' = IF goal = "resume" /\ ~spent THEN "again" ELSE "failed"

Dial ==
  /\ at = "dial"
  /\ tries' = tries + 1
  /\ at' = "announce" \/ NotOpened
  /\ UNCHANGED <<broadcast, goal, spent, pad, run, produced, wire>>

\* The broadcast is announced, or is not in time: a probe asks on another session.
Announced ==
  /\ at = "announce"
  /\ \/ at' = "catalog" /\ tries' = 0
     \/ at' = "dial" /\ goal = "shape" /\ tries < ProbeDials /\ UNCHANGED tries
     \/ NotOpened /\ UNCHANGED tries
  /\ UNCHANGED <<broadcast, goal, spent, pad, run, produced, wire>>

\* The newest document, or its group was dropped and another is asked for; or
\* there is none, none in time, or none that can be read.
ReadCatalog ==
  /\ at = "catalog"
  /\ \/ at' = "read" /\ tries' = 0
     \/ tries' = tries + 1 /\ tries' < CatalogTries /\ at' = at
     \/ NotOpened /\ tries' = 0
  /\ UNCHANGED <<broadcast, goal, spent, pad, run, produced, wire>>

\* The shape's tracks, with their ports and rows (CatalogNames); its session is
\* closed.
Relate ==
  /\ at = "read" /\ goal = "shape"
  /\ at' = "closing" \/ at' = "failed"
  /\ broadcast' \in Broadcasts
  /\ UNCHANGED <<opening, pad, run, produced, wire>>

Related ==
  /\ at = "closing"
  /\ at' = "bound"
  /\ broadcast' = Nothing
  /\ UNCHANGED <<opening, pad, run, produced, wire>>

\* The run's tracks are those the query latched onto.
Latch ==
  /\ at = "read" /\ goal = "init"
  /\ \/ /\ at' = "register"
        /\ count' \in 0 .. MaxTracks
     \/ at' = "failed" /\ count' = 0
  /\ pad' = 1
  /\ holds' = [t \in 1 .. count' |-> NewHold]
  /\ tasks' = [t \in 1 .. count' |-> "none"]
  /\ attempts' = [t \in 1 .. count' |-> 0]
  /\ joined' = [t \in 1 .. count' |-> "none"]
  /\ UNCHANGED <<broadcast, opening, finished, lost, asking, produced, link, fetches,
                 ended, faults>>

\* The tracks that are read have to be there again, unchanged.
Same ==
  /\ at = "read" /\ goal = "resume"
  /\ at' = "register" \/ at' = "failed"
  /\ pad' = 1
  /\ joined' = [t \in Tracks |-> "none"]
  /\ UNCHANGED <<broadcast, opening, run, produced, link, tasks, attempts, fetches,
                 ended, faults>>

\* Every track is registered, at what is the publisher's newest group then.
Register ==
  /\ at = "register"
  /\ \/ /\ pad \in Tracks
        /\ joined' = [joined EXCEPT ![pad] = "edge"]
        /\ pad' = pad + 1 /\ at' = at
     \/ /\ pad \notin Tracks
        /\ pad' = 1 /\ at' = IF count = 0 THEN "opened" ELSE "opening"
        /\ UNCHANGED joined
     \/ NotOpened /\ UNCHANGED <<pad, joined>>
  /\ UNCHANGED <<broadcast, opening, run, produced, link, tasks, attempts, fetches,
                 ended, faults>>

\* The relay answers the next subscription, as nothing makes it: the await has no
\* timeout.  A first one is read at once, one of a new session when all are.
Subscribed ==
  /\ at = "opening"
  /\ \/ /\ pad' = pad + 1
        /\ at' = IF pad = count THEN "opened" ELSE "opening"
        /\ tasks' = IF goal = "init" THEN [tasks EXCEPT ![pad] = "reading"] ELSE tasks
     \/ NotOpened /\ UNCHANGED <<pad, tasks>>
  /\ UNCHANGED <<broadcast, opening, run, produced, link, attempts, fetches, ended,
                 joined, faults>>

Initialised ==
  /\ at = "opened" /\ goal = "init"
  /\ at' = "idle" /\ goal' = "none"
  /\ joined' = [t \in Tracks |-> "none"]
  /\ UNCHANGED <<broadcast, tries, spent, pad, run, produced, link, tasks, attempts, fetches,
                 ended, faults>>

\* Mutants: readers of the old session still count; a hole still waits for what
\* the old session was asked for.
StillCounted == UNCHANGED finished
StillAsked(hold) == hold

CountedAfresh == finished' = 0
TakenUpAgain(hold) == [hold EXCEPT !.hole = "none"]

\* Every track is taken up on the new session, with a channel of its own.  The first
\* word of one may say that its publisher started again, which fails the run.
Resumed ==
  /\ at = "opened" /\ goal = "resume"
  /\ at' \in {"drain", "failed"} /\ goal' = "none"
  /\ holds' = [t \in Tracks |-> TakenUpAgain(holds[t])]
  /\ CountedAfresh
  /\ asking' = {}
  /\ tasks' = [t \in Tracks |-> "reading"]
  /\ link' = "up"
  /\ joined' = [t \in Tracks |-> "none"]
  /\ UNCHANGED <<broadcast, tries, spent, pad, count, lost, produced, attempts, fetches, ended,
                 faults>>

Again ==
  /\ at = "again"
  /\ OpenFor(goal)
  /\ UNCHANGED <<broadcast, spent, pad, run, produced, wire>>

-----------------------------------------------------------------------------
(* A pull.                                                                 *)

\* The host calls, or says that it was its last call.
Pull ==
  /\ at = "idle"
  /\ at' = "yield" \/ at' = "stopped"
  /\ produced' = FALSE
  /\ UNCHANGED <<broadcast, opening, pad, run, wire>>

\* What the wire brought is in the holds; the budget of one may have been met on
\* the way.
Filed == at' = "drain" \/ (at' = "full" /\ \E t \in Tracks : holds[t].held > 0)

\* What it brought while the host had the call.
Yield ==
  /\ at = "yield"
  /\ Filed
  /\ UNCHANGED <<broadcast, opening, pad, run, produced, wire>>

\* A word has come, or a tick has passed without.
Wait ==
  /\ at = "wait"
  /\ Filed
  /\ UNCHANGED <<broadcast, opening, pad, run, produced, wire>>

\* What a hold may be once it has been taken from: what is held waits, which it
\* does not once the hole before it has been answered, or some of it goes out, and
\* the next hole is asked about.  The last time everything goes out.
Taken(t, last) ==
  LET hold == holds[t]
      waits == {h \in {hold} : hold.hole # "answered"}
      out   == [held : 0 .. hold.held - 1, hole : {"none"}]
      asks  == {[h EXCEPT !.hole = "asked"] :
                  h \in {k \in waits \cup out :
                           k.held > 0 /\ k.hole = "none" /\ t \notin asking \cup fetches}}
  IN  IF last THEN {NewHold} ELSE waits \cup out \cup asks

\* What has gone out of a hold, if anything, may be packets.
GoesOut(t) == holds'[t].held < holds[t].held

\* The fetches the holds ask for.
Asked == {t \in Tracks : holds'[t].hole = "asked" /\ holds[t].hole # "asked"}

\* Each hold is taken from until it hands on no more.
Release(last) ==
  /\ holds' \in {new \in [Tracks -> UNION {Taken(t, last) : t \in Tracks}] :
                   \A t \in Tracks : new[t] \in Taken(t, last)}
  /\ \/ UNCHANGED produced
     \/ produced' = TRUE /\ \E t \in Tracks : GoesOut(t)

Burst ==
  /\ at = "full"
  /\ Release(FALSE)
  /\ asking' = asking \cup Asked
  /\ at' = "drain"
  /\ UNCHANGED <<broadcast, opening, pad, count, finished, lost, wire>>

\* A frame that cannot be taken apart.
Spoilt ==
  /\ at = "full" \/ (at = "drain" /\ link = "up" /\ ~lost)
  /\ \E t \in Tracks : holds[t].held > 0
  /\ at' = "failed"
  /\ UNCHANGED <<broadcast, opening, pad, run, produced, wire>>

\* The session ended, or a track on it was lost: a new one before anything else.
Reconnect ==
  /\ at = "drain"
  /\ link = "ended" \/ lost
  /\ lost' = FALSE
  /\ tasks' = [t \in Tracks |-> "none"] /\ attempts' = [t \in Tracks |-> 0]
  /\ fetches' = {}
  /\ spent' = FALSE
  /\ IF Window THEN OpenFor("resume") ELSE at' = "failed" /\ UNCHANGED <<goal, tries>>
  /\ UNCHANGED <<broadcast, pad, count, holds, finished, asking, produced, link, ended, joined,
                 faults>>

\* Every track has finished and no hole waits for an answer.
Over == finished >= count /\ \A t \in Tracks : holds[t].hole # "asked"

\* The holds are released and their fetches made; and the pull ends with packets,
\* or with the run, or waits for the wire.
Settle ==
  /\ at = "drain" /\ link = "up" /\ ~lost
  /\ UNCHANGED <<count, finished>>
  /\ Release(Over)
  /\ asking' = {} /\ fetches' = fetches \cup asking \cup Asked
  /\ at' = IF produced' THEN "idle" ELSE IF Over' THEN "over" ELSE "wait"
  /\ UNCHANGED <<broadcast, opening, pad, lost, link, tasks, attempts, ended, joined,
                 faults>>

Code ==
  \/ Dial \/ Announced \/ ReadCatalog \/ Relate \/ Related
  \/ Latch \/ Same \/ Register \/ Initialised \/ Resumed \/ Again
  \/ Yield \/ Wait \/ Burst \/ Spoilt \/ Reconnect \/ Settle

Host == Shape \/ Start \/ Pull

-----------------------------------------------------------------------------
(* The tasks, the session and the publisher, where the code awaits.        *)

\* The tasks of the session that is read.
Listening == at \in {"yield", "wait"} \/ (at = "opening" /\ goal = "init")

Goes(t, from, to) == tasks[t] = from /\ tasks' = [tasks EXCEPT ![t] = to]

\* A fault of the relay; a session that ended needs none.
Fault  == link = "up" => faults < MaxFaults
Faulty == faults' = IF link = "up" THEN faults + 1 ELSE faults

\* What a hold may be once a frame of the subscription has arrived: it may be
\* repeated or too late, or of the group the hole waits for.
Arrived(hold) ==
  [held : {hold.held, Min({hold.held + 1, MaxHeld})},
   hole : {hold.hole} \cup (IF hold.hole = "asked" THEN {"none"} ELSE {})]

Frame(t) ==
  /\ Listening
  /\ tasks[t] = "reading"
  /\ \E hold \in Arrived(holds[t]) : holds' = [holds EXCEPT ![t] = hold]
  /\ UNCHANGED <<broadcast, at, opening, pad, count, finished, lost, asking, produced, wire>>

\* The publisher finished the track, and all of it has been read.
Finish(t) ==
  /\ Listening
  /\ t \in ended /\ Goes(t, "reading", "finished")
  /\ finished' = finished + 1
  /\ UNCHANGED <<broadcast, at, opening, pad, count, holds, lost, asking, produced, link,
                 attempts, fetches, ended, joined, faults>>

\* Mutant: a track that is lost is only written down.
LostUnheeded == UNCHANGED lost

LostNoted == lost' = TRUE

\* A track that is not to be had on this session; its reader is done.
Loses(t, from) == Goes(t, from, "lost") /\ LostNoted /\ finished' = finished + 1

\* The subscription breaks.
Break(t) ==
  /\ Listening
  /\ Fault /\ Faulty
  /\ attempts' = [attempts EXCEPT ![t] = @ + 1]
  /\ IF attempts[t] < TrackRetries THEN Goes(t, "reading", "broken") /\ UNCHANGED <<finished, lost>>
     ELSE Loses(t, "reading")
  /\ UNCHANGED <<broadcast, at, opening, pad, count, holds, asking, produced, link, fetches, ended,
                 joined>>

\* It is asked for again, at the live edge, and is answered, with no timeout here
\* either; or it cannot be asked for.
Resubscribe(t) ==
  /\ Listening
  /\ \/ link = "up" /\ Goes(t, "broken", "reading") /\ UNCHANGED <<finished, lost, faults>>
     \/ Fault /\ Faulty /\ Loses(t, "broken")
  /\ UNCHANGED <<broadcast, at, opening, pad, count, holds, asking, produced, link, attempts,
                 fetches, ended, joined>>

\* The hole that was asked about is filled, or known to stay one.
Answered(hold) == [hold EXCEPT !.hole = IF @ = "asked" THEN "answered" ELSE @]

\* A fetch is answered with the group, or refused, or has taken too long.
Answer(t) ==
  /\ Listening
  /\ t \in fetches /\ fetches' = fetches \ {t}
  /\ holds' = [holds EXCEPT ![t] = Answered(@)]
  /\ UNCHANGED <<broadcast, at, opening, pad, count, finished, lost, asking, produced, link,
                 tasks, attempts, ended, joined, faults>>

\* The session ends.
Drop ==
  /\ Listening /\ link = "up"
  /\ Fault /\ Faulty
  /\ link' = "ended"
  /\ UNCHANGED <<broadcast, at, opening, pad, run, produced, tasks, attempts, fetches,
                 ended, joined>>

\* The window to reconnect in ends.
Spend ==
  /\ at \in Awaits /\ goal = "resume" /\ ~spent
  /\ spent' = TRUE
  /\ UNCHANGED <<broadcast, at, goal, tries, pad, run, produced, wire>>

\* The publisher opens a group of each track, or finishes one.
Publish ==
  /\ at \in Awaits
  /\ \/ /\ \E t \in Tracks : joined[t] = "edge"
        /\ joined' = [t \in Tracks |-> IF joined[t] = "edge" THEN "behind" ELSE joined[t]]
        /\ UNCHANGED ended
     \/ /\ \E t \in Tracks \ ended : ended' = ended \cup {t}
        /\ UNCHANGED joined
  /\ UNCHANGED <<broadcast, at, opening, pad, run, produced, link, tasks, attempts,
                 fetches, faults>>

Next ==
  \/ Code \/ Host \/ Subscribed
  \/ \E t \in Tracks :
       Frame(t) \/ Finish(t) \/ Break(t) \/ Resubscribe(t) \/ Answer(t)
  \/ Drop \/ Spend \/ Publish

Spec == Init /\ [][Next]_vars

\* The executor runs the call, and the host goes on calling.  While it awaits, the
\* clock runs, and a fetch is answered, a timeout being a refusal.  Nothing is asked
\* of the publisher, nor of the relay: a subscription it leaves unanswered, or a
\* track whose end it does not pass on, is waited for as long as that lasts.  (A
\* dial, the announcement and a read of the catalog each have a timeout.)
FairSpec ==
  /\ Spec
  /\ WF_vars(Code) /\ WF_vars(Host)
  /\ SF_vars(Spend)
  /\ SF_vars(\E t \in Tracks : Answer(t))

-----------------------------------------------------------------------------
(* What the subscriber promises.                                           *)

\* Every variable keeps to its type; the readers that are done are never more
\* than there are tracks.
TypeOK ==
  /\ at \in Phases /\ goal \in {"none", "shape", "init", "resume"}
  /\ tries \in Nat /\ spent \in BOOLEAN
  /\ count \in Nat /\ pad \in 1 .. count + 1
  /\ holds \in [Tracks -> [held : 0 .. MaxHeld, hole : {"none", "asked", "answered"}]]
  /\ finished \in 0 .. count /\ lost \in BOOLEAN /\ produced \in BOOLEAN
  /\ asking \subseteq Tracks
  /\ fetches \subseteq Tracks
  /\ link \in {"up", "ended"}
  /\ tasks \in [Tracks -> {"none", "reading", "broken", "finished", "lost"}]
  /\ attempts \in [Tracks -> 0 .. TrackRetries + 1]
  /\ ended \subseteq Tracks /\ joined \in [Tracks -> {"none", "edge", "behind"}]
  /\ faults \in Nat

\* A run is over once the publisher has finished every one of its tracks, and each
\* was read to its end on the session that is in: no track that was lost is taken
\* for one that ended.
EndsComplete ==
  at = "over" => \A t \in Tracks : t \in ended /\ tasks[t] = "finished"

\* The tracks of a session begin together, at the same group of the publisher.
JoinTogether == at \in {"opening", "opened"} => \A t, u \in Tracks : joined[t] = joined[u]

\* A hole that waits for a fetch has one that is yet to be made, or under way on
\* the session that is in.  (A run with a hole that waits for nothing is never over.)
AskAnswered ==
  at \in {"idle", "yield", "drain", "full", "wait"} =>
    \A t \in Tracks : holds[t].hole = "asked" => t \in asking \cup fetches

\* What the relay owes a track: an answer to its task's subscription, or word that
\* the publisher has finished it.
Owed(t) == t \in Tracks /\ (tasks[t] = "broken" \/ (tasks[t] = "reading" /\ t \in ended))

\* The relay holds none of this back for good, nor the answers to the subscriptions
\* that a session opens with.
RelayAnswers == []<>(at # "opening") /\ \A t \in 1 .. MaxTracks : []<>~Owed(t)

\* Once the publisher has finished every track the run ends, whatever breaks and
\* however often a new session cannot be had; only a relay that leaves what it owes
\* unanswered for good keeps the run in.
RunEnds == RelayAnswers => ((count > 0 /\ ended = Tracks) ~> at \in Ends)

\* The names of a publication are its own: each row it names, and each data track,
\* has another, none of them one that is given here; a row has one picture and one
\* sound at most, and is named if it has both.
Named(pads) ==
  LET written == {p \in DOMAIN pads : pads[p].name # None}
      media   == {p \in DOMAIN pads : pads[p].kind # "data"}
      Owner(p) == IF p \in media THEN <<"row", pads[p].row>> ELSE <<"pad", p>>
  IN  /\ \A p, q \in written : pads[p].name = pads[q].name <=> Owner(p) = Owner(q)
      /\ \A p \in written :
           /\ ~IsSuffix(AudioSuffix, pads[p].name)
           /\ \A kind \in DOMAIN Base : ~IsPrefix(Base[kind], pads[p].name)
      /\ \A p, q \in media : p # q /\ pads[p].row = pads[q].row =>
           pads[p].kind # pads[q].kind /\ {p, q} \subseteq written

\* A broadcast this package published reads back as the relation it was published
\* from: each pad has a track of its own, two tracks are on one row if their pads
\* were, and a row goes by its name.  A feed of one picture and one sound in the
\* legacy container is one row.
RowsReadBack ==
  LET pads == broadcast.pads
  IN  \A reading \in Readings(broadcast.catalog) :
        LET tracks == Rows(reading)
            Track(p) == CHOOSE t \in DOMAIN tracks :
                          tracks[t].kind = pads[p].kind /\ tracks[t].name = TrackName(pads, p)
            Media == {p \in DOMAIN pads : pads[p].kind # "data"}
        IN  IF pads # << >>
            THEN Named(pads) =>
                   /\ Cardinality({TrackName(pads, p) : p \in DOMAIN pads}) = Len(pads)
                   /\ \A p, q \in Media :
                        tracks[Track(p)].row = tracks[Track(q)].row <=> pads[p].row = pads[q].row
                   /\ \A p \in Media : pads[p].name # None =>
                        RowName(tracks, Relation(tracks)[Index(tracks, Track(p))]) = pads[p].name
            ELSE /\ Len(tracks) = 2 /\ tracks[1].kind = "video" /\ tracks[2].kind = "audio"
                 /\ tracks[1].packaging = "legacy" /\ tracks[2].packaging = "legacy"
                 => tracks[1].row = tracks[2].row

\* No two tracks leave on one port, unless a name was written as if numbered.
PortsDistinct ==
  (\A r \in broadcast.catalog : "-" \notin ToSet(r.name)) =>
    \A reading \in Readings(broadcast.catalog) : IsInjective(Ports(reading))
=============================================================================
