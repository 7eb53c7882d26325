---------------------------- MODULE ReaderProofs -----------------------------
(***************************************************************************)
(* The safety of the subscriber, for every value of the constants.         *)
(*                                                                         *)
(* `EndsComplete` is not inductive: that a run may be over is read off a   *)
(* count of the readers that are done, so the invariant says what the      *)
(* count counts, from the first subscription of a run or of a session on,  *)
(* and that no track is lost without the flag that asks for another        *)
(* session.  The rest says where the node is, and for what.                *)
(*                                                                         *)
(* `PortsDistinct` is a fact about the ports of any sequence of tracks.    *)
(*                                                                         *)
(* `RowsReadBack` is one about any broadcast: the names this package gives *)
(* are apart and only a sound's ends as a sound's does, so of the fold     *)
(* that reads the rows it is invariant that two media share a row only as  *)
(* a sound and the picture it is named after.                              *)
(***************************************************************************)
EXTENDS Reader, FiniteSetTheorems, SequenceTheorems, WellFoundedInduction, TLAPS

\* No run has been latched yet.
Before ==
  \/ at \in {"asked", "bound"} \/ goal = "shape"
  \/ goal = "init" /\ at \in {"dial", "announce", "catalog", "read"}

\* The run is between two words of the wire, or in a call.
Pulling == at \in {"idle", "yield", "drain", "full", "wait"}

\* The first session of the run is being subscribed on.
Beginning == goal = "init" /\ at \in {"register", "opening", "opened"}

\* The node is where its goal lets it be.
Whereabouts ==
  /\ Before => count = 0
  /\ at = "again" => goal = "resume"
  /\ at = "closing" => goal = "shape"
  /\ at \in {"register", "opening", "opened"} => goal \in {"init", "resume"}
  /\ at = "opening" => pad \in Tracks

\* The tasks of a session that is given up are gone, and one that subscribes again
\* has not done so too often.
TasksOfSession ==
  /\ goal = "resume" => \A t \in Tracks : tasks[t] = "none"
  /\ Beginning /\ at # "opened" =>
       \A t \in Tracks : t >= pad \/ at = "register" => tasks[t] = "none"
  /\ \A t \in Tracks :
       /\ tasks[t] # "lost" => attempts[t] <= TrackRetries
       /\ tasks[t] = "finished" => t \in ended

Done == {t \in Tracks : tasks[t] \in {"finished", "lost"}}

\* The count is that of the readers that are done, and a lost track is heeded.
Counted ==
  Pulling \/ Beginning =>
    /\ finished = Cardinality(Done)
    /\ lost \/ \A t \in Tracks : tasks[t] # "lost"

\* The subscriptions of a session, while they are made.
Registered ==
  at = "register" => \A t \in Tracks : joined[t] = IF t < pad THEN "edge" ELSE "none"

\* No hole waits for an answer before the first pull.
NothingAsked == Beginning => \A t \in Tracks : holds[t].hole # "asked"

\* The conjuncts that are inductive together.
IInv ==
  /\ TypeOK
  /\ Whereabouts
  /\ TasksOfSession
  /\ Counted
  /\ Registered
  /\ NothingAsked
  /\ EndsComplete
  /\ JoinTogether
  /\ AskAnswered
-----------------------------------------------------------------------------
(* Steps that leave the run alone.                                         *)

\* What the invariant says of a run, its place apart.
held == <<count, pad, holds, finished, lost, asking, tasks, attempts, fetches, ended, joined>>

\* A step that only goes on to another place, and to none where more is asked of
\* the run, keeps the invariant.
LEMMA OnlyMoves ==
  ASSUME IInv, UNCHANGED held,
         at' \in Phases, goal' \in {"none", "shape", "init", "resume"},
         tries' \in Nat, spent' \in BOOLEAN, produced' \in BOOLEAN,
         link' \in {"up", "ended"}, faults' \in Nat,
         Before' => Before, Pulling' => Pulling,
         at' = "again" => goal' = "resume", at' = "closing" => goal' = "shape",
         goal' = "resume" => goal = "resume" \/ \A t \in Tracks : tasks[t] = "none",
         at' \in {"register", "opening", "opened"} => at' = at /\ goal' = goal,
         at' # "over"
  PROVE  IInv'
<1> USE DEF held, IInv
<1>1. Tracks' = Tracks /\ Done' = Done  BY DEF Tracks, Done
<1>2. TypeOK'  BY <1>1 DEF TypeOK
<1>3. Whereabouts'  BY <1>1 DEF Whereabouts
<1>4. TasksOfSession'  BY <1>1 DEF TasksOfSession, Beginning
<1>5. Counted'  BY <1>1 DEF Counted, Beginning
<1>6. Registered' /\ JoinTogether'  BY <1>1 DEF Registered, JoinTogether
<1>7. NothingAsked'  BY <1>1 DEF NothingAsked, Beginning
<1>8. EndsComplete'  BY DEF EndsComplete
<1>9. AskAnswered'  BY <1>1 DEF AskAnswered, Pulling
<1> QED BY <1>2, <1>3, <1>4, <1>5, <1>6, <1>7, <1>8, <1>9

\* Most of the opening of a session, the host's calls, and what passes the run by.
LEMMA Elsewhere ==
  ASSUME IInv,
         \/ Shape \/ Start \/ Dial \/ Announced \/ ReadCatalog \/ Relate \/ Related
         \/ Again \/ Pull \/ Yield \/ Wait \/ Spoilt \/ Drop \/ Spend \/ UNCHANGED vars
  PROVE  IInv'
<1> USE DEF IInv, TypeOK, Phases, Awaits, Ends, opening, run, wire, held, Before, Pulling
<1>1. CASE Shape  BY <1>1, OnlyMoves DEF Shape, OpenFor
<1>2. CASE Start  BY <1>2, OnlyMoves DEF Start, OpenFor
<1>3. CASE Dial  BY <1>3, OnlyMoves DEF Dial, NotOpened
<1>4. CASE Announced  BY <1>4, OnlyMoves DEF Announced, NotOpened
<1>5. CASE ReadCatalog  BY <1>5, OnlyMoves DEF ReadCatalog, NotOpened
<1>6. CASE Relate  BY <1>6, OnlyMoves DEF Relate
<1>7. CASE Related  BY <1>7, OnlyMoves DEF Related, Whereabouts
<1>8. CASE Again  BY <1>8, OnlyMoves DEF Again, OpenFor, Whereabouts
<1>9. CASE Pull  BY <1>9, OnlyMoves DEF Pull
<1>10. CASE Yield  BY <1>10, OnlyMoves DEF Yield, Filed
<1>11. CASE Wait  BY <1>11, OnlyMoves DEF Wait, Filed
<1>12. CASE Spoilt  BY <1>12, OnlyMoves DEF Spoilt
<1>13. CASE Drop  BY <1>13, OnlyMoves DEF Drop, Fault, Faulty, Whereabouts, Listening
<1>14. CASE Spend  BY <1>14, OnlyMoves DEF Spend, Whereabouts
<1>15. CASE UNCHANGED vars
  <2>1. Tracks' = Tracks /\ Done' = Done  BY <1>15 DEF vars, Tracks, Done
  <2> QED
    BY <1>15, <2>1 DEF vars, Whereabouts, TasksOfSession, Counted, Beginning, Registered,
       NothingAsked, EndsComplete, JoinTogether, AskAnswered
<1> QED
  BY <1>1, <1>2, <1>3, <1>4, <1>5, <1>6, <1>7, <1>8, <1>9, <1>10, <1>11, <1>12, <1>13,
     <1>14, <1>15

-----------------------------------------------------------------------------
(* The subscriptions of a session.                                         *)

\* Nobody is done while no task has ended.
LEMMA NobodyDone ==
  ASSUME NEW S, \A t \in S : FALSE
  PROVE  Cardinality(S) = 0
<1>1. S = {}  OBVIOUS
<1> QED BY <1>1, FS_EmptySet

\* The first track is one, if there are any.
LEMMA FirstTrack ==
  ASSUME NEW n \in Nat
  PROVE  1 \in 1 .. n + 1 /\ (n # 0 => 1 \in 1 .. n)
OBVIOUS

\* A run is latched onto with nothing held and nobody done.
LEMMA LatchKeeps == ASSUME IInv, Latch PROVE IInv'
<1> USE DEF IInv
<1>1. /\ at = "read" /\ goal = "init" /\ pad' = 1
      /\ holds' = [t \in 1 .. count' |-> NewHold]
      /\ tasks' = [t \in 1 .. count' |-> "none"]
      /\ attempts' = [t \in 1 .. count' |-> 0]
      /\ joined' = [t \in 1 .. count' |-> "none"]
      /\ UNCHANGED <<goal, tries, spent, finished, lost, asking, produced, link, fetches,
                     ended, faults>>
      /\ at' \in {"register", "failed"}
  BY DEF Latch, opening
<1>2. count' \in Nat  BY ReaderAssumption DEF Latch
<1>3. count = 0  BY <1>1 DEF Whereabouts, Before
<1>4. finished = 0 /\ asking = {} /\ fetches = {} /\ ended = {}
  BY <1>3 DEF TypeOK, Tracks
<1>5. Tracks' = 1 .. count'  BY DEF Tracks
<1>6. \A t \in Tracks' : /\ tasks'[t] = "none" /\ joined'[t] = "none" /\ attempts'[t] = 0
                         /\ holds'[t] = NewHold
  BY <1>1, <1>5
<1>7. Cardinality(Done') = 0
  <2>1. \A t \in Done' : FALSE  BY <1>6 DEF Done
  <2> QED BY <2>1, NobodyDone
<1>8. TypeOK'
  <2>1. TrackRetries \in Nat /\ MaxHeld \in Nat  BY ReaderAssumption
  <2>2. holds' \in [1 .. count' -> [held : 0 .. MaxHeld, hole : {"none", "asked", "answered"}]]
    BY <1>1, <2>1 DEF NewHold
  <2>3. pad' = 1  BY <1>1
  <2>4. pad' \in 1 .. count' + 1  BY <1>2, <2>3, FirstTrack, Zenon
  <2>5. /\ tasks' \in [1 .. count' -> {"none", "reading", "broken", "finished", "lost"}]
        /\ attempts' \in [1 .. count' -> 0 .. TrackRetries + 1]
        /\ joined' \in [1 .. count' -> {"none", "edge", "behind"}]
    BY <1>1, <2>1
  <2>6. finished' \in 0 .. count'
    <3>1. 0 \in 0 .. count'  BY <1>2
    <3>2. finished' = 0  BY <1>1, <1>4
    <3> QED BY <3>1, <3>2
  <2>7. /\ at' \in Phases /\ goal' \in {"none", "shape", "init", "resume"}
        /\ tries' \in Nat /\ spent' \in BOOLEAN /\ lost' \in BOOLEAN /\ produced' \in BOOLEAN
        /\ link' \in {"up", "ended"} /\ faults' \in Nat
    BY <1>1 DEF TypeOK, Phases, Ends
  <2>8. asking' = {} /\ fetches' = {} /\ ended' = {}  BY <1>1, <1>4
  <2> QED BY <1>2, <1>5, <2>2, <2>4, <2>5, <2>6, <2>7, <2>8, Zenon DEF TypeOK
<1>9. Whereabouts'  BY <1>1 DEF Whereabouts, Before
<1>10. TasksOfSession'  BY <1>1, <1>6, ReaderAssumption DEF TasksOfSession
<1>11. Counted'  BY <1>1, <1>4, <1>6, <1>7 DEF Counted
<1>12. Registered' /\ JoinTogether'
  BY <1>1, <1>5, <1>6 DEF Registered, JoinTogether
<1>13. NothingAsked'  BY <1>6 DEF NothingAsked, NewHold
<1>14. EndsComplete' /\ AskAnswered'  BY <1>1 DEF EndsComplete, AskAnswered
<1> QED BY <1>8, <1>9, <1>10, <1>11, <1>12, <1>13, <1>14

\* A run that is resumed registers its tracks from the first.
LEMMA SameKeeps == ASSUME IInv, Same PROVE IInv'
<1> USE DEF IInv
<1>1. /\ at = "read" /\ goal = "resume" /\ pad' = 1
      /\ joined' = [t \in Tracks |-> "none"]
      /\ UNCHANGED <<broadcast, goal, tries, spent, count, holds, finished, lost, asking,
                     produced, link, tasks, attempts, fetches, ended, faults>>
      /\ at' \in {"register", "failed"}
  BY DEF Same, opening, run
<1>2. Tracks' = Tracks /\ Done' = Done  BY <1>1 DEF Tracks, Done
<1>3. TypeOK'
  <2>1. pad' \in 1 .. count' + 1  BY <1>1 DEF TypeOK
  <2> QED BY <1>1, <1>2, <2>1 DEF TypeOK, Phases, Ends
<1>4. Whereabouts'  BY <1>1 DEF Whereabouts, Before
<1>5. TasksOfSession'  BY <1>1, <1>2 DEF TasksOfSession, Beginning
<1>6. Registered' /\ JoinTogether'  BY <1>1, <1>2 DEF Registered, JoinTogether, Tracks, TypeOK
<1>7. Counted' /\ NothingAsked' /\ EndsComplete' /\ AskAnswered'
  BY <1>1, <1>2 DEF Counted, NothingAsked, Pulling, Beginning, EndsComplete, AskAnswered
<1> QED BY <1>3, <1>4, <1>5, <1>6, <1>7

\* The tracks are registered one after the other, and nothing comes between.
LEMMA RegisterKeeps == ASSUME IInv, Register PROVE IInv'
<1> USE DEF IInv
<1>1. /\ at = "register" /\ goal \in {"init", "resume"}
      /\ UNCHANGED <<broadcast, goal, tries, spent, count, holds, finished, lost, asking,
                     produced, link, tasks, attempts, fetches, ended, faults>>
  BY DEF Register, Whereabouts, opening, run
<1>2. Tracks' = Tracks /\ Done' = Done  BY <1>1 DEF Tracks, Done
<1>3. count \in Nat /\ pad \in 1 .. count + 1  BY DEF TypeOK
<1>4. CASE /\ pad \in Tracks /\ joined' = [joined EXCEPT ![pad] = "edge"]
           /\ pad' = pad + 1 /\ at' = at
  <2>1. TypeOK'
    <3>1. pad' \in 1 .. count' + 1  BY <1>1, <1>3, <1>4 DEF Tracks
    <3>2. joined' \in [Tracks -> {"none", "edge", "behind"}]  BY <1>4 DEF TypeOK
    <3> QED BY <1>1, <1>2, <1>4, <3>1, <3>2 DEF TypeOK
  <2>2. Whereabouts'  BY <1>1, <1>2, <1>4 DEF Whereabouts, Before
  <2>3. TasksOfSession'  BY <1>1, <1>2, <1>4 DEF TasksOfSession, Beginning
  <2>4. Registered'
    <3> SUFFICES ASSUME NEW t \in Tracks
                 PROVE  joined'[t] = IF t < pad' THEN "edge" ELSE "none"
      BY <1>2 DEF Registered
    <3>1. joined[t] = IF t < pad THEN "edge" ELSE "none"  BY <1>1 DEF Registered
    <3>2. joined'[t] = IF t = pad THEN "edge" ELSE joined[t]  BY <1>4 DEF TypeOK
    <3>3. t < pad' <=> t < pad \/ t = pad  BY <1>3, <1>4 DEF Tracks
    <3> QED BY <3>1, <3>2, <3>3
  <2>5. Counted' /\ NothingAsked'
    BY <1>1, <1>2, <1>4 DEF Counted, NothingAsked, Pulling, Beginning
  <2>6. EndsComplete' /\ JoinTogether' /\ AskAnswered'
    BY <1>1, <1>4 DEF EndsComplete, JoinTogether, AskAnswered
  <2> QED BY <2>1, <2>2, <2>3, <2>4, <2>5, <2>6
<1>5. CASE /\ pad \notin Tracks /\ pad' = 1
           /\ at' = (IF count = 0 THEN "opened" ELSE "opening") /\ UNCHANGED joined
  <2>1. TypeOK'
    <3>1. pad' \in 1 .. count' + 1  BY <1>1, <1>3, <1>5
    <3> QED BY <1>1, <1>2, <1>5, <3>1 DEF TypeOK, Phases, Awaits
  <2>2. Whereabouts'
    <3>1. at' = "opening" => count # 0 /\ pad' = 1  BY <1>5
    <3>2. at' = "opening" => pad' \in Tracks'
      BY <1>2, <1>3, <3>1, FirstTrack, Zenon DEF Tracks
    <3> QED BY <1>1, <1>5, <3>2 DEF Whereabouts, Before
  <2>3. TasksOfSession'  BY <1>1, <1>2, <1>5 DEF TasksOfSession, Beginning
  <2>4. JoinTogether'
    <3>1. \A t \in Tracks : t < pad  BY <1>3, <1>5 DEF Tracks
    <3>2. \A t \in Tracks : joined[t] = "edge"  BY <1>1, <3>1 DEF Registered
    <3> QED BY <1>2, <1>5, <3>2 DEF JoinTogether
  <2>5. Counted' /\ NothingAsked'
    BY <1>1, <1>2, <1>5 DEF Counted, NothingAsked, Pulling, Beginning
  <2>6. Registered' /\ EndsComplete' /\ AskAnswered'
    BY <1>1, <1>5 DEF Registered, EndsComplete, AskAnswered
  <2> QED BY <2>1, <2>2, <2>3, <2>4, <2>5, <2>6
<1>6. CASE NotOpened /\ UNCHANGED <<pad, joined>>
  BY <1>1, <1>6, OnlyMoves
  DEF NotOpened, held, TypeOK, Phases, Awaits, Ends, Before, Pulling
<1> QED BY <1>4, <1>5, <1>6 DEF Register

\* A subscription that is answered is read at once in a first session, and not in
\* one that resumes.
LEMMA SubscribedKeeps == ASSUME IInv, Subscribed PROVE IInv'
<1> USE DEF IInv
<1>1. /\ at = "opening" /\ goal \in {"init", "resume"} /\ pad \in Tracks
      /\ UNCHANGED <<broadcast, goal, tries, spent, count, holds, finished, lost, asking,
                     produced, link, attempts, fetches, ended, joined, faults>>
  BY DEF Subscribed, Whereabouts, opening, run
<1>2. Tracks' = Tracks  BY <1>1 DEF Tracks
<1>3. count \in Nat /\ pad \in 1 .. count  BY <1>1 DEF TypeOK, Tracks
<1>4. CASE /\ pad' = pad + 1 /\ at' = (IF pad = count THEN "opened" ELSE "opening")
           /\ tasks' = IF goal = "init" THEN [tasks EXCEPT ![pad] = "reading"] ELSE tasks
  <2>1. \A t \in Tracks :
          tasks'[t] = IF goal = "init" /\ t = pad THEN "reading" ELSE tasks[t]
    BY <1>4 DEF TypeOK
  <2>2. goal = "init" => tasks[pad] = "none"
    BY <1>1, <1>3 DEF TasksOfSession, Beginning
  <2>3. Done' = Done  BY <1>2, <2>1, <2>2 DEF Done
  <2>4. TypeOK'
    <3>1. pad' \in 1 .. count' + 1  BY <1>1, <1>3, <1>4
    <3>2. tasks' \in [Tracks -> {"none", "reading", "broken", "finished", "lost"}]
      BY <1>4 DEF TypeOK
    <3> QED BY <1>1, <1>2, <1>4, <3>1, <3>2 DEF TypeOK, Phases, Awaits
  <2>5. Whereabouts'
    <3>1. at' = "opening" => pad' \in Tracks  BY <1>3, <1>4 DEF Tracks
    <3> QED BY <1>1, <1>2, <1>4, <3>1 DEF Whereabouts, Before
  <2>6. TasksOfSession'
    <3>1. goal = "resume" => \A t \in Tracks : tasks'[t] = "none"
      BY <2>1 DEF TasksOfSession
    <3>2. goal = "init" => \A t \in Tracks : t >= pad' => tasks'[t] = "none"
      BY <1>1, <1>3, <1>4, <2>1 DEF TasksOfSession, Beginning, Tracks
    <3>3. \A t \in Tracks : /\ tasks'[t] # "lost" => attempts[t] <= TrackRetries
                            /\ tasks'[t] = "finished" => t \in ended
      BY <2>1, <2>2 DEF TasksOfSession
    <3> QED BY <1>1, <1>2, <1>4, <3>1, <3>2, <3>3 DEF TasksOfSession, Beginning
  <2>7. Counted'
    <3>1. (\A t \in Tracks : tasks[t] # "lost") => \A t \in Tracks : tasks'[t] # "lost"
      BY <2>1
    <3> QED BY <1>1, <1>2, <1>4, <2>3, <3>1 DEF Counted, Pulling, Beginning
  <2>8. NothingAsked'  BY <1>1, <1>2, <1>4 DEF NothingAsked, Beginning
  <2>9. Registered' /\ EndsComplete' /\ JoinTogether' /\ AskAnswered'
    BY <1>1, <1>2, <1>4 DEF Registered, EndsComplete, JoinTogether, AskAnswered
  <2> QED BY <2>4, <2>5, <2>6, <2>7, <2>8, <2>9
<1>5. CASE NotOpened /\ UNCHANGED <<pad, tasks>>
  BY <1>1, <1>5, OnlyMoves
  DEF NotOpened, held, TypeOK, Phases, Awaits, Ends, Before, Pulling
<1> QED BY <1>4, <1>5 DEF Subscribed

\* The first session is in.
LEMMA InitialisedKeeps == ASSUME IInv, Initialised PROVE IInv'
<1> USE DEF IInv
<1>1. /\ at = "opened" /\ goal = "init" /\ at' = "idle" /\ goal' = "none"
      /\ joined' = [t \in Tracks |-> "none"]
      /\ UNCHANGED <<broadcast, tries, spent, pad, count, holds, finished, lost, asking,
                     produced, link, tasks, attempts, fetches, ended, faults>>
  BY DEF Initialised, run
<1>2. Tracks' = Tracks /\ Done' = Done  BY <1>1 DEF Tracks, Done
<1>3. TypeOK'  BY <1>1, <1>2 DEF TypeOK, Phases, Awaits
<1>4. Whereabouts'  BY <1>1 DEF Whereabouts, Before
<1>5. TasksOfSession'  BY <1>1, <1>2 DEF TasksOfSession, Beginning
<1>6. Counted'  BY <1>1, <1>2 DEF Counted, Beginning
<1>7. AskAnswered'  BY <1>1, <1>2 DEF NothingAsked, Beginning, AskAnswered
<1>8. Registered' /\ NothingAsked' /\ EndsComplete' /\ JoinTogether'
  BY <1>1 DEF Registered, NothingAsked, Beginning, EndsComplete, JoinTogether
<1> QED BY <1>3, <1>4, <1>5, <1>6, <1>7, <1>8

\* A new session takes the old one's place, with nobody done and nothing asked.
LEMMA ResumedKeeps == ASSUME IInv, Resumed PROVE IInv'
<1> USE DEF IInv
<1>1. /\ at = "opened" /\ goal = "resume" /\ at' \in {"drain", "failed"} /\ goal' = "none"
      /\ holds' = [t \in Tracks |-> TakenUpAgain(holds[t])]
      /\ finished' = 0 /\ asking' = {}
      /\ tasks' = [t \in Tracks |-> "reading"]
      /\ link' = "up"
      /\ joined' = [t \in Tracks |-> "none"]
      /\ UNCHANGED <<broadcast, tries, spent, pad, count, lost, produced, attempts, fetches,
                     ended, faults>>
  BY DEF Resumed, CountedAfresh
<1>2. Tracks' = Tracks  BY <1>1 DEF Tracks
<1>3. \A t \in Tracks : /\ holds'[t] = [holds[t] EXCEPT !.hole = "none"]
                        /\ holds'[t] \in [held : 0 .. MaxHeld, hole : {"none", "asked", "answered"}]
                        /\ holds'[t].hole = "none"
  BY <1>1 DEF TypeOK, TakenUpAgain
<1>4. TypeOK'
  <2>1. holds' \in [Tracks -> [held : 0 .. MaxHeld, hole : {"none", "asked", "answered"}]]
    BY <1>1, <1>3
  <2>2. finished' \in 0 .. count'  BY <1>1 DEF TypeOK
  <2> QED BY <1>1, <1>2, <2>1, <2>2 DEF TypeOK, Phases, Awaits, Ends
<1>5. Whereabouts'  BY <1>1 DEF Whereabouts, Before
<1>6. TasksOfSession'
  <2>1. \A t \in Tracks : attempts[t] <= TrackRetries /\ tasks'[t] = "reading"
    BY <1>1 DEF TasksOfSession
  <2> QED BY <1>1, <1>2, <2>1 DEF TasksOfSession, Beginning
<1>7. Counted'
  <2>1. \A t \in Done' : FALSE  BY <1>1, <1>2 DEF Done
  <2>2. Cardinality(Done') = 0  BY <2>1, NobodyDone
  <2> QED BY <1>1, <1>2, <2>2 DEF Counted
<1>8. AskAnswered'  BY <1>2, <1>3 DEF AskAnswered
<1>9. Registered' /\ NothingAsked' /\ EndsComplete' /\ JoinTogether'
  BY <1>1 DEF Registered, NothingAsked, Beginning, EndsComplete, JoinTogether
<1> QED BY <1>4, <1>5, <1>6, <1>7, <1>8, <1>9

\* A session that is given up takes its tasks and its fetches with it.
LEMMA ReconnectKeeps == ASSUME IInv, Reconnect PROVE IInv'
<1> USE DEF IInv
<1>1. /\ at = "drain" /\ lost' = FALSE /\ spent' = FALSE
      /\ tasks' = [t \in Tracks |-> "none"] /\ attempts' = [t \in Tracks |-> 0]
      /\ fetches' = {}
      /\ \/ at' = "dial" /\ goal' = "resume" /\ tries' = 0
         \/ at' = "failed" /\ UNCHANGED <<goal, tries>>
      /\ UNCHANGED <<broadcast, pad, count, holds, finished, asking, produced, link, ended,
                     joined, faults>>
  BY DEF Reconnect, OpenFor
<1>2. Tracks' = Tracks  BY <1>1 DEF Tracks
<1>3. TrackRetries \in Nat  BY ReaderAssumption
<1>4. \A t \in Tracks : tasks'[t] = "none" /\ attempts'[t] = 0  BY <1>1
<1>5. TypeOK'
  <2>1. 0 \in 0 .. TrackRetries + 1  BY <1>3
  <2>2. /\ attempts' \in [Tracks -> 0 .. TrackRetries + 1]
        /\ tasks' \in [Tracks -> {"none", "reading", "broken", "finished", "lost"}]
    BY <1>1, <2>1
  <2>3. at' \in Phases  BY <1>1 DEF Phases, Awaits, Ends
  <2>4. goal' \in {"none", "shape", "init", "resume"} /\ tries' \in Nat
    BY <1>1 DEF TypeOK
  <2>5. spent' \in BOOLEAN /\ lost' \in BOOLEAN /\ fetches' \subseteq Tracks  BY <1>1
  <2>6. UNCHANGED <<pad, count, holds, finished, asking, produced, link, ended, joined, faults>>
    BY <1>1
  <2> QED BY <1>2, <2>2, <2>3, <2>4, <2>5, <2>6 DEF TypeOK
<1>6. Whereabouts'  BY <1>1 DEF Whereabouts, Before
<1>7. TasksOfSession'  BY <1>1, <1>2, <1>3, <1>4 DEF TasksOfSession, Beginning
<1>8. Counted' /\ Registered' /\ NothingAsked' /\ EndsComplete' /\ JoinTogether' /\ AskAnswered'
  BY <1>1 DEF Counted, Pulling, Registered, NothingAsked, Beginning, EndsComplete,
     JoinTogether, AskAnswered
<1> QED BY <1>5, <1>6, <1>7, <1>8

-----------------------------------------------------------------------------
(* What goes out of the holds.                                             *)

HoldType == [held : 0 .. MaxHeld, hole : {"none", "asked", "answered"}]

\* What a hold may be once it has been taken from is one still.
LEMMA TakenType ==
  ASSUME TypeOK, NEW t \in Tracks, NEW last \in BOOLEAN
  PROVE  Taken(t, last) \subseteq HoldType
<1>1. MaxHeld \in Nat  BY ReaderAssumption
<1>2. holds[t] \in HoldType /\ holds[t].held \in 0 .. MaxHeld  BY DEF TypeOK, HoldType
<1>3. NewHold \in HoldType  BY <1>1 DEF NewHold, HoldType
<1> DEFINE hold == holds[t]
           waits == {h \in {hold} : hold.hole # "answered"}
           out == [held : 0 .. hold.held - 1, hole : {"none"}]
           asks == {[h EXCEPT !.hole = "asked"] :
                      h \in {k \in waits \cup out :
                               k.held > 0 /\ k.hole = "none" /\ t \notin asking \cup fetches}}
<1>4. waits \subseteq HoldType  BY <1>2
<1>5. out \subseteq HoldType  BY <1>1, <1>2 DEF HoldType
<1>6. \A h \in HoldType : [h EXCEPT !.hole = "asked"] \in HoldType  BY DEF HoldType
<1>7. asks \subseteq HoldType  BY <1>4, <1>5, <1>6
<1>8. Taken(t, last) = IF last THEN {NewHold} ELSE waits \cup out \cup asks  BY DEF Taken
<1> HIDE DEF waits, out, asks
<1> QED BY <1>3, <1>4, <1>5, <1>7, <1>8

\* A look at the holds leaves holds, and asks about the holes it says it does.
LEMMA ReleaseKeeps ==
  ASSUME TypeOK, NEW last \in BOOLEAN, Release(last)
  PROVE  /\ holds' \in [Tracks -> HoldType] /\ produced' \in BOOLEAN
         /\ Asked \subseteq Tracks
         /\ \A t \in Tracks : holds'[t].hole = "asked" => holds[t].hole = "asked" \/ t \in Asked
<1>1. /\ holds' \in [Tracks -> UNION {Taken(t, last) : t \in Tracks}]
      /\ \A t \in Tracks : holds'[t] \in Taken(t, last)
  BY DEF Release
<1>2. \A t \in Tracks : holds'[t] \in HoldType  BY <1>1, TakenType
<1>3. holds' \in [Tracks -> HoldType]  BY <1>1, <1>2
<1>4. produced' \in BOOLEAN  BY DEF Release, TypeOK
<1> QED BY <1>3, <1>4 DEF Asked

\* The budget met on the way.
LEMMA BurstKeeps == ASSUME IInv, Burst PROVE IInv'
<1> USE DEF IInv
<1>1. /\ at = "full" /\ at' = "drain" /\ Release(FALSE) /\ asking' = asking \cup Asked
      /\ UNCHANGED <<broadcast, goal, tries, spent, pad, count, finished, lost, link, tasks,
                     attempts, fetches, ended, joined, faults>>
  BY DEF Burst, opening, wire
<1>2. Tracks' = Tracks /\ Done' = Done  BY <1>1 DEF Tracks, Done
<1>3. /\ holds' \in [Tracks -> HoldType] /\ produced' \in BOOLEAN
      /\ Asked \subseteq Tracks
      /\ \A t \in Tracks : holds'[t].hole = "asked" => holds[t].hole = "asked" \/ t \in Asked
  BY <1>1, ReleaseKeeps
<1>4. TypeOK'  BY <1>1, <1>2, <1>3 DEF TypeOK, Phases, Awaits, HoldType
<1>5. Whereabouts'  BY <1>1 DEF Whereabouts, Before
<1>6. TasksOfSession'  BY <1>1, <1>2 DEF TasksOfSession, Beginning
<1>7. Counted'  BY <1>1, <1>2 DEF Counted, Pulling
<1>8. AskAnswered'  BY <1>1, <1>2, <1>3 DEF AskAnswered
<1>9. Registered' /\ NothingAsked' /\ EndsComplete' /\ JoinTogether'
  BY <1>1 DEF Registered, NothingAsked, Beginning, EndsComplete, JoinTogether
<1> QED BY <1>4, <1>5, <1>6, <1>7, <1>8, <1>9

\* A run that may be over has read all of its tracks to their ends.
LEMMA AllRead ==
  ASSUME IInv, Pulling, ~lost, finished >= count
  PROVE  \A t \in Tracks : t \in ended /\ tasks[t] = "finished"
<1> USE DEF IInv
<1>1. finished = Cardinality(Done) /\ \A t \in Tracks : tasks[t] # "lost"  BY DEF Counted
<1>2. count \in Nat  BY DEF TypeOK
<1>3. IsFiniteSet(Tracks) /\ Cardinality(Tracks) = count
  BY <1>2, FS_Interval DEF Tracks
<1>4. Done \in SUBSET Tracks  BY DEF Done
<1>5. /\ Cardinality(Done) <= Cardinality(Tracks)
      /\ Cardinality(Tracks) = Cardinality(Done) => Tracks = Done
      /\ IsFiniteSet(Done)
  BY <1>3, <1>4, FS_Subset
<1>6. Cardinality(Done) \in Nat  BY <1>5, FS_CardinalityType
<1>7. Tracks = Done  BY <1>1, <1>2, <1>3, <1>5, <1>6
<1> QED BY <1>1, <1>7 DEF Done, TasksOfSession

\* The end of a pull, or of the run.
LEMMA SettleKeeps == ASSUME IInv, Settle PROVE IInv'
<1> USE DEF IInv
<1>1. /\ at = "drain" /\ ~lost /\ Release(Over) /\ asking' = {}
      /\ fetches' = fetches \cup asking \cup Asked
      /\ at' = (IF produced' THEN "idle" ELSE IF Over' THEN "over" ELSE "wait")
      /\ UNCHANGED <<broadcast, goal, tries, spent, pad, count, finished, lost, link, tasks,
                     attempts, ended, joined, faults>>
  BY DEF Settle, opening
<1>2. Tracks' = Tracks /\ Done' = Done  BY <1>1 DEF Tracks, Done
<1>3. Over \in BOOLEAN  BY DEF Over
<1>4. /\ holds' \in [Tracks -> HoldType] /\ produced' \in BOOLEAN
      /\ Asked \subseteq Tracks
      /\ \A t \in Tracks : holds'[t].hole = "asked" => holds[t].hole = "asked" \/ t \in Asked
  BY <1>1, <1>3, ReleaseKeeps
<1>5. at' \in {"idle", "over", "wait"}  BY <1>1
<1>6. TypeOK'  BY <1>1, <1>2, <1>4, <1>5 DEF TypeOK, Phases, Awaits, Ends, HoldType
<1>7. Whereabouts'  BY <1>1, <1>5 DEF Whereabouts, Before
<1>8. TasksOfSession'  BY <1>1, <1>2, <1>5 DEF TasksOfSession, Beginning
<1>9. Counted'  BY <1>1, <1>2, <1>5 DEF Counted, Pulling, Beginning
<1>10. AskAnswered'  BY <1>1, <1>2, <1>4 DEF AskAnswered
<1>11. EndsComplete'
  <2> SUFFICES ASSUME at' = "over"
               PROVE  \A t \in Tracks : t \in ended /\ tasks[t] = "finished"
    BY <1>1, <1>2 DEF EndsComplete
  <2>1. finished >= count  BY <1>1 DEF Over
  <2> QED BY <1>1, <2>1, AllRead DEF Pulling
<1>12. Registered' /\ NothingAsked' /\ JoinTogether'
  BY <1>1, <1>5 DEF Registered, NothingAsked, Beginning, JoinTogether
<1> QED BY <1>6, <1>7, <1>8, <1>9, <1>10, <1>11, <1>12

-----------------------------------------------------------------------------
(* What comes in where the code awaits.                                    *)

\* A frame leaves a hold that asks for no more than it did.
LEMMA ArrivedType ==
  ASSUME NEW hold \in HoldType, NEW new \in Arrived(hold)
  PROVE  new \in HoldType /\ (new.hole = "asked" => hold.hole = "asked")
<1>1. MaxHeld \in Nat /\ hold.held \in 0 .. MaxHeld  BY ReaderAssumption DEF HoldType
<1>2. Min({hold.held + 1, MaxHeld}) \in 0 .. MaxHeld
  <2> DEFINE m == IF hold.held < MaxHeld THEN hold.held + 1 ELSE MaxHeld
  <2>1. m \in {hold.held + 1, MaxHeld} /\ \A y \in {hold.held + 1, MaxHeld} : m <= y
    BY <1>1
  <2>2. \A x \in {hold.held + 1, MaxHeld} :
          (\A y \in {hold.held + 1, MaxHeld} : x <= y) => x = m
    BY <1>1, <2>1
  <2>3. m \in 0 .. MaxHeld  BY <1>1
  <2> HIDE DEF m
  <2>4. Min({hold.held + 1, MaxHeld}) = m  BY <2>1, <2>2 DEF Min
  <2> QED BY <2>3, <2>4
<1>3. /\ new.held \in {hold.held, Min({hold.held + 1, MaxHeld})}
      /\ new.hole \in {hold.hole} \cup (IF hold.hole = "asked" THEN {"none"} ELSE {})
      /\ new = [held |-> new.held, hole |-> new.hole]
  BY DEF Arrived
<1>4. new.held \in 0 .. MaxHeld  BY <1>1, <1>2, <1>3
<1>5. new.hole \in {"none", "asked", "answered"}  BY <1>3 DEF HoldType
<1> QED BY <1>3, <1>4, <1>5 DEF HoldType

\* What a hold is given, or told, leaves the rest of the run alone; what it asked
\* for it still asks for only with a fetch to come.
LEMMA HoldMoves ==
  ASSUME IInv, Pulling \/ Beginning, NEW t \in Tracks, NEW hold \in HoldType,
         holds' = [holds EXCEPT ![t] = hold],
         hold.hole = "asked" => holds[t].hole = "asked" /\ t \in fetches' \cup asking,
         fetches' \subseteq fetches, fetches \subseteq fetches' \cup {t},
         UNCHANGED <<at, goal, tries, spent, pad, count, finished, lost, asking, produced,
                     link, tasks, attempts, ended, joined, faults>>
  PROVE  IInv'
<1> USE DEF IInv
<1>1. Tracks' = Tracks /\ Done' = Done  BY DEF Tracks, Done
<1>2. \A u \in Tracks : holds'[u] = IF u = t THEN hold ELSE holds[u]  BY DEF TypeOK
<1>3. TypeOK'
  <2>1. holds' \in [Tracks -> HoldType]  BY DEF TypeOK, HoldType
  <2> QED BY <1>1, <2>1 DEF TypeOK, HoldType
<1>4. Whereabouts' /\ TasksOfSession' /\ Counted' /\ Registered' /\ EndsComplete' /\ JoinTogether'
  BY <1>1 DEF Whereabouts, Before, TasksOfSession, Beginning, Counted, Pulling, Registered,
     EndsComplete, JoinTogether
<1>5. NothingAsked'  BY <1>1, <1>2 DEF NothingAsked, Beginning
<1>6. AskAnswered'  BY <1>1, <1>2 DEF AskAnswered
<1> QED BY <1>3, <1>4, <1>5, <1>6

\* The tasks are heard in a pull, and while the first session is subscribed on.
LEMMA ListeningIs == Listening => Pulling \/ Beginning
BY DEF Listening, Pulling, Beginning

\* A frame of a subscription.
LEMMA FrameKeeps == ASSUME IInv, NEW t \in Tracks, Frame(t) PROVE IInv'
<1> USE DEF IInv
<1>1. holds[t] \in HoldType  BY DEF TypeOK, HoldType
<1>2. PICK hold \in Arrived(holds[t]) : holds' = [holds EXCEPT ![t] = hold]  BY DEF Frame
<1>3. hold \in HoldType /\ (hold.hole = "asked" => holds[t].hole = "asked")
  BY <1>1, <1>2, ArrivedType
<1>4. /\ Pulling \/ Beginning
      /\ UNCHANGED <<at, goal, tries, spent, pad, count, finished, lost, asking, produced,
                     link, tasks, attempts, fetches, ended, joined, faults>>
  BY ListeningIs DEF Frame, opening, wire
<1>5. holds[t].hole = "asked" => t \in fetches \cup asking
  BY <1>4 DEF AskAnswered, NothingAsked, Pulling
<1> QED BY <1>2, <1>3, <1>4, <1>5, HoldMoves

\* The answer to a fetch, or none in time.
LEMMA AnswerKeeps == ASSUME IInv, NEW t \in Tracks, Answer(t) PROVE IInv'
<1> USE DEF IInv
<1> DEFINE hold == Answered(holds[t])
<1>1. holds[t] \in HoldType  BY DEF TypeOK, HoldType
<1>2. hold \in HoldType /\ hold.hole # "asked"  BY <1>1 DEF Answered, HoldType
<1>3. /\ holds' = [holds EXCEPT ![t] = hold] /\ fetches' = fetches \ {t}
      /\ Pulling \/ Beginning
      /\ UNCHANGED <<at, goal, tries, spent, pad, count, finished, lost, asking, produced,
                     link, tasks, attempts, ended, joined, faults>>
  BY ListeningIs DEF Answer, opening
<1>4. fetches' \subseteq fetches /\ fetches \subseteq fetches' \cup {t}  BY <1>3
<1> HIDE DEF hold
<1> QED BY <1>2, <1>3, <1>4, HoldMoves

\* A task that reads, or subscribes again, ends or goes on.
LEMMA TaskMoves ==
  ASSUME IInv, Listening, NEW t \in Tracks, NEW from \in {"reading", "broken"},
         NEW to \in {"reading", "broken", "finished", "lost"}, Goes(t, from, to),
         IF to \in {"finished", "lost"} THEN finished' = finished + 1 ELSE UNCHANGED finished,
         IF to = "lost" THEN lost' = TRUE ELSE UNCHANGED lost,
         to = "finished" => t \in ended,
         attempts' \in [Tracks -> 0 .. TrackRetries + 1],
         \A u \in Tracks : u # t => attempts'[u] = attempts[u],
         to # "lost" => attempts'[t] <= TrackRetries,
         faults' \in Nat,
         UNCHANGED <<at, goal, tries, spent, pad, count, holds, asking, produced, link,
                     fetches, ended, joined>>
  PROVE  IInv'
<1> USE DEF IInv
<1>1. Tracks' = Tracks  BY DEF Tracks
<1>2. /\ tasks[t] = from
      /\ \A u \in Tracks : tasks'[u] = IF u = t THEN to ELSE tasks[u]
      /\ tasks' \in [Tracks -> {"none", "reading", "broken", "finished", "lost"}]
  BY DEF Goes, TypeOK
<1>3. Pulling \/ Beginning  BY ListeningIs
<1>4. finished = Cardinality(Done) /\ (lost \/ \A u \in Tracks : tasks[u] # "lost")
  BY <1>3 DEF Counted
<1>5. count \in Nat  BY DEF TypeOK
<1>6. Cardinality(Tracks) = count /\ IsFiniteSet(Tracks)  BY <1>5, FS_Interval DEF Tracks
<1>7. Done \in SUBSET Tracks /\ Done' \in SUBSET Tracks  BY <1>1 DEF Done
<1>8. IsFiniteSet(Done) /\ t \notin Done  BY <1>2, <1>6, <1>7, FS_Subset DEF Done
<1>9. finished' = Cardinality(Done')
  <2>1. CASE to \in {"finished", "lost"}
    <3>1. Done' = Done \cup {t}  BY <1>1, <1>2, <2>1 DEF Done
    <3>2. Cardinality(Done \cup {t}) = Cardinality(Done) + 1  BY <1>8, FS_AddElement
    <3> QED BY <1>4, <2>1, <3>1, <3>2
  <2>2. CASE to \notin {"finished", "lost"}
    <3>1. Done' = Done  BY <1>1, <1>2, <2>2 DEF Done
    <3> QED BY <1>4, <2>2, <3>1
  <2> QED BY <2>1, <2>2
<1>10. finished' \in 0 .. count'
  <2>1. IsFiniteSet(Done') /\ Cardinality(Done') <= Cardinality(Tracks)
    BY <1>6, <1>7, FS_Subset
  <2>2. Cardinality(Done') \in Nat  BY <2>1, FS_CardinalityType
  <2> QED BY <1>5, <1>6, <1>9, <2>1, <2>2
<1>11. lost' \in BOOLEAN /\ (lost' \/ \A u \in Tracks : tasks'[u] # "lost")
  BY <1>2, <1>4 DEF TypeOK
<1>12. TypeOK'  BY <1>1, <1>2, <1>10, <1>11 DEF TypeOK
<1>13. TasksOfSession'
  <2>1. goal # "resume"  BY <1>2 DEF TasksOfSession
  <2>2. Beginning /\ at # "opened" =>
          \A u \in Tracks : u >= pad \/ at = "register" => tasks'[u] = "none"
    BY <1>2 DEF TasksOfSession
  <2>3. \A u \in Tracks : /\ tasks'[u] # "lost" => attempts'[u] <= TrackRetries
                          /\ tasks'[u] = "finished" => u \in ended
    BY <1>2 DEF TasksOfSession
  <2> QED BY <1>1, <2>1, <2>2, <2>3 DEF TasksOfSession, Beginning
<1>14. Counted'  BY <1>1, <1>9, <1>11 DEF Counted
<1>15. EndsComplete'  BY DEF EndsComplete, Listening
<1>16. /\ Whereabouts' /\ Registered' /\ NothingAsked' /\ JoinTogether' /\ AskAnswered'
  BY <1>1 DEF Whereabouts, Before, Registered, NothingAsked, Beginning, JoinTogether, AskAnswered
<1> QED BY <1>12, <1>13, <1>14, <1>15, <1>16

\* The publisher's end of a track, a break, another try.
LEMMA TaskKeeps ==
  ASSUME IInv, NEW t \in Tracks, Finish(t) \/ Break(t) \/ Resubscribe(t) PROVE IInv'
<1> USE DEF IInv
<1>1. /\ Listening
      /\ UNCHANGED <<at, goal, tries, spent, pad, count, holds, asking, produced, link,
                     fetches, ended, joined>>
  BY DEF Finish, Break, Resubscribe, opening
<1>2. /\ attempts \in [Tracks -> 0 .. TrackRetries + 1] /\ TrackRetries \in Nat
      /\ attempts[t] \in Nat /\ faults \in Nat
      /\ tasks[t] # "lost" => attempts[t] <= TrackRetries
  BY ReaderAssumption DEF TypeOK, TasksOfSession
<1>3. CASE Finish(t)
  <2>1. /\ t \in ended /\ Goes(t, "reading", "finished") /\ finished' = finished + 1
        /\ UNCHANGED <<lost, attempts, faults>>
    BY <1>3 DEF Finish
  <2>2. attempts[t] <= TrackRetries  BY <1>2, <2>1 DEF Goes
  <2> QED BY <1>1, <1>2, <2>1, <2>2, TaskMoves
<1>4. CASE Break(t)
  <2>1. /\ attempts' = [attempts EXCEPT ![t] = @ + 1]
        /\ \/ /\ attempts[t] < TrackRetries /\ Goes(t, "reading", "broken")
              /\ UNCHANGED <<finished, lost>>
           \/ Goes(t, "reading", "lost") /\ lost' = TRUE /\ finished' = finished + 1
    BY <1>4 DEF Break, Loses, LostNoted
  <2>2. faults' \in Nat  BY <1>2, <1>4 DEF Break, Faulty
  <2>3. attempts[t] <= TrackRetries  BY <1>2, <2>1 DEF Goes
  <2>4. attempts'[t] = attempts[t] + 1 /\ \A u \in Tracks : u # t => attempts'[u] = attempts[u]
    BY <1>2, <2>1
  <2>5. attempts' \in [Tracks -> 0 .. TrackRetries + 1]
    <3>1. attempts[t] + 1 \in 0 .. TrackRetries + 1  BY <1>2, <2>3
    <3> QED BY <1>2, <2>1, <3>1
  <2>6. attempts[t] < TrackRetries => attempts'[t] <= TrackRetries  BY <1>2, <2>4
  <2> QED BY <1>1, <2>1, <2>2, <2>4, <2>5, <2>6, TaskMoves
<1>5. CASE Resubscribe(t)
  <2>1. /\ UNCHANGED attempts
        /\ \/ Goes(t, "broken", "reading") /\ UNCHANGED <<finished, lost>>
           \/ Goes(t, "broken", "lost") /\ lost' = TRUE /\ finished' = finished + 1
    BY <1>5 DEF Resubscribe, Loses, LostNoted
  <2>2. faults' \in Nat  BY <1>2, <1>5 DEF Resubscribe, Faulty
  <2>3. attempts[t] <= TrackRetries  BY <1>2, <2>1 DEF Goes
  <2> QED BY <1>1, <1>2, <2>1, <2>2, <2>3, TaskMoves
<1> QED BY <1>3, <1>4, <1>5

\* The publisher goes on: the tracks of a session stay at one group.
LEMMA PublishKeeps == ASSUME IInv, Publish PROVE IInv'
<1> USE DEF IInv
<1>1. /\ at \in Awaits
      /\ UNCHANGED <<broadcast, at, goal, tries, spent, pad, count, holds, finished, lost,
                     asking, produced, link, tasks, attempts, fetches, faults>>
      /\ ended \subseteq ended' /\ ended' \subseteq Tracks
      /\ \/ joined' = [t \in Tracks |-> IF joined[t] = "edge" THEN "behind" ELSE joined[t]]
         \/ UNCHANGED joined
  BY DEF Publish, opening, run, TypeOK
<1>2. Tracks' = Tracks /\ Done' = Done  BY <1>1 DEF Tracks, Done
<1>3. joined' \in [Tracks -> {"none", "edge", "behind"}]  BY <1>1 DEF TypeOK
<1>4. TypeOK'  BY <1>1, <1>2, <1>3 DEF TypeOK
<1>5. JoinTogether'
  <2>1. \A t, u \in Tracks : joined[t] = joined[u] => joined'[t] = joined'[u]  BY <1>1
  <2> QED BY <1>1, <1>2, <2>1 DEF JoinTogether
<1>6. Registered' /\ EndsComplete'  BY <1>1 DEF Registered, EndsComplete, Awaits
<1>7. TasksOfSession'  BY <1>1, <1>2 DEF TasksOfSession, Beginning
<1>8. Whereabouts' /\ Counted' /\ NothingAsked' /\ AskAnswered'
  BY <1>1, <1>2 DEF Whereabouts, Before, Counted, Pulling, NothingAsked, Beginning, AskAnswered
<1> QED BY <1>4, <1>5, <1>6, <1>7, <1>8

-----------------------------------------------------------------------------
(* The invariant.                                                          *)

\* It holds at first,
LEMMA InitIInv == Init => IInv
<1> SUFFICES ASSUME Init PROVE IInv  OBVIOUS
<1>1. Tracks = {}  BY DEF Init, Tracks
<1>2. Cardinality(Done) = 0
  <2>1. \A t \in Done : FALSE  BY <1>1 DEF Done
  <2> QED BY <2>1, NobodyDone
<1>3. holds = << >> /\ tasks = << >> /\ attempts = << >> /\ joined = << >>  BY DEF Init
<1>4. \A S : << >> \in [{} -> S]  OBVIOUS
<1>5. TypeOK
  <2>1. pad \in 1 .. count + 1 /\ finished \in 0 .. count  BY DEF Init
  <2>2. /\ at \in Phases /\ goal \in {"none", "shape", "init", "resume"}
        /\ tries \in Nat /\ count \in Nat /\ faults \in Nat
        /\ spent \in BOOLEAN /\ lost \in BOOLEAN /\ produced \in BOOLEAN
        /\ link \in {"up", "ended"} /\ asking = {} /\ fetches = {} /\ ended = {}
    BY DEF Init, Phases
  <2> QED BY <1>1, <1>3, <1>4, <2>1, <2>2 DEF TypeOK
<1> QED
  BY <1>1, <1>2, <1>5 DEF Init, IInv, Whereabouts, Before, TasksOfSession, Beginning, Counted,
     Pulling, Registered, NothingAsked, EndsComplete, JoinTogether, AskAnswered

\* and every step keeps it.
LEMMA NextIInv == IInv /\ [Next]_vars => IInv'
<1> SUFFICES ASSUME IInv, [Next]_vars PROVE IInv'  OBVIOUS
<1>1. CASE Code
  BY <1>1, Elsewhere, LatchKeeps, SameKeeps, RegisterKeeps, InitialisedKeeps, ResumedKeeps,
     BurstKeeps, ReconnectKeeps, SettleKeeps
  DEF Code
<1>2. CASE Host \/ Subscribed  BY <1>2, Elsewhere, SubscribedKeeps DEF Host
<1>3. ASSUME NEW t \in Tracks,
             Frame(t) \/ Finish(t) \/ Break(t) \/ Resubscribe(t) \/ Answer(t)
      PROVE  IInv'
  BY <1>3, FrameKeeps, TaskKeeps, AnswerKeeps
<1>4. CASE Drop \/ Spend \/ UNCHANGED vars  BY <1>4, Elsewhere
<1>5. CASE Publish  BY <1>5, PublishKeeps
<1> QED BY <1>1, <1>2, <1>3, <1>4, <1>5 DEF Next

\* So it holds always.
LEMMA Invariant == Spec => []IInv
<1> QED BY InitIInv, NextIInv, PTL DEF Spec

\* Every variable keeps to its type, and no more readers are counted than there are.
THEOREM ReaderTypes == Spec => []TypeOK
<1>1. IInv => TypeOK  BY DEF IInv
<1> QED BY Invariant, <1>1, PTL

\* "over" is said only of a run each of whose tracks the publisher finished and
\* that was read to its end: Reader::pull's `finished >= readers`, whatever was
\* lost or opened again on the way.
THEOREM ReaderEndsComplete == Spec => []EndsComplete
<1>1. IInv => EndsComplete  BY DEF IInv
<1> QED BY Invariant, <1>1, PTL

\* The tracks of a session are registered at one group of the publisher, which is
\* what the comment in the node's `init` registers all of them for before any is
\* awaited.
THEOREM ReaderJoinsTogether == Spec => []JoinTogether
<1>1. IInv => JoinTogether  BY DEF IInv
<1> QED BY Invariant, <1>1, PTL

\* No hole waits for an answer that nobody is going to give, whatever session was
\* given up between the asking and the answer.
THEOREM ReaderAsksAreAnswered == Spec => []AskAnswered
<1>1. IInv => AskAnswered  BY DEF IInv
<1> QED BY Invariant, <1>1, PTL

-----------------------------------------------------------------------------
(* The ports.  `Ports` is a fold, that is a recursive function on the sets  *)
(* of tracks: there is one, found track by track, and what it gives for the *)
(* first k tracks follows from what it gives for one less.  Either is shown *)
(* by the least k for which it would not be so.                             *)

\* A set of numbers has a least one.
LEMMA LeastNumber ==
  ASSUME NEW S, S \subseteq Nat, S # {}
  PROVE  \E n \in S : \A m \in S : n <= m
<1> DEFINE Less == {pair \in Nat \X Nat : pair[1] < pair[2]}
<1>1. IsWellFoundedOn(Less, Nat)  BY NatLessThanWellFounded DEF OpToRel
<1>2. \A x, y \in Nat : x < y => <<x, y>> \in Less  OBVIOUS
<1> HIDE DEF Less
<1>3. PICK n \in S : \A m \in S : ~(<<m, n>> \in Less)  BY <1>1, WFMin
<1>4. \A m \in S : ~(m < n)  BY <1>2, <1>3
<1> QED BY <1>4

\* Induction up to n, for what a set of numbers can say.
LEMMA UpTo ==
  ASSUME NEW n \in Nat, NEW Good, 0 \in Good,
         \A k \in 1 .. n : k - 1 \in Good => k \in Good
  PROVE  \A k \in 0 .. n : k \in Good
<1> DEFINE Bad == {k \in 0 .. n : k \notin Good}
<1> SUFFICES ASSUME Bad # {} PROVE FALSE  OBVIOUS
<1>1. Bad \subseteq Nat  OBVIOUS
<1>2. PICK k \in Bad : \A m \in Bad : k <= m  BY <1>1, LeastNumber
<1>3. k \in 1 .. n /\ k - 1 \in 0 .. n /\ ~(k <= k - 1)  BY <1>2
<1>4. k - 1 \notin Bad  BY <1>2, <1>3
<1> QED BY <1>2, <1>3, <1>4

\* The ports of the tracks in s, by those of all but the last of them.
PortsBy(tracks, iter, s) ==
  IF s = {} THEN << >>
  ELSE Port(iter[s \ {Max(s)}], Allowed(tracks[Max(s)].name))

IsPorts(tracks, iter) ==
  iter = [s \in SUBSET DOMAIN tracks |-> PortsBy(tracks, iter, s)]

\* If such a function there is, Ports is one's value for all the tracks.
LEMMA PortsIs ==
  ASSUME NEW tracks, NEW some, IsPorts(tracks, some)
  PROVE  \E iter : IsPorts(tracks, iter) /\ Ports(tracks) = iter[DOMAIN tracks]
<1> DEFINE iter == CHOOSE f : IsPorts(tracks, f)
<1>1. IsPorts(tracks, iter)  OBVIOUS
<1>2. Ports(tracks) = iter[DOMAIN tracks]
  BY DEF Ports, FoldLeft, MapThenFoldSet, IsPorts, PortsBy
<1> QED BY <1>1, <1>2

\* The last of some of the first k, if that is the kth.
LEMMA MaxIs ==
  ASSUME NEW k \in Nat, NEW s \in SUBSET (1 .. k), k \in s
  PROVE  Max(s) = k
<1>1. k \in s /\ \A y \in s : k >= y  OBVIOUS
<1>2. Max(s) \in s /\ \A y \in s : Max(s) >= y  BY <1>1 DEF Max
<1>3. Max(s) \in 1 .. k /\ Max(s) >= k  BY <1>1, <1>2
<1> QED BY <1>3

LEMMA PortsExist ==
  ASSUME NEW S, NEW tracks \in Seq(S)
  PROVE  \E iter : IsPorts(tracks, iter)
<1> DEFINE n == Len(tracks)
           Solves(iter, k) ==
             \A s \in SUBSET (1 .. k) : iter[s] = PortsBy(tracks, iter, s)
           Good == {k \in 0 .. n : \E iter : Solves(iter, k)}
<1>1. n \in Nat /\ DOMAIN tracks = 1 .. n  BY LenProperties
<1>2. 0 \in Good
  <2> DEFINE iter == [s \in {{}} |-> << >>]
  <2>1. \A s \in SUBSET (1 .. 0) : s = {}  OBVIOUS
  <2>2. Solves(iter, 0)  BY <2>1 DEF PortsBy
  <2> HIDE DEF iter, Solves
  <2> QED BY <1>1, <2>2
<1>3. ASSUME NEW k \in 1 .. n, k - 1 \in Good PROVE k \in Good
  <2>1. PICK f : Solves(f, k - 1)  BY <1>3
  <2> DEFINE g == [s \in SUBSET (1 .. k) |->
                     IF k \in s THEN Port(f[s \ {k}], Allowed(tracks[k].name)) ELSE f[s]]
  <2>2. ASSUME NEW s \in SUBSET (1 .. k) PROVE g[s] = PortsBy(tracks, g, s)
    <3>1. k \in Nat  BY <1>1
    <3>2. CASE k \in s
      <4>1. Max(s) = k /\ s # {}  BY <3>1, <3>2, MaxIs
      <4>2. s \ {k} \in SUBSET (1 .. k) /\ k \notin s \ {k}  OBVIOUS
      <4>3. g[s \ {k}] = f[s \ {k}]  BY <4>2
      <4>4. g[s] = Port(f[s \ {k}], Allowed(tracks[k].name))  BY <3>2
      <4> HIDE DEF g
      <4> QED BY <4>1, <4>3, <4>4 DEF PortsBy
    <3>3. CASE k \notin s
      <4>1. s \in SUBSET (1 .. k - 1)  BY <3>1, <3>3
      <4>2. f[s] = PortsBy(tracks, f, s)  BY <2>1, <4>1
      <4>3. g[s] = f[s]  BY <3>3
      <4>4. s \ {Max(s)} \in SUBSET (1 .. k) /\ k \notin s \ {Max(s)}  BY <3>3
      <4>5. g[s \ {Max(s)}] = f[s \ {Max(s)}]  BY <4>4
      <4> HIDE DEF g
      <4> QED BY <4>2, <4>3, <4>5 DEF PortsBy
    <3> QED BY <3>2, <3>3
  <2> HIDE DEF g
  <2>3. Solves(g, k)  BY <2>2
  <2> HIDE DEF Solves
  <2> QED BY <1>1, <2>3
<1>4. n \in Good
  <2> HIDE DEF Good
  <2>1. \A k \in 0 .. n : k \in Good  BY <1>1, <1>2, <1>3, UpTo
  <2> QED BY <1>1, <2>1
<1>5. PICK f : Solves(f, n)  BY <1>4
<1> DEFINE g == [s \in SUBSET (1 .. n) |-> f[s]]
<1>6. ASSUME NEW s \in SUBSET (1 .. n) PROVE f[s] = PortsBy(tracks, g, s)
  <2>1. f[s] = PortsBy(tracks, f, s)  BY <1>5
  <2>2. s \ {Max(s)} \in SUBSET (1 .. n)  OBVIOUS
  <2>3. g[s \ {Max(s)}] = f[s \ {Max(s)}]  BY <2>2
  <2> HIDE DEF g
  <2> QED BY <2>1, <2>3 DEF PortsBy
<1>7. g = [s \in SUBSET DOMAIN tracks |-> PortsBy(tracks, g, s)]  BY <1>1, <1>6
<1> HIDE DEF g
<1> QED BY <1>7 DEF IsPorts

\* What the names of ports are put together of.
Parts == STRING \cup {"-", "_"} \cup {ToString(n) : n \in Nat}

\* A port by the number of its track, if it has it in its name.
Plain(tracks, i)     == Allowed(tracks[i].name)
AsNumbered(tracks, i) == Plain(tracks, i) \o <<"-", ToString(i - 1)>>

\* The ports of the first k tracks: each goes by its name or by its number too, and
\* no two by one.
PortsAre(tracks, k, ports) ==
  /\ ports \in Seq(Seq(Parts)) /\ Len(ports) = k
  /\ \A i \in 1 .. k : ports[i] = Plain(tracks, i) \/ ports[i] = AsNumbered(tracks, i)
  /\ \A i, j \in 1 .. k : ports[i] = ports[j] => i = j

\* What a port may be called has no parts but those of the name, but for the dots.
LEMMA AllowedIs ==
  ASSUME NEW name \in Seq(STRING), "-" \notin ToSet(name)
  PROVE  /\ Allowed(name) \in Seq(Parts)
         /\ \A i \in DOMAIN Allowed(name) : Allowed(name)[i] # "-"
<1> DEFINE s == Allowed(name)
<1>1. /\ DOMAIN name = 1 .. Len(name) /\ Len(name) \in Nat
      /\ \A i \in DOMAIN name : name[i] \in STRING /\ name[i] # "-"
  BY LenProperties DEF ToSet
<1>2. s = [i \in 1 .. Len(name) |-> IF name[i] = "." THEN "_" ELSE name[i]]
  BY <1>1 DEF Allowed
<1>3. ASSUME NEW i \in 1 .. Len(name)
      PROVE  (IF name[i] = "." THEN "_" ELSE name[i]) \in Parts
  <2>1. name[i] \in Parts  BY <1>1 DEF Parts
  <2>2. "_" \in Parts  BY DEF Parts
  <2>3. CASE name[i] = "."  BY ONLY <2>2, <2>3
  <2>4. CASE name[i] # "."  BY ONLY <2>1, <2>4
  <2> QED BY <2>3, <2>4
<1> HIDE DEF s
<1>4. s \in [1 .. Len(name) -> Parts] /\ DOMAIN s = 1 .. Len(name)  BY <1>2, <1>3
<1>5. s \in Seq(Parts)  BY <1>1, <1>4
<1>6. \A i \in DOMAIN s : s[i] # "-"  BY <1>1, <1>2, <1>4
<1> QED BY <1>5, <1>6 DEF s

\* The decimals of two numbers differ.
Decimals == \A m, n \in Nat : ToString(m) = ToString(n) => m = n

\* A numbered port is longer by two parts, a dash and the number.
LEMMA NumberedIs ==
  ASSUME NEW name \in Seq(Parts), NEW n \in Parts
  PROVE  LET port == name \o <<"-", n>>
         IN  /\ port \in Seq(Parts) /\ Len(port) = Len(name) + 2
             /\ port[Len(name) + 1] = "-" /\ port[Len(name) + 2] = n
             /\ Len(name) \in Nat
<1> DEFINE tail == <<"-", n>>
<1>1. Len(tail) = 2 /\ tail[1] = "-" /\ tail[2] = n  OBVIOUS
<1>2. tail \in Seq(Parts)
  <2>1. "-" \in Parts  BY DEF Parts
  <2> QED BY <2>1
<1> HIDE DEF tail
<1>3. /\ name \o tail \in Seq(Parts) /\ Len(name \o tail) = Len(name) + Len(tail)
      /\ \A i \in 1 .. Len(name) + Len(tail) :
           (name \o tail)[i] = IF i <= Len(name) THEN name[i] ELSE tail[i - Len(name)]
  BY <1>2, ConcatProperties
<1>4. Len(name) \in Nat  BY LenProperties
<1>5. /\ Len(name) + 1 \in 1 .. Len(name) + 2 /\ ~(Len(name) + 1 <= Len(name))
      /\ Len(name) + 2 \in 1 .. Len(name) + 2 /\ ~(Len(name) + 2 <= Len(name))
      /\ Len(name) + 1 - Len(name) = 1 /\ Len(name) + 2 - Len(name) = 2
  BY <1>4
<1> QED BY <1>1, <1>3, <1>4, <1>5 DEF tail

\* Two ports of k tracks whose names have no dash are two, if they have two numbers.
LEMMA TwoPorts ==
  ASSUME NEW a \in Seq(Parts), NEW b \in Seq(Parts),
         \A i \in DOMAIN a : a[i] # "-", \A i \in DOMAIN b : b[i] # "-",
         NEW m \in Parts, NEW n \in Parts
  PROVE  /\ a \o <<"-", m>> # b
         /\ a \o <<"-", m>> = b \o <<"-", n>> => m = n
<1> DEFINE am == a \o <<"-", m>>
           bn == b \o <<"-", n>>
<1>1. /\ Len(am) = Len(a) + 2 /\ am[Len(a) + 1] = "-" /\ am[Len(a) + 2] = m
      /\ Len(a) \in Nat
  BY NumberedIs
<1>2. /\ Len(bn) = Len(b) + 2 /\ bn[Len(b) + 2] = n /\ Len(b) \in Nat
  BY NumberedIs
<1> HIDE DEF am, bn
<1>3. am # b
  <2> SUFFICES ASSUME am = b PROVE FALSE  OBVIOUS
  <2>1. Len(a) + 1 \in 1 .. Len(b) /\ b[Len(a) + 1] = "-"  BY <1>1
  <2>2. DOMAIN b = 1 .. Len(b)  BY LenProperties
  <2> QED BY <2>1, <2>2
<1>4. am = bn => m = n
  <2> SUFFICES ASSUME am = bn PROVE m = n  OBVIOUS
  <2>1. Len(a) = Len(b)  BY <1>1, <1>2
  <2> QED BY <1>1, <1>2, <2>1
<1> QED BY <1>3, <1>4 DEF am, bn


\* One more port keeps the ports apart.
LEMMA PortsGrow ==
  ASSUME Decimals, NEW tracks, NEW k \in Nat \ {0}, NEW ports,
         \A i \in 1 .. k : /\ Plain(tracks, i) \in Seq(Parts)
                           /\ \A x \in DOMAIN Plain(tracks, i) : Plain(tracks, i)[x] # "-",
         PortsAre(tracks, k - 1, ports)
  PROVE  PortsAre(tracks, k, Port(ports, Plain(tracks, k)))
<1> DEFINE name == Plain(tracks, k)
           Numbers == name = << >> \/ name \in ToSet(ports)
           tail == IF Numbers THEN <<"-", ToString(Len(ports))>> ELSE << >>
           port == name \o tail
           all  == Append(ports, port)
<1>1. /\ ports \in Seq(Seq(Parts)) /\ Len(ports) = k - 1
      /\ \A i \in 1 .. k - 1 : ports[i] = Plain(tracks, i) \/ ports[i] = AsNumbered(tracks, i)
      /\ \A i, j \in 1 .. k - 1 : ports[i] = ports[j] => i = j
  BY DEF PortsAre
<1>2. name \in Seq(Parts) /\ k \in 1 .. k  OBVIOUS
<1>3. ASSUME NEW i \in 1 .. k PROVE ToString(i - 1) \in Parts
  <2>1. PICK m \in Nat : m = i - 1  OBVIOUS
  <2>2. ToString(m) \in Parts  BY DEF Parts
  <2> QED BY <2>1, <2>2
<1>4. /\ port \in Seq(Parts)
      /\ port = name \/ port = AsNumbered(tracks, k)
      /\ \A i \in 1 .. k - 1 : port # ports[i]
  <2>1. CASE Numbers
    <3>1. port = AsNumbered(tracks, k)  BY <1>1, <2>1 DEF AsNumbered
    <3>2. port \in Seq(Parts)  BY <1>2, <1>3, <3>1, NumberedIs DEF AsNumbered
    <3>3. ASSUME NEW i \in 1 .. k - 1 PROVE port # ports[i]
      <4> DEFINE other == Plain(tracks, i)
                 here  == ToString(k - 1)
                 there == ToString(i - 1)
      <4>1. i \in 1 .. k /\ i # k /\ k - 1 \in Nat /\ i - 1 \in Nat  OBVIOUS
      <4>2. here \in Parts /\ there \in Parts  BY <1>2, <1>3, <4>1
      <4>3. here # there  BY <4>1 DEF Decimals
      <4>4. other \in Seq(Parts) /\ \A x \in DOMAIN other : other[x] # "-"  BY <4>1
      <4>5. name \in Seq(Parts) /\ \A x \in DOMAIN name : name[x] # "-"  BY <1>2
      <4>6. ports[i] = other \/ ports[i] = other \o <<"-", there>>  BY <1>1 DEF AsNumbered
      <4>7. port = name \o <<"-", here>>  BY <3>1 DEF AsNumbered
      <4> HIDE DEF other, here, there, name, port
      <4>8. /\ name \o <<"-", here>> # other
            /\ name \o <<"-", here>> = other \o <<"-", there>> => here = there
        BY <4>2, <4>4, <4>5, TwoPorts
      <4> QED BY <4>3, <4>6, <4>7, <4>8
    <3> QED BY <3>1, <3>2, <3>3
  <2>2. CASE ~Numbers
    <3>1. tail = << >>  BY <2>2
    <3>2. port = name  BY <1>2, <3>1, ConcatEmptySeq
    <3>3. \A i \in 1 .. k - 1 : ports[i] # name
      <4>1. DOMAIN ports = 1 .. k - 1  BY <1>1, LenProperties
      <4> QED BY <2>2, <4>1 DEF ToSet
    <3> QED BY <1>2, <3>2, <3>3
  <2> QED BY <2>1, <2>2
<1>5. Port(ports, name) = all  BY DEF Port
<1> HIDE DEF port
<1>6. /\ all \in Seq(Seq(Parts)) /\ Len(all) = k
      /\ \A i \in 1 .. k - 1 : all[i] = ports[i]
      /\ all[k] = port
  <2>1. /\ all \in Seq(Seq(Parts)) /\ Len(all) = Len(ports) + 1
        /\ \A i \in 1 .. Len(ports) : all[i] = ports[i]
        /\ all[Len(ports) + 1] = port
    BY <1>1, <1>4, AppendProperties
  <2> QED BY <1>1, <2>1
<1> HIDE DEF all, name
<1>7. \A i \in 1 .. k : i \in 1 .. k - 1 \/ i = k  OBVIOUS
<1>8. \A i \in 1 .. k : all[i] = Plain(tracks, i) \/ all[i] = AsNumbered(tracks, i)
  BY <1>1, <1>4, <1>6, <1>7 DEF name
<1>9. ASSUME NEW i \in 1 .. k, NEW j \in 1 .. k, all[i] = all[j] PROVE i = j
  <2>1. CASE i \in 1 .. k - 1 /\ j \in 1 .. k - 1
    <3>1. ports[i] = ports[j]  BY <1>6, <1>9, <2>1
    <3> QED BY <1>1, <2>1, <3>1
  <2>2. CASE i = k /\ j \in 1 .. k - 1
    <3>1. port = ports[j]  BY <1>6, <1>9, <2>2
    <3> QED BY <1>4, <2>2, <3>1
  <2>3. CASE i \in 1 .. k - 1 /\ j = k
    <3>1. port = ports[i]  BY <1>6, <1>9, <2>3
    <3> QED BY <1>4, <2>3, <3>1
  <2>4. CASE i = k /\ j = k  BY <2>4
  <2> QED BY <1>7, <2>1, <2>2, <2>3, <2>4
<1> QED BY <1>5, <1>6, <1>8, <1>9 DEF PortsAre, name

\* Tracks whose names have no dash leave on ports of their own.
LEMMA PortsApart ==
  ASSUME Decimals, NEW S, NEW tracks \in Seq(S),
         \A i \in DOMAIN tracks : tracks[i].name \in Seq(STRING) /\ "-" \notin ToSet(tracks[i].name)
  PROVE  IsInjective(Ports(tracks))
<1> DEFINE n == Len(tracks)
<1>1. n \in Nat /\ DOMAIN tracks = 1 .. n  BY LenProperties
<1>2. PICK some : IsPorts(tracks, some)  BY PortsExist
<1>3. PICK iter : IsPorts(tracks, iter) /\ Ports(tracks) = iter[DOMAIN tracks]
  BY <1>2, PortsIs
<1>4. \A s \in SUBSET (1 .. n) : iter[s] = PortsBy(tracks, iter, s)
  <2>1. iter = [s \in SUBSET (1 .. n) |-> PortsBy(tracks, iter, s)]  BY <1>1, <1>3 DEF IsPorts
  <2> QED BY <2>1
<1>5. \A i \in 1 .. n : /\ Plain(tracks, i) \in Seq(Parts)
                        /\ \A x \in DOMAIN Plain(tracks, i) : Plain(tracks, i)[x] # "-"
  BY <1>1, AllowedIs DEF Plain
<1> DEFINE Good == {k \in 0 .. n : PortsAre(tracks, k, iter[1 .. k])}
<1>6. 0 \in Good
  <2>1. 1 .. 0 = {}  OBVIOUS
  <2>2. iter[1 .. 0] = << >>  BY <1>4, <2>1 DEF PortsBy
  <2>3. << >> \in Seq(Seq(Parts)) /\ Len(<< >>) = 0  OBVIOUS
  <2>4. PortsAre(tracks, 0, << >>)  BY <2>1, <2>3 DEF PortsAre
  <2>5. 0 \in 0 .. n  BY <1>1
  <2>6. PortsAre(tracks, 0, iter[1 .. 0])  BY <2>2, <2>4
  <2> QED BY <2>5, <2>6
<1>7. ASSUME NEW k \in 1 .. n, k - 1 \in Good PROVE k \in Good
  <2>1. k \in Nat \ {0} /\ 1 .. k \subseteq 1 .. n /\ k \in 1 .. k /\ 1 .. k # {}  BY <1>1
  <2>2. (1 .. k) \ {k} = 1 .. k - 1  BY <2>1
  <2>3. Max(1 .. k) = k  BY <2>1, MaxIs
  <2>4. iter[1 .. k] = Port(iter[1 .. k - 1], Plain(tracks, k))
    BY <1>4, <2>1, <2>2, <2>3 DEF PortsBy, Plain
  <2>5. PortsAre(tracks, k - 1, iter[1 .. k - 1])  BY <1>7
  <2>6. \A i \in 1 .. k : i \in 1 .. n  BY <2>1
  <2>7. PortsAre(tracks, k, iter[1 .. k])  BY <1>5, <2>1, <2>4, <2>5, <2>6, PortsGrow
  <2>8. k \in 0 .. n  BY <1>1
  <2> QED BY <2>7, <2>8
<1>8. PortsAre(tracks, n, Ports(tracks))
  <2>1. Good = {k \in 0 .. n : PortsAre(tracks, k, iter[1 .. k])}  OBVIOUS
  <2> HIDE DEF Good
  <2>2. \A k \in 0 .. n : k \in Good  BY <1>1, <1>6, <1>7, UpTo
  <2>3. n \in Good  BY <1>1, <2>2
  <2> QED BY <1>1, <1>3, <2>1, <2>3
<1>9. DOMAIN Ports(tracks) = 1 .. n  BY <1>8, LenProperties DEF PortsAre
<1> QED BY <1>8, <1>9 DEF PortsAre, IsInjective

\* A reading is a sequence of what the catalog has.
LEMMA ReadingIs ==
  ASSUME NEW catalog, IsFiniteSet(catalog), NEW reading \in Readings(catalog)
  PROVE  reading \in Seq(catalog)
<1> DEFINE Of(kind) == {r \in catalog : r.kind = kind}
<1>1. ASSUME NEW kind PROVE SetToSeqs(Of(kind)) \subseteq Seq(catalog)
  <2>1. Of(kind) \subseteq catalog  OBVIOUS
  <2> HIDE DEF Of
  <2>2. Cardinality(Of(kind)) \in Nat  BY <2>1, FS_Subset, FS_CardinalityType
  <2>3. SetToSeqs(Of(kind)) \subseteq [1 .. Cardinality(Of(kind)) -> Of(kind)]  BY DEF SetToSeqs
  <2>4. \A f \in [1 .. Cardinality(Of(kind)) -> Of(kind)] :
          f \in [1 .. Cardinality(Of(kind)) -> catalog]
    BY <2>1
  <2> QED BY <2>2, <2>3, <2>4
<1>2. PICK v \in SetToSeqs(Of("video")), a \in SetToSeqs(Of("audio")), d \in SetToSeqs(Of("data")) :
        reading = v \o a \o d
  <2> DEFINE All == SetToSeqs(Of("video")) \X SetToSeqs(Of("audio")) \X SetToSeqs(Of("data"))
  <2>1. Readings(catalog) = {s[1] \o s[2] \o s[3] : s \in All}  BY DEF Readings
  <2> HIDE DEF All
  <2>2. PICK s \in All : reading = s[1] \o s[2] \o s[3]  BY <2>1
  <2> QED BY <2>2 DEF All
<1> HIDE DEF Of
<1>3. v \in Seq(catalog) /\ a \in Seq(catalog) /\ d \in Seq(catalog)  BY <1>1, <1>2
<1>4. v \o a \in Seq(catalog)  BY <1>3, ConcatProperties
<1>5. (v \o a) \o d \in Seq(catalog)  BY <1>3, <1>4, ConcatProperties
<1> QED BY <1>2, <1>5

\* What is related is of the relay.
LEMMA BroadcastIs == Spec => [](broadcast \in Broadcasts \cup {Nothing})
<1>1. Init => broadcast \in Broadcasts \cup {Nothing}  BY DEF Init
<1>2. broadcast \in Broadcasts \cup {Nothing} /\ [Next]_vars
        => (broadcast \in Broadcasts \cup {Nothing})'
  BY DEF Next, vars, Code, Host, Shape, Start, Dial, Announced, ReadCatalog, Relate, Related, Latch,
         Same, Register, Subscribed, Initialised, Resumed, Again, Pull, Yield, Wait, Burst, Spoilt,
         Reconnect, Settle, Frame, Finish, Break, Resubscribe, Answer, Drop, Spend, Publish
<1> QED BY <1>1, <1>2, PTL DEF Spec

\* Whatever the relay has and in whatever order it is listed, no two tracks of a
\* relation leave on one port, unless a name was written with the dash that numbers
\* them: `ports` numbers a port only where it has to, and by its place.  That the
\* decimals of two numbers differ is asked for, since `ToString` is not said to.
THEOREM ReaderPortsDistinct == Decimals => (Spec => []PortsDistinct)
<1> SUFFICES ASSUME Decimals PROVE Spec => []PortsDistinct  OBVIOUS
<1>1. broadcast \in Broadcasts \cup {Nothing} => PortsDistinct
  <2> SUFFICES ASSUME broadcast \in Broadcasts \cup {Nothing},
                      \A r \in broadcast.catalog : "-" \notin ToSet(r.name),
                      NEW reading \in Readings(broadcast.catalog)
               PROVE  IsInjective(Ports(reading))
    BY DEF PortsDistinct
  <2> DEFINE catalog == broadcast.catalog
  <2>1. IsFiniteSet(catalog) /\ \A r \in catalog : r.name \in Seq(STRING)
    <3>1. CASE broadcast \in Broadcasts  BY <3>1, CatalogAssumption
    <3>2. CASE broadcast = Nothing
      <4>1. catalog = {}  BY <3>2 DEF Nothing
      <4> HIDE DEF catalog
      <4> QED BY <4>1, FS_EmptySet
    <3> QED BY <3>1, <3>2
  <2>2. \A r \in catalog : "-" \notin ToSet(r.name)  OBVIOUS
  <2>3. reading \in Readings(catalog)  OBVIOUS
  <2> HIDE DEF catalog
  <2>4. reading \in Seq(catalog)  BY <2>1, <2>3, ReadingIs
  <2>5. \A i \in DOMAIN reading : reading[i] \in catalog  BY <2>4, LenProperties
  <2>6. \A i \in DOMAIN reading :
          reading[i].name \in Seq(STRING) /\ "-" \notin ToSet(reading[i].name)
    BY <2>1, <2>2, <2>5
  <2> QED BY <2>4, <2>6, PortsApart
<1> QED BY <1>1, BroadcastIs, PTL

-----------------------------------------------------------------------------
(* The names and the rows.  A name is a sequence of words, and two names   *)
(* are told apart by the word one of them begins or ends with.             *)

\* The words a name is made of, a number's among them.
Words == STRING \cup {".", "audio", "video", "data"} \cup {ToString(n) : n \in Nat}

\* Two parts more at the end of a name.
LEMMA TwoMore ==
  ASSUME NEW name \in Seq(Words), NEW a \in Words, NEW b \in Words
  PROVE  LET t == name \o <<a, b>>
         IN  /\ t \in Seq(Words) /\ Len(t) = Len(name) + 2 /\ Len(name) \in Nat
             /\ \A i \in 1 .. Len(name) : t[i] = name[i]
             /\ t[Len(name) + 1] = a /\ t[Len(name) + 2] = b
<1> DEFINE end == <<a, b>>
           t   == name \o end
<1>1. end \in Seq(Words) /\ Len(end) = 2 /\ end[1] = a /\ end[2] = b  OBVIOUS
<1> HIDE DEF end
<1>2. /\ t \in Seq(Words) /\ Len(t) = Len(name) + Len(end)
      /\ \A i \in 1 .. Len(name) + Len(end) :
           t[i] = IF i <= Len(name) THEN name[i] ELSE end[i - Len(name)]
  BY <1>1, ConcatProperties
<1> HIDE DEF t
<1>3. Len(name) \in Nat  BY LenProperties
<1>4. /\ Len(name) + 1 \in 1 .. Len(name) + 2 /\ ~(Len(name) + 1 <= Len(name))
      /\ Len(name) + 2 \in 1 .. Len(name) + 2 /\ ~(Len(name) + 2 <= Len(name))
      /\ Len(name) + 1 - Len(name) = 1 /\ Len(name) + 2 - Len(name) = 2
      /\ \A i \in 1 .. Len(name) : i \in 1 .. Len(name) + 2 /\ i <= Len(name)
  BY <1>3
<1>5. /\ \A i \in 1 .. Len(name) : t[i] = name[i]
      /\ t[Len(name) + 1] = a /\ t[Len(name) + 2] = b
  BY <1>1, <1>2, <1>4
<1> QED BY <1>1, <1>2, <1>3, <1>5 DEF t, end

\* The sound of a row has them from its picture's name.
LEMMA SuffixedIs ==
  ASSUME NEW name \in Seq(Words)
  PROVE  LET t == name \o AudioSuffix
         IN  /\ t \in Seq(Words) /\ Len(t) = Len(name) + 2 /\ Len(name) \in Nat
             /\ \A i \in 1 .. Len(name) : t[i] = name[i]
             /\ t[Len(name) + 1] = "." /\ t[Len(name) + 2] = "audio"
<1>1. "." \in Words /\ "audio" \in Words  BY DEF Words
<1> QED BY <1>1, TwoMore DEF AudioSuffix

\* ... and ends as no name is written.
LEMMA SuffixEnds ==
  ASSUME NEW name \in Seq(Words)
  PROVE  IsSuffix(AudioSuffix, name \o AudioSuffix)
<1> DEFINE t == name \o AudioSuffix
           n == Len(name)
           back == Reverse(t)
           end  == Reverse(AudioSuffix)
<1>1. /\ t \in Seq(Words) /\ Len(t) = n + 2 /\ n \in Nat
      /\ t[n + 1] = "." /\ t[n + 2] = "audio"
  BY SuffixedIs
<1>2. /\ end \in Seq(Words) /\ Len(end) = 2 /\ end[1] = "audio" /\ end[2] = "."
  <2>1. end = [i \in 1 .. 2 |-> AudioSuffix[(2 - i) + 1]]  BY DEF Reverse, AudioSuffix
  <2>2. AudioSuffix[1] = "." /\ AudioSuffix[2] = "audio"  BY DEF AudioSuffix
  <2>3. "." \in Words /\ "audio" \in Words  BY DEF Words
  <2>4. \A i \in 1 .. 2 : i = 1 \/ i = 2  OBVIOUS
  <2>5. end[1] = "audio" /\ end[2] = "."  BY <2>1, <2>2
  <2>6. end \in [1 .. 2 -> Words]  BY <2>1, <2>2, <2>3, <2>4
  <2> HIDE DEF end
  <2>7. end \in Seq(Words)
    <3>1. \E m \in Nat : end \in [1 .. m -> Words]  BY <2>6
    <3> QED BY <3>1
  <2>8. Len(end) = 2  BY <2>6, <2>7, LenProperties
  <2> QED BY <2>5, <2>7, <2>8
<1>3. /\ back \in Seq(Words) /\ Len(back) = n + 2 /\ back[1] = "audio" /\ back[2] = "."
  <2> HIDE DEF t
  <2>1. back = [i \in 1 .. n + 2 |-> t[(n + 2 - i) + 1]]  BY <1>1 DEF Reverse
  <2>2. \A i \in 1 .. n + 2 : (n + 2 - i) + 1 \in 1 .. Len(t)  BY <1>1
  <2>3. \A i \in 1 .. n + 2 : t[(n + 2 - i) + 1] \in Words  BY <1>1, <2>2, ElementOfSeq
  <2>4. back \in [1 .. n + 2 -> Words]  BY <2>1, <2>3
  <2>5. 1 \in 1 .. n + 2 /\ (n + 2 - 1) + 1 = n + 2 /\ 2 \in 1 .. n + 2 /\ (n + 2 - 2) + 1 = n + 1
    BY <1>1
  <2>6. back[1] = "audio" /\ back[2] = "."  BY <1>1, <2>1, <2>5
  <2>7. back \in Seq(Words)  BY <1>1, <2>4
  <2> HIDE DEF back
  <2> QED BY <1>1, <2>4, <2>6, <2>7
<1> HIDE DEF t, n, back, end
<1>4. SubSeq(end, 1, 2) \in Seq(Words) /\ Len(SubSeq(end, 1, 2)) = 2
      /\ \A i \in 1 .. 2 : SubSeq(end, 1, 2)[i] = end[i]
  <2>1. \A i \in 1 .. 2 : end[i] \in Words  BY <1>2, ElementOfSeq
  <2> QED BY <2>1, SubSeqProperties
<1>5. SubSeq(back, 1, 2) \in Seq(Words) /\ Len(SubSeq(back, 1, 2)) = 2
      /\ \A i \in 1 .. 2 : SubSeq(back, 1, 2)[i] = back[i]
  <2>1. \A i \in 1 .. 2 : i \in 1 .. Len(back)  BY <1>1, <1>3
  <2>2. \A i \in 1 .. 2 : back[i] \in Words  BY <1>3, <2>1, ElementOfSeq
  <2> QED BY <2>2, SubSeqProperties
<1>6. \A i \in 1 .. 2 : i = 1 \/ i = 2  OBVIOUS
<1>7. SubSeq(end, 1, 2) = SubSeq(back, 1, 2)
  BY <1>2, <1>3, <1>4, <1>5, <1>6, SeqEqual
<1>8. Len(end) <= Len(back)  BY <1>1, <1>2, <1>3
<1> QED BY <1>2, <1>7, <1>8 DEF IsSuffix, IsPrefix, t, end, back

\* What is taken off by it is the name.
LEMMA SuffixedApart ==
  ASSUME NEW a \in Seq(Words), NEW b \in Seq(Words), a \o AudioSuffix = b \o AudioSuffix
  PROVE  a = b
<1>1. AudioSuffix \in Seq(Words)
  <2>1. "." \in Words /\ "audio" \in Words  BY DEF Words
  <2> QED BY <2>1 DEF AudioSuffix
<1> QED BY <1>1, ConcatSimplifications

\* A name that begins with the word of a kind is not one that may be given.
LEMMA BaseBegins ==
  ASSUME NEW name \in Seq(Words), name # << >>, NEW kind \in DOMAIN Base, name[1] = kind
  PROVE  IsPrefix(Base[kind], name)
<1>1. kind \in {"video", "audio", "data"}  BY DEF Base
<1>2. Base[kind] = <<kind>>  BY <1>1 DEF Base
<1>3. kind \in Words  BY <1>1 DEF Words
<1>4. Len(name) \in Nat /\ Len(name) >= 1
  BY EmptySeq
<1>5. SubSeq(name, 1, 1) = <<kind>>
  <2>1. \A i \in 1 .. 1 : name[i] \in Words  BY <1>4, ElementOfSeq
  <2>2. /\ SubSeq(name, 1, 1) \in Seq(Words) /\ Len(SubSeq(name, 1, 1)) = 1
        /\ \A i \in 1 .. 1 : SubSeq(name, 1, 1)[i] = name[i]
    BY <2>1, SubSeqProperties
  <2>3. <<kind>> \in Seq(Words) /\ Len(<<kind>>) = 1 /\ <<kind>>[1] = kind  BY <1>3
  <2>4. \A i \in 1 .. 1 : i = 1  OBVIOUS
  <2> QED BY <2>2, <2>3, <2>4, SeqEqual
<1>6. SubSeq(<<kind>>, 1, 1) = <<kind>> /\ Len(<<kind>>) = 1
  <2>1. <<kind>> \in Seq(Words) /\ Len(<<kind>>) = 1  BY <1>3
  <2> QED BY <2>1, SubSeqFull
<1> QED BY <1>2, <1>4, <1>5, <1>6 DEF IsPrefix

\* A base before the rest of a name.
LEMMA BaseBefore ==
  ASSUME NEW word \in Words, NEW rest \in Seq(Words)
  PROVE  LET t == <<word>> \o rest
         IN  t \in Seq(Words) /\ t # << >> /\ t[1] = word
<1> DEFINE base == <<word>>
           t    == base \o rest
<1>1. base \in Seq(Words) /\ Len(base) = 1 /\ base[1] = word  OBVIOUS
<1> HIDE DEF base
<1>2. /\ t \in Seq(Words) /\ Len(t) = Len(base) + Len(rest)
      /\ \A i \in 1 .. Len(base) + Len(rest) :
           t[i] = IF i <= Len(base) THEN base[i] ELSE rest[i - Len(base)]
  BY <1>1, ConcatProperties
<1>3. Len(rest) \in Nat  BY LenProperties
<1> HIDE DEF t
<1>4. 1 \in 1 .. 1 + Len(rest)  BY <1>3
<1>5. t[1] = word  BY <1>1, <1>2, <1>4
<1>6. t # << >>
  <2>1. Len(t) # 0  BY <1>1, <1>2, <1>3
  <2> QED BY <2>1
<1> QED BY <1>2, <1>5, <1>6 DEF t, base

\* Two pads of a kind that have no name are counted apart.
LEMMA NthIs ==
  ASSUME NEW pads \in Seq(PadType), NEW p \in DOMAIN pads, pads[p].name = None
  PROVE  /\ Nth(pads, p) \in Nat \ {0}
         /\ \A q \in DOMAIN pads :
              pads[q].name = None /\ pads[q].kind = pads[p].kind /\ q # p =>
                Nth(pads, q) # Nth(pads, p)
<1> DEFINE all == Unnamed(pads, pads[p].kind)
           UpToIs(q) == {r \in all : r <= q}
<1>1. DOMAIN pads = 1 .. Len(pads) /\ Len(pads) \in Nat  BY LenProperties
<1>2. all \subseteq 1 .. Len(pads)  BY <1>1 DEF Unnamed
<1>3. \A q \in all : q \in 1 .. Len(pads)  BY <1>2
<1>4. p \in all /\ \A q \in DOMAIN pads :
        pads[q].name = None /\ pads[q].kind = pads[p].kind =>
          q \in all /\ Nth(pads, q) = Cardinality(UpToIs(q))
  BY DEF Unnamed, Nth
<1> HIDE DEF all
<1>5. ASSUME NEW q \in all
      PROVE  IsFiniteSet(UpToIs(q)) /\ Cardinality(UpToIs(q)) \in Nat \ {0}
  <2>1. IsFiniteSet(1 .. Len(pads))  BY <1>1, FS_Interval
  <2>2. UpToIs(q) \in SUBSET (1 .. Len(pads))  BY <1>2
  <2>3. q \in UpToIs(q)  BY <1>1, <1>3
  <2> HIDE DEF UpToIs
  <2>4. IsFiniteSet(UpToIs(q))  BY <2>1, <2>2, FS_Subset
  <2>5. Cardinality(UpToIs(q)) \in Nat /\ Cardinality(UpToIs(q)) # 0
    BY <2>3, <2>4, FS_CardinalityType, FS_EmptySet
  <2> QED BY <2>4, <2>5
<1>6. ASSUME NEW q \in all, NEW r \in all, q < r
      PROVE  Cardinality(UpToIs(q)) # Cardinality(UpToIs(r))
  <2>1. r \in UpToIs(r) /\ r \notin UpToIs(q) /\ UpToIs(q) \in SUBSET UpToIs(r)
    BY <1>1, <1>3, <1>6
  <2>2. IsFiniteSet(UpToIs(r))  BY <1>5
  <2> HIDE DEF UpToIs
  <2> QED BY <2>1, <2>2, FS_Subset
<1> HIDE DEF UpToIs
<1>7. Nth(pads, p) = Cardinality(UpToIs(p))  BY <1>4
<1>8. ASSUME NEW q \in DOMAIN pads, pads[q].name = None, pads[q].kind = pads[p].kind, q # p
      PROVE  Nth(pads, q) # Nth(pads, p)
  <2>1. q \in all /\ Nth(pads, q) = Cardinality(UpToIs(q))  BY <1>4, <1>8
  <2>2. q < p \/ p < q  BY <1>1, <1>8
  <2> QED BY <1>4, <1>6, <1>7, <2>1, <2>2
<1> QED BY <1>4, <1>5, <1>7, <1>8

\* The kinds of track, each the word its fallback names begin with.
Kinds == {"video", "audio", "data"}

\* What a pad is.
LEMMA PadIs ==
  ASSUME NEW pads \in Seq(PadType), NEW p \in DOMAIN pads
  PROVE  /\ pads[p].kind \in Kinds /\ pads[p].row \in Nat /\ pads[p].height \in Nat
         /\ pads[p].name # None => pads[p].name \in Seq(Words)
<1>1. p \in 1 .. Len(pads)  BY LenProperties
<1>2. pads[p] \in PadType  BY <1>1, ElementOfSeq
<1>3. /\ pads[p].kind \in Kinds /\ pads[p].row \in Nat /\ pads[p].height \in Nat
      /\ pads[p].name \in {None} \cup Seq(STRING)
  BY <1>2 DEF PadType, Kinds
<1>4. \A name \in Seq(STRING) : name \in Seq(Words)
  <2>1. STRING \subseteq Words  BY DEF Words
  <2> QED BY <2>1, SeqMonotonic
<1> QED BY <1>3, <1>4

\* The parts of a fallback name are words.
LEMMA WordIs ==
  /\ \A n \in Nat : ToString(n) \in Words
  /\ "." \in Words /\ "audio" \in Words /\ Kinds \subseteq Words
BY DEF Words, Kinds

\* What a pad without a name has behind the word of its kind.
Rest(pads, p) ==
  IF pads[p].kind = "video"
  THEN LET others == Unnamed(pads, "video") \ {p}
           Shared == \E q \in others : pads[q].height = pads[p].height
       IN  IF others = {} THEN << >>
           ELSE <<".", ToString(pads[p].height)>> \o
                  IF Shared THEN <<".", ToString(Nth(pads, p) - 1)>> ELSE << >>
  ELSE IF Nth(pads, p) = 1 THEN << >> ELSE <<".", ToString(Nth(pads, p) - 1)>>

\* A pad without a name goes by the word of its kind, and what is behind it.
LEMMA FallbackIs ==
  ASSUME NEW pads \in Seq(PadType), NEW p \in DOMAIN pads, pads[p].name = None
  PROVE  /\ TrackName(pads, p) = <<pads[p].kind>> \o Rest(pads, p)
         /\ Rest(pads, p) \in Seq(Words)
         /\ TrackName(pads, p) \in Seq(Words) /\ TrackName(pads, p) # << >>
         /\ TrackName(pads, p)[1] = pads[p].kind
<1> DEFINE kind == pads[p].kind
           rest == Rest(pads, p)
           here == ToString(Nth(pads, p) - 1)
<1>1. kind \in Kinds  BY PadIs
<1>2. Base[kind] = <<kind>> /\ Base.video = <<"video">>  BY <1>1 DEF Base, Kinds
<1>3. TrackName(pads, p) = <<kind>> \o rest
  BY <1>2 DEF TrackName, FallbackName, HeightName, Numbered, Rest
<1>4. here \in Words
  <2>1. PICK n \in Nat : n = Nth(pads, p) - 1  BY NthIs
  <2> QED BY <2>1, WordIs
<1>5. <<".", here>> \in Seq(Words) /\ << >> \in Seq(Words)  BY <1>4, WordIs
<1>6. rest \in Seq(Words)
  <2> DEFINE tail == <<".", ToString(pads[p].height)>>
  <2>1. tail \in Seq(Words)  BY WordIs, PadIs
  <2>2. tail \o <<".", here>> \in Seq(Words) /\ tail \o << >> \in Seq(Words)
    BY <1>5, <2>1, ConcatProperties
  <2> HIDE DEF tail
  <2>3. rest \in {<< >>, <<".", here>>, tail \o <<".", here>>, tail \o << >>}  BY DEF Rest, tail
  <2> QED BY <1>5, <2>2, <2>3
<1>7. kind \in Words  BY <1>1, WordIs
<1> HIDE DEF rest, kind
<1>8. <<kind>> \o rest \in Seq(Words) /\ <<kind>> \o rest # << >> /\ (<<kind>> \o rest)[1] = kind
  BY <1>6, <1>7, BaseBefore
<1> QED BY <1>3, <1>6, <1>8 DEF rest, kind

\* The second of two parts stays in its place before others.
LEMMA SecondStays ==
  ASSUME NEW s \in Seq(Words), NEW t \in Seq(Words), Len(s) = 2
  PROVE  (s \o t)[2] = s[2]
<1>1. \A i \in 1 .. Len(s) + Len(t) : (s \o t)[i] = IF i <= Len(s) THEN s[i] ELSE t[i - Len(s)]
  BY ConcatProperties
<1>2. Len(t) \in Nat  BY LenProperties
<1>3. 2 \in 1 .. Len(s) + Len(t) /\ 2 <= Len(s)  BY <1>2
<1> QED BY <1>1, <1>3

\* No two of a kind have the same behind it: either they have two heights or two
\* places.
LEMMA FallbacksApart ==
  ASSUME Decimals, NEW pads \in Seq(PadType), NEW p \in DOMAIN pads, NEW q \in DOMAIN pads,
         pads[p].name = None, pads[q].name = None, pads[p].kind = pads[q].kind, p # q
  PROVE  Rest(pads, p) # Rest(pads, q)
<1> DEFINE here  == ToString(Nth(pads, p) - 1)
           there == ToString(Nth(pads, q) - 1)
<1>1. here # there /\ here \in Words /\ there \in Words
  <2>1. PICK m \in Nat : m = Nth(pads, p) - 1  BY NthIs
  <2>2. PICK n \in Nat : n = Nth(pads, q) - 1  BY NthIs
  <2>3. Nth(pads, p) # Nth(pads, q) /\ Nth(pads, p) \in Nat /\ Nth(pads, q) \in Nat  BY NthIs
  <2>4. m # n  BY <2>1, <2>2, <2>3
  <2> QED BY <2>1, <2>2, <2>4, WordIs DEF Decimals
<1>2. CASE pads[p].kind # "video"
  <2>1. Nth(pads, p) # Nth(pads, q)  BY NthIs
  <2>2. Rest(pads, p) = IF Nth(pads, p) = 1 THEN << >> ELSE <<".", here>>  BY <1>2 DEF Rest
  <2>3. Rest(pads, q) = IF Nth(pads, q) = 1 THEN << >> ELSE <<".", there>>  BY <1>2 DEF Rest
  <2> HIDE DEF here, there
  <2>4. <<".", here>> # <<".", there>> /\ <<".", here>> # << >> /\ <<".", there>> # << >>  BY <1>1
  <2> QED BY <2>1, <2>2, <2>3, <2>4
<1>3. CASE pads[p].kind = "video"
  <2> DEFINE high(r)   == <<".", ToString(pads[r].height)>>
             others(r) == Unnamed(pads, "video") \ {r}
             Shared(r) == \E s \in others(r) : pads[s].height = pads[r].height
             place(r)  == IF Shared(r) THEN <<".", ToString(Nth(pads, r) - 1)>> ELSE << >>
  <2>1. q \in others(p) /\ p \in others(q)  BY <1>3 DEF Unnamed
  <2>2. Rest(pads, p) = high(p) \o place(p) /\ Rest(pads, q) = high(q) \o place(q)
    BY <1>3, <2>1 DEF Rest
  <2>3. ASSUME NEW r \in {p, q}
        PROVE  high(r) \in Seq(Words) /\ Len(high(r)) = 2 /\ high(r)[2] = ToString(pads[r].height)
    BY WordIs, PadIs
  <2>4. place(p) \in Seq(Words) /\ place(q) \in Seq(Words)  BY <1>1, WordIs
  <2> SUFFICES ASSUME high(p) \o place(p) = high(q) \o place(q) PROVE FALSE  BY <2>2
  <2>5. ASSUME NEW r \in {p, q} PROVE (high(r) \o place(r))[2] = ToString(pads[r].height)
    <3>1. high(r) \in Seq(Words) /\ Len(high(r)) = 2 /\ place(r) \in Seq(Words)  BY <2>3, <2>4
    <3> HIDE DEF high, place
    <3>2. (high(r) \o place(r))[2] = high(r)[2]  BY <3>1, SecondStays
    <3> QED BY <2>3, <3>2
  <2>6. ToString(pads[p].height) = ToString(pads[q].height)  BY <2>5
  <2>7. pads[p].height = pads[q].height  BY <2>6, PadIs DEF Decimals
  <2>8. high(p) = high(q)  BY <2>7
  <2>9. place(p) = <<".", here>> /\ place(q) = <<".", there>>  BY <2>1, <2>7
  <2> HIDE DEF high, place, here, there
  <2>10. place(p) = place(q)
    <3>1. high(p) \o place(p) = high(p) \o place(q)  BY <2>8
    <3> QED BY <2>3, <2>4, <3>1, ConcatSimplifications
  <2> QED BY <1>1, <2>9, <2>10
<1> QED BY <1>2, <1>3

\* What the names of a publication are, pad by pad.
LEMMA NamedIs ==
  ASSUME NEW pads \in Seq(PadType), Named(pads), NEW p \in DOMAIN pads, pads[p].name # None
  PROVE  /\ ~IsSuffix(AudioSuffix, pads[p].name)
         /\ pads[p].name # << >> => pads[p].name[1] \notin Kinds
         /\ \A q \in DOMAIN pads : pads[q].name # None /\ q # p =>
              (pads[p].name = pads[q].name <=>
                 /\ pads[p].kind # "data" /\ pads[q].kind # "data"
                 /\ pads[p].row = pads[q].row)
<1> DEFINE media == {r \in DOMAIN pads : pads[r].kind # "data"}
           Owner(r) == IF r \in media THEN <<"row", pads[r].row>> ELSE <<"pad", r>>
<1>1. ~IsSuffix(AudioSuffix, pads[p].name)  BY DEF Named
<1>2. ASSUME pads[p].name # << >> PROVE pads[p].name[1] \notin Kinds
  <2> SUFFICES ASSUME pads[p].name[1] \in Kinds PROVE FALSE  OBVIOUS
  <2>1. PICK kind \in Kinds : pads[p].name[1] = kind  OBVIOUS
  <2>2. kind \in DOMAIN Base  BY <2>1 DEF Base, Kinds
  <2>3. ~IsPrefix(Base[kind], pads[p].name)  BY <2>2 DEF Named
  <2>4. pads[p].name \in Seq(Words)  BY PadIs
  <2> QED BY <1>2, <2>1, <2>2, <2>3, <2>4, BaseBegins
<1>3. ASSUME NEW q \in DOMAIN pads, pads[q].name # None, q # p
      PROVE  pads[p].name = pads[q].name <=>
               /\ pads[p].kind # "data" /\ pads[q].kind # "data"
               /\ pads[p].row = pads[q].row
  <2>1. pads[p].name = pads[q].name <=> Owner(p) = Owner(q)  BY <1>3 DEF Named
  <2>2. CASE p \in media /\ q \in media
    <3>1. Owner(p) = Owner(q) <=> pads[p].row = pads[q].row  BY <2>2
    <3> QED BY <2>1, <2>2, <3>1
  <2>3. CASE p \notin media \/ q \notin media
    <3>1. Owner(p) # Owner(q)  BY <1>3, <2>3
    <3> QED BY <2>1, <2>3, <3>1
  <2> QED BY <2>2, <2>3
<1> QED BY <1>1, <1>2, <1>3

\* A sound of a row that has a picture.
Suffixed(pads, p) == pads[p].kind = "audio" /\ WithPicture(pads, p)

\* A track goes by the name of its pad, which no fallback begins like.
LEMMA WrittenIs ==
  ASSUME NEW pads \in Seq(PadType), Named(pads), NEW p \in DOMAIN pads, pads[p].name # None
  PROVE  /\ pads[p].name \in Seq(Words)
         /\ TrackName(pads, p) =
              IF Suffixed(pads, p) THEN pads[p].name \o AudioSuffix ELSE pads[p].name
         /\ TrackName(pads, p) \in Seq(Words)
         /\ TrackName(pads, p) # << >> => TrackName(pads, p)[1] \notin Kinds
<1> DEFINE name == pads[p].name
<1>1. name \in Seq(Words)  BY PadIs
<1>2. TrackName(pads, p) = IF Suffixed(pads, p) THEN name \o AudioSuffix ELSE name
  <2>1. name \o << >> = name  BY <1>1, ConcatEmptySeq
  <2> QED BY <2>1 DEF TrackName, Suffixed
<1>3. name # << >> => name[1] \notin Kinds  BY NamedIs
<1>4. /\ name \o AudioSuffix \in Seq(Words)
      /\ (name \o AudioSuffix)[1] \notin Kinds
  <2>1. /\ name \o AudioSuffix \in Seq(Words) /\ Len(name) \in Nat
        /\ \A i \in 1 .. Len(name) : (name \o AudioSuffix)[i] = name[i]
        /\ (name \o AudioSuffix)[Len(name) + 1] = "."
    BY <1>1, SuffixedIs
  <2> HIDE DEF name
  <2>2. CASE name = << >>
    <3>1. Len(name) + 1 = 1  BY <2>2
    <3>2. (name \o AudioSuffix)[1] = "."  BY <2>1, <3>1
    <3> QED BY <2>1, <3>2 DEF Kinds
  <2>3. CASE name # << >>
    <3>1. 1 \in 1 .. Len(name)  BY <1>1, <2>3, EmptySeq
    <3> QED BY <1>3, <2>1, <2>3, <3>1
  <2> QED BY <2>2, <2>3
<1> QED BY <1>1, <1>2, <1>3, <1>4

\* Each pad has a name of its own.
LEMMA NamesApart ==
  ASSUME Decimals, NEW pads \in Seq(PadType), Named(pads),
         NEW p \in DOMAIN pads, NEW q \in DOMAIN pads, p # q
  PROVE  TrackName(pads, p) # TrackName(pads, q)
<1> DEFINE Given(r) == pads[r].name # None
<1>1. ASSUME NEW r \in DOMAIN pads, NEW s \in DOMAIN pads, Given(r), ~Given(s)
      PROVE  TrackName(pads, r) # TrackName(pads, s)
  <2>1. TrackName(pads, r) # << >> => TrackName(pads, r)[1] \notin Kinds  BY <1>1, WrittenIs
  <2>2. TrackName(pads, s) # << >> /\ TrackName(pads, s)[1] \in Kinds
    BY <1>1, FallbackIs, PadIs
  <2> QED BY <2>1, <2>2
<1>2. CASE Given(p) /\ ~Given(q)  BY <1>1, <1>2
<1>3. CASE ~Given(p) /\ Given(q)  BY <1>1, <1>3
<1>4. CASE ~Given(p) /\ ~Given(q)
  <2>1. /\ TrackName(pads, p) = <<pads[p].kind>> \o Rest(pads, p)
        /\ TrackName(pads, p)[1] = pads[p].kind /\ Rest(pads, p) \in Seq(Words)
    BY <1>4, FallbackIs
  <2>2. /\ TrackName(pads, q) = <<pads[q].kind>> \o Rest(pads, q)
        /\ TrackName(pads, q)[1] = pads[q].kind /\ Rest(pads, q) \in Seq(Words)
    BY <1>4, FallbackIs
  <2>3. CASE pads[p].kind # pads[q].kind  BY <2>1, <2>2, <2>3
  <2>4. CASE pads[p].kind = pads[q].kind
    <3> DEFINE word == <<pads[p].kind>>
    <3>1. Rest(pads, p) # Rest(pads, q)  BY <1>4, <2>4, FallbacksApart
    <3>2. word \in Seq(Words)  BY PadIs, WordIs
    <3>3. TrackName(pads, p) = word \o Rest(pads, p) /\ TrackName(pads, q) = word \o Rest(pads, q)
      BY <2>1, <2>2, <2>4
    <3> HIDE DEF word
    <3> QED BY <2>1, <2>2, <3>1, <3>2, <3>3, ConcatSimplifications
  <2> QED BY <2>3, <2>4
<1>5. CASE Given(p) /\ Given(q)
  <2> DEFINE a == pads[p].name
             b == pads[q].name
  <2>1. /\ a \in Seq(Words) /\ ~IsSuffix(AudioSuffix, a)
        /\ TrackName(pads, p) = IF Suffixed(pads, p) THEN a \o AudioSuffix ELSE a
    BY <1>5, WrittenIs, NamedIs
  <2>2. /\ b \in Seq(Words) /\ ~IsSuffix(AudioSuffix, b)
        /\ TrackName(pads, q) = IF Suffixed(pads, q) THEN b \o AudioSuffix ELSE b
    BY <1>5, WrittenIs, NamedIs
  <2>3. a # b \o AudioSuffix /\ b # a \o AudioSuffix  BY <2>1, <2>2, SuffixEnds
  <2>4. a # b => a \o AudioSuffix # b \o AudioSuffix  BY <2>1, <2>2, SuffixedApart
  <2>5. a = b => (Suffixed(pads, p) <=> ~Suffixed(pads, q))
    <3> SUFFICES ASSUME a = b PROVE Suffixed(pads, p) <=> ~Suffixed(pads, q)  OBVIOUS
    <3>1. pads[p].kind # "data" /\ pads[q].kind # "data" /\ pads[p].row = pads[q].row
      BY <1>5, NamedIs
    <3>2. pads[p].kind # pads[q].kind  BY <3>1 DEF Named
    <3>3. pads[p].kind \in {"video", "audio"} /\ pads[q].kind \in {"video", "audio"}
      BY <3>1, PadIs DEF Kinds
    <3> QED BY <3>1, <3>2, <3>3 DEF Suffixed, WithPicture
  <2> HIDE DEF a, b
  <2> QED BY <2>1, <2>2, <2>3, <2>4, <2>5
<1> QED BY <1>2, <1>3, <1>4, <1>5

\* The sounds that are named after a picture are those of its row.
LEMMA PairIs ==
  ASSUME Decimals, NEW pads \in Seq(PadType), Named(pads),
         NEW p \in DOMAIN pads, NEW q \in DOMAIN pads,
         pads[p].kind = "audio", pads[q].kind = "video"
  PROVE  TrackName(pads, p) = TrackName(pads, q) \o AudioSuffix <=> pads[p].row = pads[q].row
<1> DEFINE here  == TrackName(pads, p)
           there == TrackName(pads, q)
<1>1. ASSUME pads[p].row = pads[q].row PROVE here = there \o AudioSuffix
  <2>1. pads[p].name # None /\ pads[q].name # None  BY <1>1 DEF Named
  <2>2. pads[p].name = pads[q].name  BY <1>1, <2>1, NamedIs
  <2>3. Suffixed(pads, p) /\ ~Suffixed(pads, q)  BY <1>1 DEF Suffixed, WithPicture
  <2> QED BY <2>1, <2>2, <2>3, WrittenIs
<1>2. ASSUME here = there \o AudioSuffix PROVE pads[p].row = pads[q].row
  <2>1. there \in Seq(Words)
    BY FallbackIs, WrittenIs
  <2>2. /\ Len(here) = Len(there) + 2 /\ Len(there) \in Nat
        /\ \A i \in 1 .. Len(there) : here[i] = there[i]
        /\ here[Len(there) + 1] = "."
    BY <1>2, <2>1, SuffixedIs
  <2>3. IsSuffix(AudioSuffix, here)  BY <1>2, <2>1, SuffixEnds
  <2>4. ~Suffixed(pads, q)  BY DEF Suffixed
  <2>5. CASE pads[p].name = None
    <3>1. here # << >> /\ here[1] = "audio"  BY <2>5, FallbackIs
    <3>2. there # << >>
      <4> SUFFICES ASSUME there = << >> PROVE FALSE  OBVIOUS
      <4>1. Len(there) = 0  OBVIOUS
      <4>2. here[1] = "."  BY <2>2, <4>1
      <4> QED BY <3>1, <4>2
    <3>3. there[1] = "audio"
      <4>1. 1 \in 1 .. Len(there)  BY <2>1, <3>2, EmptySeq
      <4> QED BY <2>2, <3>1, <4>1
    <3>4. CASE pads[q].name = None  BY <3>3, <3>4, FallbackIs
    <3>5. CASE pads[q].name # None  BY <3>2, <3>3, <3>5, WrittenIs DEF Kinds
    <3> QED BY <3>4, <3>5
  <2>6. CASE pads[p].name # None
    <3>1. Suffixed(pads, p)  BY <2>3, <2>6, WrittenIs, NamedIs
    <3>2. pads[p].name \in Seq(Words) /\ here = pads[p].name \o AudioSuffix
      BY <2>6, <3>1, WrittenIs
    <3>3. pads[p].name = there  BY <1>2, <2>1, <3>2, SuffixedApart
    <3>4. pads[q].name # None
      <4> SUFFICES ASSUME pads[q].name = None PROVE FALSE  OBVIOUS
      <4>1. there # << >> /\ there[1] \in Kinds  BY FallbackIs, PadIs
      <4> QED BY <2>6, <3>3, <4>1, NamedIs
    <3>5. there = pads[q].name  BY <2>4, <3>4, WrittenIs
    <3> QED BY <2>6, <3>3, <3>4, <3>5, NamedIs
  <2> QED BY <2>5, <2>6
<1> QED BY <1>1, <1>2

-----------------------------------------------------------------------------
(* The rows are, as the ports, a fold: of Placed over the renditions.      *)

\* What the renditions in s are placed on, by that of all but the last of them.
PlacedBy(reading, iter, s) ==
  IF s = {} THEN << >> ELSE Placed(iter[s \ {Max(s)}], reading[Max(s)])

\* iter is the fold, by the sets of renditions that are placed.
IsPlaced(reading, iter) ==
  iter = [s \in SUBSET DOMAIN reading |-> PlacedBy(reading, iter, s)]

\* The rows are what the fold comes to, if there is one.
LEMMA RowsIs ==
  ASSUME NEW reading, NEW some, IsPlaced(reading, some)
  PROVE  \E iter : IsPlaced(reading, iter) /\ Rows(reading) = iter[DOMAIN reading]
<1> DEFINE iter == CHOOSE f : IsPlaced(reading, f)
<1>1. IsPlaced(reading, iter)  OBVIOUS
<1>2. Rows(reading) = iter[DOMAIN reading]
  BY DEF Rows, FoldLeft, MapThenFoldSet, IsPlaced, PlacedBy
<1> QED BY <1>1, <1>2

\* There is one, built up a rendition at a time.
LEMMA RowsExist ==
  ASSUME NEW S, NEW reading \in Seq(S)
  PROVE  \E iter : IsPlaced(reading, iter)
<1> DEFINE n == Len(reading)
           Solves(iter, k) ==
             \A s \in SUBSET (1 .. k) : iter[s] = PlacedBy(reading, iter, s)
           Good == {k \in 0 .. n : \E iter : Solves(iter, k)}
<1>1. n \in Nat /\ DOMAIN reading = 1 .. n  BY LenProperties
<1>2. 0 \in Good
  <2> DEFINE iter == [s \in {{}} |-> << >>]
  <2>1. \A s \in SUBSET (1 .. 0) : s = {}  OBVIOUS
  <2>2. Solves(iter, 0)  BY <2>1 DEF PlacedBy
  <2> HIDE DEF iter, Solves
  <2> QED BY <1>1, <2>2
<1>3. ASSUME NEW k \in 1 .. n, k - 1 \in Good PROVE k \in Good
  <2>1. PICK f : Solves(f, k - 1)  BY <1>3
  <2> DEFINE g == [s \in SUBSET (1 .. k) |->
                     IF k \in s THEN Placed(f[s \ {k}], reading[k]) ELSE f[s]]
  <2>2. ASSUME NEW s \in SUBSET (1 .. k) PROVE g[s] = PlacedBy(reading, g, s)
    <3>1. k \in Nat  BY <1>1
    <3>2. CASE k \in s
      <4>1. Max(s) = k /\ s # {}  BY <3>1, <3>2, MaxIs
      <4>2. s \ {k} \in SUBSET (1 .. k) /\ k \notin s \ {k}  OBVIOUS
      <4>3. g[s \ {k}] = f[s \ {k}]  BY <4>2
      <4>4. g[s] = Placed(f[s \ {k}], reading[k])  BY <3>2
      <4> HIDE DEF g
      <4> QED BY <4>1, <4>3, <4>4 DEF PlacedBy
    <3>3. CASE k \notin s
      <4>1. s \in SUBSET (1 .. k - 1)  BY <3>1, <3>3
      <4>2. f[s] = PlacedBy(reading, f, s)  BY <2>1, <4>1
      <4>3. g[s] = f[s]  BY <3>3
      <4>4. s \ {Max(s)} \in SUBSET (1 .. k) /\ k \notin s \ {Max(s)}  BY <3>3
      <4>5. g[s \ {Max(s)}] = f[s \ {Max(s)}]  BY <4>4
      <4> HIDE DEF g
      <4> QED BY <4>2, <4>3, <4>5 DEF PlacedBy
    <3> QED BY <3>2, <3>3
  <2> HIDE DEF g
  <2>3. Solves(g, k)  BY <2>2
  <2> HIDE DEF Solves
  <2> QED BY <1>1, <2>3
<1>4. n \in Good
  <2> HIDE DEF Good
  <2>1. \A k \in 0 .. n : k \in Good  BY <1>1, <1>2, <1>3, UpTo
  <2> QED BY <1>1, <2>1
<1>5. PICK f : Solves(f, n)  BY <1>4
<1> DEFINE g == [s \in SUBSET (1 .. n) |-> f[s]]
<1>6. ASSUME NEW s \in SUBSET (1 .. n) PROVE f[s] = PlacedBy(reading, g, s)
  <2>1. f[s] = PlacedBy(reading, f, s)  BY <1>5
  <2>2. s \ {Max(s)} \in SUBSET (1 .. n)  OBVIOUS
  <2>3. g[s \ {Max(s)}] = f[s \ {Max(s)}]  BY <2>2
  <2> HIDE DEF g
  <2> QED BY <2>1, <2>3 DEF PlacedBy
<1>7. g = [s \in SUBSET DOMAIN reading |-> PlacedBy(reading, g, s)]  BY <1>1, <1>6
<1> HIDE DEF g
<1> QED BY <1>7 DEF IsPlaced

\* The rows are given one rendition after another.
LEMMA RowsStepwise ==
  ASSUME NEW S, NEW reading \in Seq(S)
  PROVE  \E upto : /\ upto[0] = << >> /\ Rows(reading) = upto[Len(reading)]
                   /\ \A k \in 1 .. Len(reading) : upto[k] = Placed(upto[k - 1], reading[k])
<1> DEFINE n == Len(reading)
<1>1. n \in Nat /\ DOMAIN reading = 1 .. n  BY LenProperties
<1>2. PICK some : IsPlaced(reading, some)  BY RowsExist
<1>3. PICK iter : IsPlaced(reading, iter) /\ Rows(reading) = iter[DOMAIN reading]
  BY <1>2, RowsIs
<1>4. \A s \in SUBSET (1 .. n) : iter[s] = PlacedBy(reading, iter, s)
  <2>1. iter = [s \in SUBSET (1 .. n) |-> PlacedBy(reading, iter, s)]  BY <1>1, <1>3 DEF IsPlaced
  <2> QED BY <2>1
<1> DEFINE upto == [k \in 0 .. n |-> iter[1 .. k]]
<1>5. upto[0] = << >>
  <2>1. 1 .. 0 = {} /\ 0 \in 0 .. n  BY <1>1
  <2>2. iter[1 .. 0] = << >>  BY <1>4, <2>1 DEF PlacedBy
  <2> QED BY <2>1, <2>2
<1>6. Rows(reading) = upto[n]
  <2>1. n \in 0 .. n  BY <1>1
  <2> QED BY <1>1, <1>3, <2>1
<1>7. ASSUME NEW k \in 1 .. n PROVE upto[k] = Placed(upto[k - 1], reading[k])
  <2>1. k \in Nat \ {0} /\ 1 .. k \subseteq 1 .. n /\ k \in 1 .. k /\ 1 .. k # {}  BY <1>1
  <2>2. (1 .. k) \ {k} = 1 .. k - 1  BY <2>1
  <2>3. Max(1 .. k) = k  BY <2>1, MaxIs
  <2>4. iter[1 .. k] = Placed(iter[1 .. k - 1], reading[k])
    BY <1>4, <2>1, <2>2, <2>3 DEF PlacedBy
  <2>5. k \in 0 .. n /\ k - 1 \in 0 .. n  BY <1>1
  <2>6. upto[k] = iter[1 .. k] /\ upto[k - 1] = iter[1 .. k - 1]  BY <2>5
  <2> QED BY <2>4, <2>6
<1> HIDE DEF upto
<1> QED BY <1>5, <1>6, <1>7

\* A rendition of a relation this package published, and one on its row.
RenditionType == [name : Seq(Words), kind : Kinds, packaging : {"cmaf", "legacy"}]
PlacedType    == [name : Seq(Words), kind : Kinds, packaging : {"cmaf", "legacy"}, row : Nat]

\* Rendition j is the sound that is named after the picture i.
SoundOf(reading, j, i) ==
  /\ reading[i].kind = "video" /\ reading[j].kind = "audio"
  /\ reading[j].name = reading[i].name \o AudioSuffix

\* The media of the first k renditions.
MediaTo(reading, k) == {i \in 1 .. k : reading[i].kind # "data"}

\* The first k renditions on their rows: the media have the first rows, with none left
\* out, and two of them are on one row only as a sound on that of its picture.
RowsAre(reading, k, placed) ==
  /\ placed \in Seq(PlacedType) /\ Len(placed) = k
  /\ \A i \in 1 .. k : /\ placed[i].name = reading[i].name
                       /\ placed[i].kind = reading[i].kind
                       /\ placed[i].packaging = reading[i].packaging
  /\ \E n \in Nat : {placed[i].row : i \in MediaTo(reading, k)} = 0 .. n - 1
  /\ \A i, j \in MediaTo(reading, k) :
       i < j => (placed[i].row = placed[j].row <=> SoundOf(reading, j, i))

\* A relation this package published: its media are in cmaf, each under a name of its own.
Ours(reading) ==
  /\ reading \in Seq(RenditionType)
  /\ \A i \in 1 .. Len(reading) : reading[i].kind # "data" => reading[i].packaging = "cmaf"
  /\ \A i, j \in 1 .. Len(reading) : reading[i].name = reading[j].name => i = j

\* The least of some naturals.
LEMMA MinIs ==
  ASSUME NEW S, S \subseteq Nat, S # {}
  PROVE  Min(S) \in S /\ \A x \in S : Min(S) <= x
<1>1. PICK n \in S : \A m \in S : n <= m  BY LeastNumber
<1> QED BY <1>1 DEF Min

\* Where the next rendition is placed.
LEMMA RowChosen ==
  ASSUME NEW reading, Ours(reading), NEW k \in 1 .. Len(reading), NEW placed,
         RowsAre(reading, k - 1, placed),
         NEW n \in Nat, {placed[i].row : i \in MediaTo(reading, k - 1)} = 0 .. n - 1
  PROVE  \E row \in Nat :
           /\ Placed(placed, reading[k]) =
                Append(placed, [name |-> reading[k].name, kind |-> reading[k].kind,
                                packaging |-> reading[k].packaging, row |-> row])
           /\ \/ reading[k].kind = "data"
              \/ \E i \in MediaTo(reading, k - 1) : SoundOf(reading, k, i) /\ row = placed[i].row
              \/ /\ \A i \in MediaTo(reading, k - 1) : ~SoundOf(reading, k, i)
                 /\ row = n
<1> DEFINE r         == reading[k]
           Of(kind)  == {e \in ToSet(placed) : e.kind = kind}
           paired    == {v.row : v \in {v \in Of("video") : r.name = v.name \o AudioSuffix}}
           programme == {v.row : v \in {v \in Of("video") : v.packaging = "legacy"}}
                          \ {a.row : a \in Of("audio")}
           next      == Cardinality({e.row : e \in Of("video") \cup Of("audio")})
           row       ==
             CASE r.kind = "data"                         -> 0
               [] r.kind = "audio" /\ paired # {}         -> Min(paired)
               [] r.kind = "audio" /\ paired = {}
                    /\ r.packaging = "legacy"
                    /\ programme # {}                     -> Min(programme)
               [] OTHER                                   -> next
<1>1. /\ placed \in Seq(PlacedType) /\ Len(placed) = k - 1
      /\ \A i \in 1 .. k - 1 : /\ placed[i].name = reading[i].name
                               /\ placed[i].kind = reading[i].kind
  BY DEF RowsAre
<1>2. DOMAIN placed = 1 .. k - 1 /\ \A i \in 1 .. k - 1 : placed[i].row \in Nat
  <2>1. DOMAIN placed = 1 .. k - 1  BY <1>1, LenProperties
  <2>2. \A i \in 1 .. k - 1 : placed[i] \in PlacedType  BY <1>1, ElementOfSeq
  <2> QED BY <2>1, <2>2 DEF PlacedType
<1>3. /\ reading \in Seq(RenditionType) /\ Len(reading) \in Nat
      /\ r.kind \in Kinds /\ (r.kind # "data" => r.packaging = "cmaf")
      /\ \A i \in 1 .. k - 1 : i \in 1 .. Len(reading) /\ reading[i].kind \in Kinds
  <2>1. reading \in Seq(RenditionType) /\ Len(reading) \in Nat  BY LenProperties DEF Ours
  <2>2. \A i \in 1 .. Len(reading) : reading[i] \in RenditionType  BY <2>1, ElementOfSeq
  <2> QED BY <2>1, <2>2 DEF RenditionType, Ours
<1>4. Placed(placed, r) = Append(placed, [name |-> r.name, kind |-> r.kind,
                                          packaging |-> r.packaging, row |-> row])
  BY DEF Placed
<1>5. \A kind : Of(kind) = {placed[i] : i \in {j \in 1 .. k - 1 : reading[j].kind = kind}}
  BY <1>1, <1>2 DEF ToSet
<1>6. paired = {placed[i].row : i \in {j \in MediaTo(reading, k - 1) : SoundOf(reading, k, j)}}
        \/ r.kind # "audio"
  <2> SUFFICES ASSUME r.kind = "audio"
               PROVE  paired = {placed[i].row :
                                  i \in {j \in MediaTo(reading, k - 1) : SoundOf(reading, k, j)}}
    OBVIOUS
  <2>1. \A i \in 1 .. k - 1 :
          reading[i].kind = "video" /\ r.name = placed[i].name \o AudioSuffix
            <=> i \in MediaTo(reading, k - 1) /\ SoundOf(reading, k, i)
    BY <1>1 DEF MediaTo, SoundOf
  <2>2. \A i \in MediaTo(reading, k - 1) : i \in 1 .. k - 1  BY DEF MediaTo
  <2> DEFINE sounds   == {j \in MediaTo(reading, k - 1) : SoundOf(reading, k, j)}
             pictures == {v \in Of("video") : r.name = v.name \o AudioSuffix}
  <2>3. Of("video") = {placed[i] : i \in {j \in 1 .. k - 1 : reading[j].kind = "video"}}  BY <1>5
  <2>4. pictures = {placed[i] : i \in sounds}
    <3> HIDE DEF Of, r
    <3> QED BY <2>1, <2>2, <2>3
  <2>5. paired = {v.row : v \in pictures}  OBVIOUS
  <2> HIDE DEF pictures, sounds, paired
  <2>6. paired = {placed[i].row : i \in sounds}  BY <2>4, <2>5
  <2> QED BY <2>6 DEF sounds
<1>7. next = n
  <2>1. Of("video") = {placed[i] : i \in {j \in 1 .. k - 1 : reading[j].kind = "video"}}  BY <1>5
  <2>2. Of("audio") = {placed[i] : i \in {j \in 1 .. k - 1 : reading[j].kind = "audio"}}  BY <1>5
  <2>3. \A i \in 1 .. k - 1 : i \in MediaTo(reading, k - 1)
          <=> reading[i].kind = "video" \/ reading[i].kind = "audio"
    BY <1>3 DEF MediaTo, Kinds
  <2>4. \A i \in MediaTo(reading, k - 1) : i \in 1 .. k - 1  BY DEF MediaTo
  <2> HIDE DEF Of
  <2>5. {e.row : e \in Of("video") \cup Of("audio")}
          = {placed[i].row : i \in MediaTo(reading, k - 1)}
    BY <2>1, <2>2, <2>3, <2>4
  <2>6. Cardinality(0 .. n - 1) = n
    <3>1. Cardinality(0 .. n - 1) = IF 0 > n - 1 THEN 0 ELSE (n - 1) - 0 + 1  BY FS_Interval, SMTT(30)
    <3> QED BY <3>1
  <2> QED BY <2>5, <2>6
<1>8. \A i \in MediaTo(reading, k - 1) : placed[i].row \in Nat
  BY <1>2 DEF MediaTo
<1> HIDE DEF paired, programme, next, Of, r
<1>9. CASE r.kind = "data"
  <2>1. row = 0  BY <1>9
  <2> HIDE DEF row
  <2> QED BY <1>4, <1>9, <2>1 DEF r
<1>10. CASE r.kind = "audio" /\ paired # {}
  <2>1. row = Min(paired)  BY <1>10
  <2>2. paired \subseteq Nat  BY <1>6, <1>8, <1>10
  <2>3. row \in paired  BY <1>10, <2>1, <2>2, MinIs
  <2> HIDE DEF row
  <2>4. PICK i \in MediaTo(reading, k - 1) : SoundOf(reading, k, i) /\ row = placed[i].row
    BY <1>6, <1>10, <2>3
  <2>5. row \in Nat  BY <2>2, <2>3
  <2> QED BY <1>4, <2>4, <2>5 DEF r
<1>11. CASE r.kind = "video" \/ (r.kind = "audio" /\ paired = {})
  <2>1. r.packaging # "legacy"  BY <1>3, <1>11
  <2>2. row = next  BY <1>11, <2>1
  <2> HIDE DEF row
  <2>3. row = n /\ row \in Nat  BY <1>7, <2>2
  <2>4. \A i \in MediaTo(reading, k - 1) : ~SoundOf(reading, k, i)
    <3>1. CASE r.kind = "video"  BY <3>1 DEF SoundOf, r
    <3>2. CASE r.kind = "audio" /\ paired = {}
      <4>1. {placed[i].row : i \in {j \in MediaTo(reading, k - 1) : SoundOf(reading, k, j)}} = {}
        BY <1>6, <3>2
      <4> QED BY <4>1
    <3> QED BY <1>11, <3>1, <3>2
  <2> QED BY <1>4, <2>3, <2>4 DEF r
<1>12. r.kind = "data" \/ r.kind = "audio" \/ r.kind = "video"  BY <1>3 DEF Kinds
<1> HIDE DEF row
<1> QED BY <1>9, <1>10, <1>11, <1>12

\* One more rendition keeps the rows.
LEMMA RowsGrow ==
  ASSUME NEW reading, Ours(reading), NEW k \in 1 .. Len(reading), NEW placed,
         RowsAre(reading, k - 1, placed)
  PROVE  RowsAre(reading, k, Placed(placed, reading[k]))
<1> DEFINE media == MediaTo(reading, k - 1)
           all   == Placed(placed, reading[k])
<1>1. PICK n \in Nat : {placed[i].row : i \in media} = 0 .. n - 1  BY DEF RowsAre
<1>2. PICK row \in Nat :
        /\ all = Append(placed, [name |-> reading[k].name, kind |-> reading[k].kind,
                                 packaging |-> reading[k].packaging, row |-> row])
        /\ \/ reading[k].kind = "data"
           \/ \E i \in media : SoundOf(reading, k, i) /\ row = placed[i].row
           \/ /\ \A i \in media : ~SoundOf(reading, k, i)
              /\ row = n
  BY <1>1, RowChosen
<1>3. /\ placed \in Seq(PlacedType) /\ Len(placed) = k - 1
      /\ \A i \in 1 .. k - 1 : /\ placed[i].name = reading[i].name
                               /\ placed[i].kind = reading[i].kind
                               /\ placed[i].packaging = reading[i].packaging
      /\ \A i, j \in media :
           i < j => (placed[i].row = placed[j].row <=> SoundOf(reading, j, i))
  BY DEF RowsAre
<1>4. /\ Len(reading) \in Nat /\ reading[k] \in RenditionType
      /\ \A i, j \in 1 .. Len(reading) : reading[i].name = reading[j].name => i = j
      /\ \A i \in 1 .. Len(reading) : reading[i].name \in Seq(Words)
  <2>1. reading \in Seq(RenditionType) /\ Len(reading) \in Nat  BY LenProperties DEF Ours
  <2>2. \A i \in 1 .. Len(reading) : reading[i] \in RenditionType  BY <2>1, ElementOfSeq
  <2> QED BY <2>1, <2>2 DEF RenditionType, Ours
<1>5. /\ all \in Seq(PlacedType) /\ Len(all) = k
      /\ \A i \in 1 .. k - 1 : all[i] = placed[i]
      /\ all[k].name = reading[k].name /\ all[k].kind = reading[k].kind
      /\ all[k].packaging = reading[k].packaging /\ all[k].row = row
  <2> DEFINE one == [name |-> reading[k].name, kind |-> reading[k].kind,
                     packaging |-> reading[k].packaging, row |-> row]
  <2>1. one \in PlacedType /\ one.name = reading[k].name /\ one.kind = reading[k].kind
        /\ one.packaging = reading[k].packaging /\ one.row = row
    BY <1>4 DEF PlacedType, RenditionType
  <2>2. all = Append(placed, one)  BY <1>2
  <2> HIDE DEF one, all
  <2>3. /\ all \in Seq(PlacedType) /\ Len(all) = Len(placed) + 1
        /\ \A i \in 1 .. Len(placed) : all[i] = placed[i]
        /\ all[Len(placed) + 1] = one
    BY <1>3, <2>1, <2>2, AppendProperties
  <2> QED BY <1>3, <1>4, <2>1, <2>3
<1> HIDE DEF all
<1>6. \A i \in 1 .. k : i \in 1 .. k - 1 \/ i = k  BY <1>4
<1>7. \A i \in 1 .. k : /\ all[i].name = reading[i].name
                        /\ all[i].kind = reading[i].kind
                        /\ all[i].packaging = reading[i].packaging
  BY <1>3, <1>5, <1>6
<1>8. /\ \A i \in media : i \in 1 .. k - 1 /\ i \in 1 .. Len(reading) /\ i # k
                          /\ reading[i].kind # "data" /\ all[i].row = placed[i].row
      /\ MediaTo(reading, k) = IF reading[k].kind = "data" THEN media ELSE media \cup {k}
  <2>1. \A i \in media : i \in 1 .. k - 1 /\ reading[i].kind # "data"  BY DEF MediaTo
  <2>2. \A i \in 1 .. k - 1 : i \in 1 .. Len(reading) /\ i # k /\ i \in 1 .. k  BY <1>4
  <2>3. k \in 1 .. k  BY <1>4
  <2>4. MediaTo(reading, k) = IF reading[k].kind = "data" THEN media ELSE media \cup {k}
    BY <1>6, <2>2, <2>3 DEF MediaTo
  <2> HIDE DEF media
  <2> QED BY <1>5, <2>1, <2>2, <2>4
<1>9. \E m \in Nat : {all[i].row : i \in MediaTo(reading, k)} = 0 .. m - 1
  <2>1. {all[i].row : i \in media} = 0 .. n - 1
    <3> HIDE DEF media
    <3> QED BY <1>1, <1>8
  <2> HIDE DEF media
  <2>2. CASE reading[k].kind = "data"
    <3>1. MediaTo(reading, k) = media  BY <1>8, <2>2
    <3> QED BY <2>1, <3>1
  <2>3. CASE reading[k].kind # "data"
    <3>1. {all[i].row : i \in MediaTo(reading, k)} = (0 .. n - 1) \cup {row}
      <4>1. MediaTo(reading, k) = media \cup {k}  BY <1>8, <2>3
      <4>2. {all[i].row : i \in media \cup {k}} = {all[i].row : i \in media} \cup {all[k].row}
        OBVIOUS
      <4> QED BY <1>5, <2>1, <4>1, <4>2
    <3>2. row = n \/ row \in 0 .. n - 1  BY <1>1, <1>2, <2>3
    <3>3. n + 1 \in Nat /\ (0 .. n - 1) \cup {n} = 0 .. (n + 1) - 1  OBVIOUS
    <3>4. CASE row = n  BY <3>1, <3>3, <3>4
    <3>5. CASE row \in 0 .. n - 1
      <4>1. (0 .. n - 1) \cup {row} = 0 .. n - 1  BY <3>5
      <4> QED BY <3>1, <4>1
    <3> QED BY <3>2, <3>4, <3>5
  <2> QED BY <2>2, <2>3
<1>10. ASSUME NEW i \in MediaTo(reading, k), NEW j \in MediaTo(reading, k), i < j
       PROVE  all[i].row = all[j].row <=> SoundOf(reading, j, i)
  <2>1. i \in media
    <3>1. i \in 1 .. k /\ j \in 1 .. k  BY DEF MediaTo
    <3>2. i # k  BY <1>4, <1>10, <3>1
    <3> HIDE DEF media
    <3> QED BY <1>8, <3>2
  <2>2. CASE j \in media
    <3>1. all[i].row = placed[i].row /\ all[j].row = placed[j].row  BY <1>8, <2>1, <2>2
    <3> HIDE DEF media
    <3> QED BY <1>3, <1>10, <2>1, <2>2, <3>1
  <2>3. CASE j = k /\ reading[k].kind # "data"
    <3>1. all[i].row = placed[i].row /\ all[j].row = row  BY <1>5, <1>8, <2>1, <2>3
    <3>2. CASE row = n /\ \A s \in media : ~SoundOf(reading, k, s)
      <4>1. placed[i].row \in 0 .. n - 1  BY <1>1, <2>1
      <4>2. placed[i].row # row  BY <3>2, <4>1
      <4> QED BY <2>1, <2>3, <3>1, <3>2, <4>2
    <3>3. ASSUME NEW s \in media, SoundOf(reading, k, s), row = placed[s].row
          PROVE  placed[i].row = row <=> SoundOf(reading, k, i)
      <4>1. ASSUME i # s PROVE placed[i].row # placed[s].row /\ ~SoundOf(reading, k, i)
        <5>1. ~SoundOf(reading, k, i)
          <6> SUFFICES ASSUME SoundOf(reading, k, i) PROVE FALSE  OBVIOUS
          <6>1. reading[i].name \o AudioSuffix = reading[s].name \o AudioSuffix
            BY <3>3 DEF SoundOf
          <6>2. i \in 1 .. Len(reading) /\ s \in 1 .. Len(reading)  BY <1>8, <2>1
          <6>3. reading[i].name = reading[s].name  BY <1>4, <6>1, <6>2, SuffixedApart
          <6> QED BY <1>4, <4>1, <6>2, <6>3
        <5>2. ~SoundOf(reading, i, s)
          <6> SUFFICES ASSUME SoundOf(reading, i, s) PROVE FALSE  OBVIOUS
          <6>1. reading[i].name = reading[k].name  BY <3>3 DEF SoundOf
          <6>2. i \in 1 .. Len(reading) /\ i # k  BY <1>8, <2>1
          <6> QED BY <1>4, <6>1, <6>2
        <5>3. ~SoundOf(reading, s, i)  BY <3>3 DEF SoundOf
        <5>4. i < s \/ s < i
          <6>1. i \in 1 .. Len(reading) /\ s \in 1 .. Len(reading)  BY <1>8, <2>1
          <6> QED BY <1>4, <4>1, <6>1
        <5> QED BY <1>3, <2>1, <5>1, <5>2, <5>3, <5>4
      <4>2. CASE i = s  BY <3>3, <4>2
      <4>3. CASE i # s  BY <3>3, <4>1, <4>3
      <4> QED BY <4>2, <4>3
    <3>4. placed[i].row = row <=> SoundOf(reading, k, i)
      <4> HIDE DEF media
      <4>1. CASE row = n /\ \A s \in media : ~SoundOf(reading, k, s)
        BY <2>3, <3>1, <3>2, <4>1
      <4>2. CASE \E s \in media : SoundOf(reading, k, s) /\ row = placed[s].row
        BY <3>3, <4>2
      <4> QED BY <1>2, <2>3, <4>1, <4>2
    <3> QED BY <2>3, <3>1, <3>4
  <2>4. j \in media \/ (j = k /\ reading[k].kind # "data")
    <3> HIDE DEF media
    <3> QED BY <1>8
  <2> QED BY <2>2, <2>3, <2>4
<1> QED BY <1>5, <1>7, <1>9, <1>10 DEF RowsAre, all

\* All renditions have their rows.
LEMMA RowsPlaced ==
  ASSUME NEW reading, Ours(reading)
  PROVE  RowsAre(reading, Len(reading), Rows(reading))
<1> DEFINE n == Len(reading)
<1>1. reading \in Seq(RenditionType) /\ n \in Nat  BY LenProperties DEF Ours
<1>2. PICK upto : /\ upto[0] = << >> /\ Rows(reading) = upto[n]
                  /\ \A k \in 1 .. n : upto[k] = Placed(upto[k - 1], reading[k])
  BY <1>1, RowsStepwise
<1> DEFINE Good == {k \in 0 .. n : RowsAre(reading, k, upto[k])}
<1>3. 0 \in Good
  <2>1. 1 .. 0 = {} /\ 0 \in 0 .. n  BY <1>1
  <2>2. MediaTo(reading, 0) = {}  BY <2>1 DEF MediaTo
  <2>3. << >> \in Seq(PlacedType) /\ Len(<< >>) = 0  OBVIOUS
  <2>4. {<< >>[i].row : i \in MediaTo(reading, 0)} = 0 .. 0 - 1  BY <2>2
  <2>5. RowsAre(reading, 0, << >>)  BY <2>1, <2>2, <2>3, <2>4 DEF RowsAre
  <2> QED BY <1>2, <2>1, <2>5
<1>4. ASSUME NEW k \in 1 .. n, k - 1 \in Good PROVE k \in Good
  <2>1. RowsAre(reading, k - 1, upto[k - 1])  BY <1>4
  <2>2. RowsAre(reading, k, Placed(upto[k - 1], reading[k]))  BY <2>1, RowsGrow
  <2>3. k \in 0 .. n  BY <1>1
  <2> QED BY <1>2, <2>2, <2>3
<1>5. n \in Good
  <2> HIDE DEF Good
  <2>1. \A k \in 0 .. n : k \in Good  BY <1>1, <1>3, <1>4, UpTo
  <2> QED BY <1>1, <2>1
<1> QED BY <1>2, <1>5

\* A section lists what it has once.
LEMMA Listed ==
  ASSUME NEW S, IsFiniteSet(S), NEW f \in SetToSeqs(S)
  PROVE  /\ f \in Seq(S) /\ Len(f) \in Nat
         /\ \A i, j \in 1 .. Len(f) : f[i] = f[j] => i = j
         /\ \A x \in S : \E i \in 1 .. Len(f) : f[i] = x
<1> DEFINE n == Cardinality(S)
<1>1. n \in Nat  BY FS_CardinalityType
<1>2. f \in [1 .. n -> S] /\ \A i, j \in 1 .. n : i # j => f[i] # f[j]  BY DEF SetToSeqs
<1>3. f \in Injection(1 .. n, S)  BY <1>2 DEF Injection, IsInjective
<1>4. IsFiniteSet(1 .. n) /\ Cardinality(1 .. n) = n  BY <1>1, FS_Interval
<1>5. f \in Surjection(1 .. n, S)  BY <1>3, <1>4, FS_Injection
<1>6. \A x \in S : \E i \in 1 .. n : f[i] = x  BY <1>5 DEF Surjection
<1> HIDE DEF n
<1>7. f \in Seq(S)  BY <1>1, <1>2
<1>8. Len(f) = n  BY <1>1, <1>2, <1>7, LenProperties
<1> QED BY <1>1, <1>2, <1>6, <1>7, <1>8

\* A reading lists every rendition once, and the pictures before the sounds.
LEMMA ReadingLists ==
  ASSUME NEW catalog, IsFiniteSet(catalog), \A r \in catalog : r.kind \in Kinds,
         NEW reading \in Readings(catalog)
  PROVE  /\ reading \in Seq(catalog) /\ Len(reading) \in Nat
         /\ \A i, j \in 1 .. Len(reading) : reading[i] = reading[j] => i = j
         /\ \A r \in catalog : \E i \in 1 .. Len(reading) : reading[i] = r
         /\ \A i, j \in 1 .. Len(reading) :
              reading[i].kind = "video" /\ reading[j].kind = "audio" => i < j
<1> DEFINE Of(kind) == {r \in catalog : r.kind = kind}
<1>1. PICK v \in SetToSeqs(Of("video")), a \in SetToSeqs(Of("audio")), d \in SetToSeqs(Of("data")) :
        reading = v \o a \o d
  <2> DEFINE All == SetToSeqs(Of("video")) \X SetToSeqs(Of("audio")) \X SetToSeqs(Of("data"))
  <2>1. Readings(catalog) = {s[1] \o s[2] \o s[3] : s \in All}  BY DEF Readings
  <2> HIDE DEF All
  <2>2. PICK s \in All : reading = s[1] \o s[2] \o s[3]  BY <2>1
  <2> QED BY <2>2 DEF All
<1>2. \A kind : IsFiniteSet(Of(kind)) /\ \A r \in Of(kind) : r \in catalog /\ r.kind = kind
  <2>1. ASSUME NEW kind PROVE IsFiniteSet(Of(kind))
    <3>1. Of(kind) \in SUBSET catalog  OBVIOUS
    <3> HIDE DEF Of
    <3> QED BY <3>1, FS_Subset
  <2> QED BY <2>1
<1>3. \A r \in catalog : r \in Of("video") \/ r \in Of("audio") \/ r \in Of("data")  BY DEF Kinds
<1> HIDE DEF Of
<1> DEFINE V == Len(v)
           A == Len(a)
           D == Len(d)
<1>4. /\ v \in Seq(Of("video")) /\ V \in Nat
      /\ \A i, j \in 1 .. V : v[i] = v[j] => i = j
      /\ \A x \in Of("video") : \E i \in 1 .. V : v[i] = x
  BY <1>2, Listed
<1>5. /\ a \in Seq(Of("audio")) /\ A \in Nat
      /\ \A i, j \in 1 .. A : a[i] = a[j] => i = j
      /\ \A x \in Of("audio") : \E i \in 1 .. A : a[i] = x
  BY <1>2, Listed
<1>6. /\ d \in Seq(Of("data")) /\ D \in Nat
      /\ \A i, j \in 1 .. D : d[i] = d[j] => i = j
      /\ \A x \in Of("data") : \E i \in 1 .. D : d[i] = x
  BY <1>2, Listed
<1>7. v \in Seq(catalog) /\ a \in Seq(catalog) /\ d \in Seq(catalog)
  <2>1. \A kind : Of(kind) \subseteq catalog  BY <1>2
  <2> QED BY <1>4, <1>5, <1>6, <2>1, SeqMonotonic
<1>8. /\ v \o a \in Seq(catalog) /\ Len(v \o a) = V + A
      /\ \A i \in 1 .. V + A : (v \o a)[i] = IF i <= V THEN v[i] ELSE a[i - V]
  BY <1>7, ConcatProperties
<1> DEFINE va == v \o a
<1>9. /\ reading \in Seq(catalog) /\ Len(reading) = V + A + D
      /\ \A i \in 1 .. V + A + D :
           reading[i] = IF i <= V + A THEN va[i] ELSE d[i - (V + A)]
  <2>1. va \in Seq(catalog) /\ Len(va) = V + A /\ reading = va \o d  BY <1>1, <1>8
  <2> HIDE DEF va, V, A, D
  <2>3. d \in Seq(catalog) /\ Len(d) = D  BY <1>7 DEF D
  <2>2. /\ va \o d \in Seq(catalog) /\ Len(va \o d) = Len(va) + Len(d)
        /\ \A i \in 1 .. Len(va) + Len(d) :
             (va \o d)[i] = IF i <= Len(va) THEN va[i] ELSE d[i - Len(va)]
    BY <2>1, <2>3, ConcatProperties
  <2> QED BY <2>1, <2>2, <2>3
<1>10. va \in Seq(catalog) /\ \A i \in 1 .. V + A : va[i] = IF i <= V THEN v[i] ELSE a[i - V]
  BY <1>8
<1> DEFINE N == V + A + D
<1> HIDE DEF va, V, A, D
\* Where a rendition is listed, by its kind.
<1>11. ASSUME NEW i \in 1 .. N
       PROVE  \/ i \in 1 .. V /\ reading[i] = v[i] /\ reading[i].kind = "video"
              \/ /\ i > V /\ i - V \in 1 .. A /\ reading[i] = a[i - V]
                 /\ reading[i].kind = "audio"
              \/ /\ i > V + A /\ i - (V + A) \in 1 .. D /\ reading[i] = d[i - (V + A)]
                 /\ reading[i].kind = "data"
  <2>1. CASE i <= V
    <3>1. i \in 1 .. V /\ i \in 1 .. V + A /\ i <= V + A  BY <1>4, <1>5, <2>1
    <3>2. reading[i] = v[i]  BY <1>9, <1>10, <2>1, <3>1
    <3>3. v[i].kind = "video"  BY <1>2, <1>4, <3>1, ElementOfSeq DEF V
    <3> QED BY <3>1, <3>2, <3>3
  <2>2. CASE i > V /\ i <= V + A
    <3>1. i - V \in 1 .. A /\ i \in 1 .. V + A /\ ~(i <= V)  BY <1>4, <1>5, <2>2
    <3>2. reading[i] = a[i - V]  BY <1>9, <1>10, <2>2, <3>1
    <3>3. a[i - V].kind = "audio"  BY <1>2, <1>5, <3>1, ElementOfSeq DEF A
    <3> QED BY <2>2, <3>1, <3>2, <3>3
  <2>3. CASE i > V + A
    <3>1. i - (V + A) \in 1 .. D /\ ~(i <= V + A)  BY <1>4, <1>5, <1>6, <2>3
    <3>2. reading[i] = d[i - (V + A)]  BY <1>9, <3>1
    <3>3. d[i - (V + A)].kind = "data"  BY <1>2, <1>6, <3>1, ElementOfSeq DEF D
    <3> QED BY <2>3, <3>1, <3>2, <3>3
  <2> QED BY <1>4, <1>5, <2>1, <2>2, <2>3
<1>12. ASSUME NEW i \in 1 .. N, NEW j \in 1 .. N, reading[i] = reading[j] PROVE i = j
  <2>1. reading[i].kind = reading[j].kind  BY <1>12
  <2>2. CASE reading[i].kind = "video"
    <3>1. i \in 1 .. V /\ j \in 1 .. V /\ v[i] = v[j]  BY <1>11, <1>12, <2>1, <2>2
    <3> QED BY <1>4, <3>1
  <2>3. CASE reading[i].kind = "audio"
    <3>1. i - V \in 1 .. A /\ j - V \in 1 .. A /\ a[i - V] = a[j - V]
      BY <1>11, <1>12, <2>1, <2>3
    <3>2. i - V = j - V  BY <1>5, <3>1
    <3> QED BY <1>4, <3>2
  <2>4. CASE reading[i].kind = "data"
    <3>1. i - (V + A) \in 1 .. D /\ j - (V + A) \in 1 .. D /\ d[i - (V + A)] = d[j - (V + A)]
      BY <1>11, <1>12, <2>1, <2>4
    <3>2. i - (V + A) = j - (V + A)  BY <1>6, <3>1
    <3> QED BY <1>4, <1>5, <3>2
  <2> QED BY <1>11, <2>2, <2>3, <2>4
<1>13. ASSUME NEW r \in catalog PROVE \E i \in 1 .. N : reading[i] = r
  <2>1. CASE r \in Of("video")
    <3>1. PICK i \in 1 .. V : v[i] = r  BY <1>4, <2>1
    <3>2. i \in 1 .. N /\ i <= V /\ i <= V + A /\ i \in 1 .. V + A  BY <1>4, <1>5, <1>6
    <3> QED BY <1>9, <1>10, <3>1, <3>2
  <2>2. CASE r \in Of("audio")
    <3>1. PICK k \in 1 .. A : a[k] = r  BY <1>5, <2>2
    <3>2. PICK i \in 1 .. N : i = V + k  BY <1>4, <1>5, <1>6
    <3>3. ~(i <= V) /\ i <= V + A /\ i \in 1 .. V + A /\ i - V = k  BY <1>4, <1>5, <3>2
    <3> QED BY <1>9, <1>10, <3>1, <3>3
  <2>3. CASE r \in Of("data")
    <3>1. PICK k \in 1 .. D : d[k] = r  BY <1>6, <2>3
    <3>2. PICK i \in 1 .. N : i = V + A + k  BY <1>4, <1>5, <1>6
    <3>3. ~(i <= V + A) /\ i - (V + A) = k  BY <1>4, <1>5, <3>2
    <3> QED BY <1>9, <3>1, <3>3
  <2> QED BY <1>3, <2>1, <2>2, <2>3
<1>14. ASSUME NEW i \in 1 .. N, NEW j \in 1 .. N,
              reading[i].kind = "video", reading[j].kind = "audio"
       PROVE  i < j
  <2>1. i \in 1 .. V /\ j > V  BY <1>11, <1>14
  <2> QED BY <1>4, <2>1
<1>15. N \in Nat /\ Len(reading) = N  BY <1>4, <1>5, <1>6, <1>9
<1> HIDE DEF N
<1> QED BY <1>9, <1>12, <1>13, <1>14, <1>15

\* The row of a track is in the relation, at the track's index.
LEMMA RelationHas ==
  ASSUME NEW tracks \in Seq(PlacedType), NEW t \in 1 .. Len(tracks)
  PROVE  Relation(tracks)[Index(tracks, t)] = tracks[t].row
<1> DEFINE rows     == {tracks[u].row : u \in DOMAIN tracks}
           Below(r) == {q \in rows : q < r}
           row      == tracks[t].row
           i        == Cardinality(Below(row)) + 1
<1>1. DOMAIN tracks = 1 .. Len(tracks) /\ Len(tracks) \in Nat  BY LenProperties
<1>2. \A u \in DOMAIN tracks : tracks[u].row \in Nat
  <2>1. \A u \in DOMAIN tracks : tracks[u] \in PlacedType  BY <1>1, ElementOfSeq
  <2> QED BY <2>1 DEF PlacedType
<1>3. rows \subseteq Nat /\ row \in rows  BY <1>1, <1>2
<1>4. IsFiniteSet(rows)
  <2> DEFINE f == [u \in DOMAIN tracks |-> tracks[u].row]
  <2>1. f \in Surjection(DOMAIN tracks, rows)  BY DEF Surjection
  <2>2. IsFiniteSet(DOMAIN tracks)  BY <1>1, FS_Interval
  <2> HIDE DEF f, rows
  <2> QED BY <2>1, <2>2, FS_Surjection
<1>5. Relation(tracks) = [k \in 1 .. Cardinality(rows) |->
                            CHOOSE r \in rows : Cardinality(Below(r)) = k - 1]
  BY DEF Relation
<1> HIDE DEF rows, row
<1>6. \A r \in rows : IsFiniteSet(Below(r)) /\ Cardinality(Below(r)) \in Nat
  <2>1. \A r : Below(r) \in SUBSET rows  OBVIOUS
  <2> HIDE DEF Below
  <2> QED BY <1>4, <2>1, FS_Subset, FS_CardinalityType
<1>7. ASSUME NEW q \in rows, NEW r \in rows, q < r
      PROVE  Cardinality(Below(q)) # Cardinality(Below(r))
  <2>1. q \in Below(r) /\ q \notin Below(q) /\ Below(q) \in SUBSET Below(r)
    <3>1. q \in Nat /\ r \in Nat /\ \A x \in rows : x \in Nat  BY <1>3
    <3>2. \A x \in rows : x < q => x < r  BY <1>7, <3>1
    <3>3. ~(q < q)  BY <3>1
    <3> QED BY <1>7, <3>2, <3>3
  <2>2. IsFiniteSet(Below(r))  BY <1>6
  <2> HIDE DEF Below
  <2> QED BY <2>1, <2>2, FS_Subset
<1>8. \A r \in rows : Cardinality(Below(r)) = Cardinality(Below(row)) => r = row
  <2>1. \A r \in rows : r < row \/ row < r \/ r = row  BY <1>3
  <2> HIDE DEF Below
  <2> QED BY <1>3, <1>7, <2>1
<1>9. i \in 1 .. Cardinality(rows)
  <2>1. Below(row) \in SUBSET (rows \ {row})  BY <1>3
  <2>2. IsFiniteSet(rows \ {row}) /\ Cardinality(rows \ {row}) = Cardinality(rows) - 1
    BY <1>3, <1>4, FS_RemoveElement
  <2>3. Cardinality(rows) \in Nat /\ Cardinality(Below(row)) \in Nat
    BY <1>3, <1>4, <1>6, FS_CardinalityType
  <2> HIDE DEF Below
  <2>4. Cardinality(Below(row)) <= Cardinality(rows) - 1  BY <2>1, <2>2, FS_Subset
  <2> QED BY <2>3, <2>4
<1>10. Relation(tracks)[i] = row
  <2> HIDE DEF Below
  <2>1. i - 1 = Cardinality(Below(row))  BY <1>3, <1>6
  <2> HIDE DEF i
  <2>2. Relation(tracks)[i] = CHOOSE r \in rows : Cardinality(Below(r)) = i - 1
    BY <1>5, <1>9
  <2> QED BY <1>3, <1>8, <2>1, <2>2
<1>11. DOMAIN Relation(tracks) = 1 .. Cardinality(rows)
  <2> HIDE DEF Below
  <2> QED BY <1>5
<1> HIDE DEF i
<1>12. \E k \in DOMAIN Relation(tracks) : Relation(tracks)[k] = tracks[t].row
  BY <1>9, <1>10, <1>11 DEF row
<1> QED BY <1>12 DEF Index

\* What a publication reads as, in whatever order each section is listed.
LEMMA PublishedIs ==
  ASSUME Decimals, NEW pads \in Seq(PadType), Named(pads), IsFiniteSet(CatalogOf(pads)),
         NEW reading \in Readings(CatalogOf(pads))
  PROVE  /\ Ours(reading)
         /\ \A p \in DOMAIN pads : \E i \in 1 .. Len(reading) :
              reading[i].name = TrackName(pads, p) /\ reading[i].kind = pads[p].kind
         /\ \A i, j \in 1 .. Len(reading) :
              reading[i].kind = "video" /\ reading[j].kind = "audio" => i < j
<1> DEFINE catalog == CatalogOf(pads)
           Listing(p) == [name |-> TrackName(pads, p), kind |-> pads[p].kind,
                          packaging |-> Packaging(pads[p].kind)]
<1>1. ASSUME NEW p \in DOMAIN pads
      PROVE  /\ Listing(p) \in catalog /\ Listing(p) \in RenditionType
             /\ Listing(p).name = TrackName(pads, p) /\ Listing(p).kind = pads[p].kind
             /\ pads[p].kind # "data" => Listing(p).packaging = "cmaf"
  <2>1. TrackName(pads, p) \in Seq(Words)  BY FallbackIs, WrittenIs
  <2>2. pads[p].kind \in Kinds  BY PadIs
  <2> QED BY <2>1, <2>2 DEF CatalogOf, RenditionType, Packaging
<1>2. \A r \in catalog : \E p \in DOMAIN pads : r = Listing(p)  BY DEF CatalogOf
<1>3. catalog \subseteq RenditionType
  <2> HIDE DEF Listing
  <2> QED BY <1>1, <1>2
<1>4. IsFiniteSet(catalog) /\ reading \in Readings(catalog)  OBVIOUS
<1>5. \A r \in catalog : r.kind \in Kinds  BY <1>3 DEF RenditionType
<1> HIDE DEF catalog, Listing
<1>6. /\ reading \in Seq(catalog) /\ Len(reading) \in Nat
      /\ \A i, j \in 1 .. Len(reading) : reading[i] = reading[j] => i = j
      /\ \A r \in catalog : \E i \in 1 .. Len(reading) : reading[i] = r
      /\ \A i, j \in 1 .. Len(reading) :
           reading[i].kind = "video" /\ reading[j].kind = "audio" => i < j
  BY <1>4, <1>5, ReadingLists
<1>7. \A i \in 1 .. Len(reading) : \E p \in DOMAIN pads : reading[i] = Listing(p)
  BY <1>2, <1>6, ElementOfSeq
<1>8. reading \in Seq(RenditionType)  BY <1>3, <1>6, SeqMonotonic
<1>9. ASSUME NEW i \in 1 .. Len(reading), reading[i].kind # "data"
      PROVE  reading[i].packaging = "cmaf"
  <2>1. PICK p \in DOMAIN pads : reading[i] = Listing(p)  BY <1>7
  <2> QED BY <1>1, <1>9, <2>1
<1>10. ASSUME NEW i \in 1 .. Len(reading), NEW j \in 1 .. Len(reading),
              reading[i].name = reading[j].name
       PROVE  i = j
  <2>1. PICK p \in DOMAIN pads : reading[i] = Listing(p)  BY <1>7
  <2>2. PICK q \in DOMAIN pads : reading[j] = Listing(q)  BY <1>7
  <2>3. TrackName(pads, p) = TrackName(pads, q)  BY <1>1, <1>10, <2>1, <2>2
  <2>4. p = q  BY <2>3, NamesApart
  <2> QED BY <1>6, <2>1, <2>2, <2>4
<1>11. ASSUME NEW p \in DOMAIN pads
       PROVE  \E i \in 1 .. Len(reading) :
                reading[i].name = TrackName(pads, p) /\ reading[i].kind = pads[p].kind
  <2>1. PICK i \in 1 .. Len(reading) : reading[i] = Listing(p)  BY <1>1, <1>6
  <2> QED BY <1>1, <2>1
<1> QED BY <1>6, <1>8, <1>9, <1>10, <1>11 DEF Ours

\* The track of a pad in a relation that is read.
TrackOf(pads, tracks, p) ==
  CHOOSE t \in DOMAIN tracks :
    tracks[t].kind = pads[p].kind /\ tracks[t].name = TrackName(pads, p)

\* There is such a track.
LEMMA TrackOfIs ==
  ASSUME Decimals, NEW pads \in Seq(PadType), Named(pads), IsFiniteSet(CatalogOf(pads)),
         NEW reading \in Readings(CatalogOf(pads)), NEW p \in DOMAIN pads
  PROVE  LET t == TrackOf(pads, Rows(reading), p)
         IN  /\ t \in 1 .. Len(reading)
             /\ reading[t].kind = pads[p].kind /\ reading[t].name = TrackName(pads, p)
<1> DEFINE tracks == Rows(reading)
<1>1. RowsAre(reading, Len(reading), tracks)  BY PublishedIs, RowsPlaced
<1>2. /\ DOMAIN tracks = 1 .. Len(reading)
      /\ \A i \in 1 .. Len(reading) : /\ tracks[i].name = reading[i].name
                                      /\ tracks[i].kind = reading[i].kind
  <2>1. tracks \in Seq(PlacedType) /\ Len(tracks) = Len(reading)  BY <1>1 DEF RowsAre
  <2> HIDE DEF tracks
  <2> QED BY <1>1, <2>1, LenProperties DEF RowsAre
<1>3. PICK i \in 1 .. Len(reading) :
        reading[i].name = TrackName(pads, p) /\ reading[i].kind = pads[p].kind
  BY PublishedIs
<1> HIDE DEF tracks
<1>4. \E t \in DOMAIN tracks :
        tracks[t].kind = pads[p].kind /\ tracks[t].name = TrackName(pads, p)
  BY <1>2, <1>3
<1> DEFINE t == TrackOf(pads, tracks, p)
<1>5. t \in DOMAIN tracks /\ tracks[t].kind = pads[p].kind /\ tracks[t].name = TrackName(pads, p)
  BY <1>4 DEF TrackOf
<1> HIDE DEF t
<1>6. t \in 1 .. Len(reading) /\ reading[t].kind = pads[p].kind
      /\ reading[t].name = TrackName(pads, p)
  BY <1>2, <1>5
<1> QED BY <1>6 DEF t, tracks

\* Two tracks are on one row if their pads were.
LEMMA RowsAsHanded ==
  ASSUME Decimals, NEW pads \in Seq(PadType), Named(pads), IsFiniteSet(CatalogOf(pads)),
         NEW reading \in Readings(CatalogOf(pads)),
         NEW p \in DOMAIN pads, NEW q \in DOMAIN pads,
         pads[p].kind # "data", pads[q].kind # "data"
  PROVE  LET tracks == Rows(reading)
         IN  tracks[TrackOf(pads, tracks, p)].row = tracks[TrackOf(pads, tracks, q)].row
               <=> pads[p].row = pads[q].row
<1> DEFINE tracks == Rows(reading)
           place(r)  == TrackOf(pads, tracks, r)
<1>1. RowsAre(reading, Len(reading), tracks) /\ Ours(reading)  BY PublishedIs, RowsPlaced
<1>2. ASSUME NEW r \in DOMAIN pads
      PROVE  /\ place(r) \in 1 .. Len(reading)
             /\ reading[place(r)].kind = pads[r].kind /\ reading[place(r)].name = TrackName(pads, r)
  BY TrackOfIs
<1>3. Len(reading) \in Nat  BY <1>1, LenProperties DEF Ours
<1> HIDE DEF place, tracks
<1>4. ASSUME NEW r \in DOMAIN pads, NEW s \in DOMAIN pads,
             pads[r].kind # "data", pads[s].kind # "data", place(r) < place(s)
      PROVE  tracks[place(r)].row = tracks[place(s)].row <=> pads[r].row = pads[s].row
  <2>1. place(r) \in MediaTo(reading, Len(reading)) /\ place(s) \in MediaTo(reading, Len(reading))
    BY <1>2, <1>4 DEF MediaTo
  <2>2. tracks[place(r)].row = tracks[place(s)].row <=> SoundOf(reading, place(s), place(r))
    BY <1>1, <1>4, <2>1 DEF RowsAre
  <2>3. SoundOf(reading, place(s), place(r)) <=>
          /\ pads[r].kind = "video" /\ pads[s].kind = "audio"
          /\ TrackName(pads, s) = TrackName(pads, r) \o AudioSuffix
    BY <1>2 DEF SoundOf
  <2>4. ASSUME pads[r].row = pads[s].row PROVE pads[r].kind = "video" /\ pads[s].kind = "audio"
    <3>1. r # s  BY <1>2, <1>3, <1>4
    <3>2. pads[r].kind # pads[s].kind  BY <1>4, <2>4, <3>1 DEF Named
    <3>3. pads[r].kind \in {"video", "audio"} /\ pads[s].kind \in {"video", "audio"}
      BY <1>4, PadIs DEF Kinds
    <3>4. ~(pads[r].kind = "audio" /\ pads[s].kind = "video")
      <4> SUFFICES ASSUME pads[r].kind = "audio", pads[s].kind = "video" PROVE FALSE  OBVIOUS
      <4>1. \A i, j \in 1 .. Len(reading) :
              reading[i].kind = "video" /\ reading[j].kind = "audio" => i < j
        BY PublishedIs
      <4>2. place(s) < place(r)  BY <1>2, <4>1
      <4> QED BY <1>2, <1>3, <1>4, <4>2
    <3> QED BY <3>2, <3>3, <3>4
  <2>5. pads[r].kind = "video" /\ pads[s].kind = "audio" =>
          (TrackName(pads, s) = TrackName(pads, r) \o AudioSuffix <=> pads[s].row = pads[r].row)
    BY PairIs
  <2> QED BY <2>2, <2>3, <2>4, <2>5
<1>5. CASE p = q  BY <1>5 DEF place, tracks
<1>6. CASE p # q
  <2>1. place(p) # place(q)
    <3>1. TrackName(pads, p) # TrackName(pads, q)  BY <1>6, NamesApart
    <3> QED BY <1>2, <3>1
  <2>2. place(p) < place(q) \/ place(q) < place(p)  BY <1>2, <1>3, <2>1
  <2>3. tracks[place(p)].row = tracks[place(q)].row <=> pads[p].row = pads[q].row
    BY <1>4, <2>2
  <2> QED BY <2>3 DEF place, tracks
<1> QED BY <1>5, <1>6

\* A row that was named goes by its name.
LEMMA RowNamed ==
  ASSUME Decimals, NEW pads \in Seq(PadType), Named(pads), IsFiniteSet(CatalogOf(pads)),
         NEW reading \in Readings(CatalogOf(pads)),
         NEW p \in DOMAIN pads, pads[p].kind # "data", pads[p].name # None
  PROVE  LET tracks == Rows(reading)
         IN  RowName(tracks, tracks[TrackOf(pads, tracks, p)].row) = pads[p].name
<1> DEFINE tracks == Rows(reading)
           n      == Len(reading)
           here   == TrackOf(pads, tracks, p)
           on     == {t \in DOMAIN tracks : tracks[t].row = tracks[here].row}
           media  == {t \in on : tracks[t].kind # "data"}
           first  == Min(media)
<1>1. RowsAre(reading, n, tracks) /\ Ours(reading)  BY PublishedIs, RowsPlaced
<1>2. n \in Nat  BY <1>1, LenProperties DEF Ours
<1>3. here \in 1 .. n /\ reading[here].kind = pads[p].kind
      /\ reading[here].name = TrackName(pads, p)
  BY TrackOfIs
<1>4. /\ DOMAIN tracks = 1 .. n
      /\ \A i \in 1 .. n : /\ tracks[i].name = reading[i].name
                           /\ tracks[i].kind = reading[i].kind
  <2>1. tracks \in Seq(PlacedType) /\ Len(tracks) = n  BY <1>1 DEF RowsAre
  <2> HIDE DEF tracks, n
  <2> QED BY <1>1, <2>1, LenProperties DEF RowsAre
<1>5. RowName(tracks, tracks[here].row) = tracks[Min(IF media # {} THEN media ELSE on)].name
  BY DEF RowName
<1> HIDE DEF tracks, here, n
<1>6. here \in media /\ media \subseteq Nat /\ media # {}  BY <1>2, <1>3, <1>4
<1>7. first \in media /\ first <= here  BY <1>6, MinIs
<1>8. RowName(tracks, tracks[here].row) = reading[first].name
  <2>1. first \in 1 .. n  BY <1>4, <1>7
  <2> HIDE DEF media, on
  <2>2. RowName(tracks, tracks[here].row) = tracks[first].name  BY <1>5, <1>6
  <2> HIDE DEF first
  <2> QED BY <1>4, <2>1, <2>2
<1>9. /\ first \in MediaTo(reading, n) /\ here \in MediaTo(reading, n)
      /\ tracks[first].row = tracks[here].row
  BY <1>3, <1>4, <1>6, <1>7 DEF MediaTo
<1>10. \A t \in media : first <= t  BY <1>6, MinIs
<1>11. reading[first].name = pads[p].name
  <2>1. CASE first = here
    <3>1. ~Suffixed(pads, p)
      <4> SUFFICES ASSUME Suffixed(pads, p) PROVE FALSE  OBVIOUS
      <4>1. PICK q \in DOMAIN pads : pads[q].kind = "video" /\ pads[q].row = pads[p].row
        BY DEF Suffixed, WithPicture
      <4> DEFINE there == TrackOf(pads, tracks, q)
      <4>2. there \in 1 .. n /\ reading[there].kind = "video"
        BY <4>1, TrackOfIs DEF tracks, n
      <4>3. tracks[there].row = tracks[here].row
        BY <4>1, RowsAsHanded DEF tracks, here
      <4> HIDE DEF there
      <4>4. there \in media  BY <1>4, <4>2, <4>3
      <4>5. reading[here].kind = "audio"  BY <1>3 DEF Suffixed
      <4>6. there < here  BY <1>3, <4>2, <4>5, PublishedIs DEF n
      <4>7. here <= there  BY <1>10, <2>1, <4>4
      <4> QED BY <1>2, <1>3, <4>2, <4>6, <4>7
    <3> QED BY <1>3, <2>1, <3>1, WrittenIs
  <2>2. CASE first # here
    <3>1. first < here  BY <1>2, <1>3, <1>6, <1>7, <2>2
    <3> HIDE DEF first
    <3>2. SoundOf(reading, here, first)  BY <1>1, <1>9, <3>1 DEF RowsAre
    <3>3. TrackName(pads, p) = reading[first].name \o AudioSuffix  BY <1>3, <3>2 DEF SoundOf
    <3>4. reading[first].name \in Seq(Words)
      <4>1. first \in 1 .. Len(reading)  BY <1>9 DEF MediaTo, n
      <4>2. reading \in Seq(RenditionType)  BY <1>1 DEF Ours
      <4>3. reading[first] \in RenditionType  BY <4>1, <4>2, ElementOfSeq
      <4> QED BY <4>3 DEF RenditionType
    <3>5. IsSuffix(AudioSuffix, TrackName(pads, p))  BY <3>3, <3>4, SuffixEnds
    <3>6. Suffixed(pads, p)  BY <3>5, WrittenIs, NamedIs
    <3>7. TrackName(pads, p) = pads[p].name \o AudioSuffix /\ pads[p].name \in Seq(Words)
      BY <3>6, WrittenIs
    <3> QED BY <3>3, <3>4, <3>7, SuffixedApart
  <2> QED BY <2>1, <2>2
<1> QED BY <1>8, <1>11 DEF tracks, here

\* The names of a publication's tracks are as many as its pads.
LEMMA NamesCounted ==
  ASSUME Decimals, NEW pads \in Seq(PadType), Named(pads)
  PROVE  Cardinality({TrackName(pads, p) : p \in DOMAIN pads}) = Len(pads)
<1> DEFINE names == {TrackName(pads, p) : p \in DOMAIN pads}
           f     == [p \in DOMAIN pads |-> TrackName(pads, p)]
<1>1. DOMAIN pads = 1 .. Len(pads) /\ Len(pads) \in Nat  BY LenProperties
<1>2. f \in Surjection(DOMAIN pads, names)  BY DEF Surjection
<1>3. f \in Injection(DOMAIN pads, names)
  <2>1. \A p, q \in DOMAIN pads : f[p] = f[q] => p = q  BY NamesApart
  <2>2. f \in [DOMAIN pads -> names]  OBVIOUS
  <2> HIDE DEF f, names
  <2> QED BY <2>1, <2>2 DEF Injection, IsInjective
<1>4. IsFiniteSet(DOMAIN pads) /\ Cardinality(DOMAIN pads) = Len(pads)
  <2>1. \A n \in Nat : IsFiniteSet(1 .. n) /\ Cardinality(1 .. n) = n  BY FS_Interval, SMTT(30)
  <2> QED BY <1>1, <2>1
<1> HIDE DEF f, names
<1>5. Cardinality(names) = Cardinality(DOMAIN pads)  BY <1>2, <1>3, <1>4, FS_Surjection
<1> QED BY <1>4, <1>5 DEF names

\* Each rendition is placed, and only those.
LEMMA RowsCounted ==
  ASSUME NEW S, NEW reading \in Seq(S)
  PROVE  Len(Rows(reading)) = Len(reading)
<1> DEFINE n == Len(reading)
<1>1. n \in Nat  BY LenProperties
<1>2. PICK upto : /\ upto[0] = << >> /\ Rows(reading) = upto[n]
                  /\ \A k \in 1 .. n : upto[k] = Placed(upto[k - 1], reading[k])
  BY RowsStepwise
<1> DEFINE Good == {k \in 0 .. n : (\E X : upto[k] \in Seq(X)) /\ Len(upto[k]) = k}
<1>3. 0 \in Good
  <2>1. << >> \in Seq({}) /\ Len(<< >>) = 0  BY EmptySeq
  <2>2. (\E X : upto[0] \in Seq(X)) /\ Len(upto[0]) = 0  BY <1>2, <2>1
  <2> QED BY <1>1, <2>2
<1>4. ASSUME NEW k \in 1 .. n, k - 1 \in Good PROVE k \in Good
  <2>1. PICK X : upto[k - 1] \in Seq(X)  BY <1>4
  <2>2. PICK e : upto[k] = Append(upto[k - 1], e)  BY <1>2 DEF Placed
  <2>3. upto[k - 1] \in Seq(X \cup {e})  BY <2>1, SeqMonotonic
  <2>4. e \in X \cup {e}  OBVIOUS
  <2>5. upto[k] \in Seq(X \cup {e}) /\ Len(upto[k]) = Len(upto[k - 1]) + 1
    BY <2>2, <2>3, <2>4, AppendProperties
  <2>6. Len(upto[k - 1]) = k - 1  BY <1>4
  <2>7. k \in 0 .. n /\ Len(upto[k]) = k  BY <1>1, <2>5, <2>6
  <2> QED BY <2>5, <2>7
<1>5. n \in Good
  <2> HIDE DEF Good
  <2>1. \A k \in 0 .. n : k \in Good  BY <1>1, <1>3, <1>4, UpTo
  <2> QED BY <1>1, <2>1
<1> QED BY <1>2, <1>5

\* One more on sequences of none and of one.
LEMMA Appended ==
  /\ \A a : Append(<< >>, a) = <<a>>
  /\ \A a, b : Append(<<a>>, b) = <<a, b>>
<1>1. ASSUME NEW a PROVE Append(<< >>, a) = <<a>>
  <2>1. << >> \in Seq({a}) /\ Len(<< >>) = 0 /\ a \in {a}  BY EmptySeq
  <2>2. /\ Append(<< >>, a) \in Seq({a}) /\ Len(Append(<< >>, a)) = 1
        /\ Append(<< >>, a)[1] = a
    BY <2>1, AppendProperties
  <2>3. <<a>> \in Seq({a}) /\ Len(<<a>>) = 1 /\ <<a>>[1] = a  OBVIOUS
  <2>4. \A i \in 1 .. 1 : i = 1  OBVIOUS
  <2> QED BY <2>2, <2>3, <2>4, SeqEqual
<1>2. ASSUME NEW a, NEW b PROVE Append(<<a>>, b) = <<a, b>>
  <2>1. <<a>> \in Seq({a, b}) /\ Len(<<a>>) = 1 /\ <<a>>[1] = a /\ b \in {a, b}  OBVIOUS
  <2>2. /\ Append(<<a>>, b) \in Seq({a, b}) /\ Len(Append(<<a>>, b)) = 2
        /\ Append(<<a>>, b)[1] = a /\ Append(<<a>>, b)[2] = b
    BY <2>1, AppendProperties
  <2>3. <<a, b>> \in Seq({a, b}) /\ Len(<<a, b>>) = 2 /\ <<a, b>>[1] = a /\ <<a, b>>[2] = b
    OBVIOUS
  <2>4. \A i \in 1 .. 2 : i = 1 \/ i = 2  OBVIOUS
  <2> QED BY <2>2, <2>3, <2>4, SeqEqual
<1> QED BY <1>1, <1>2

\* One picture and one sound in the legacy container are on one row.
LEMMA FeedOnOneRow ==
  ASSUME NEW S, NEW reading \in Seq(S),
         LET tracks == Rows(reading)
         IN  /\ Len(tracks) = 2 /\ tracks[1].kind = "video" /\ tracks[2].kind = "audio"
             /\ tracks[1].packaging = "legacy" /\ tracks[2].packaging = "legacy"
  PROVE  Rows(reading)[1].row = Rows(reading)[2].row
<1> DEFINE tracks == Rows(reading)
           r      == reading[1]
           s      == reading[2]
<1>1. Len(reading) = 2  BY RowsCounted
<1>2. PICK upto : /\ upto[0] = << >> /\ tracks = upto[2]
                  /\ upto[1] = Placed(upto[0], r) /\ upto[2] = Placed(upto[1], s)
  <2>1. PICK upto : /\ upto[0] = << >> /\ tracks = upto[2]
                    /\ \A k \in 1 .. 2 : upto[k] = Placed(upto[k - 1], reading[k])
    BY <1>1, RowsStepwise
  <2>2. 1 \in 1 .. 2 /\ 2 \in 1 .. 2 /\ 1 - 1 = 0 /\ 2 - 1 = 1  OBVIOUS
  <2> QED BY <2>1, <2>2
<1>3. PICK row : upto[1] = <<[name |-> r.name, kind |-> r.kind, packaging |-> r.packaging,
                              row |-> row]>>
                 /\ (r.kind = "video" => row = 0)
  <2> DEFINE Of(kind) == {e \in ToSet(<< >>) : e.kind = kind}
             next     == Cardinality({e.row : e \in Of("video") \cup Of("audio")})
  <2>1. PICK row : /\ Placed(<< >>, r) = Append(<< >>, [name |-> r.name, kind |-> r.kind,
                                                packaging |-> r.packaging, row |-> row])
                   /\ r.kind = "video" => row = next
    BY DEF Placed
  <2>2. ToSet(<< >>) = {}  BY DEF ToSet
  <2>3. {e.row : e \in Of("video") \cup Of("audio")} = {}  BY <2>2
  <2>4. next = 0  BY <2>3, FS_EmptySet
  <2> HIDE DEF next
  <2> QED BY <1>2, <2>1, <2>4, Appended
<1> DEFINE first == [name |-> r.name, kind |-> r.kind, packaging |-> r.packaging, row |-> row]
           Of(kind)  == {e \in {first} : e.kind = kind}
           paired    == {v.row : v \in {v \in Of("video") : s.name = v.name \o AudioSuffix}}
           programme == {v.row : v \in {v \in Of("video") : v.packaging = "legacy"}}
                          \ {a.row : a \in Of("audio")}
<1>4. PICK second : /\ tracks = <<first, second>>
                    /\ second.kind = s.kind /\ second.packaging = s.packaging
                    /\ (s.kind = "audio" /\ paired # {}) => second.row = Min(paired)
                    /\ (s.kind = "audio" /\ paired = {} /\ s.packaging = "legacy"
                          /\ programme # {}) => second.row = Min(programme)
  <2>1. ToSet(<<first>>) = {first}  BY DEF ToSet
  <2> DEFINE OfP(kind)  == {e \in ToSet(<<first>>) : e.kind = kind}
             pairedP    == {v.row : v \in {v \in OfP("video") : s.name = v.name \o AudioSuffix}}
             programmeP == {v.row : v \in {v \in OfP("video") : v.packaging = "legacy"}}
                             \ {a.row : a \in OfP("audio")}
  <2> DEFINE Second(w) == [name |-> s.name, kind |-> s.kind, packaging |-> s.packaging, row |-> w]
  <2>2. PICK there :
          /\ Placed(<<first>>, s) = Append(<<first>>, Second(there))
          /\ (s.kind = "audio" /\ pairedP # {}) => there = Min(pairedP)
          /\ (s.kind = "audio" /\ pairedP = {} /\ s.packaging = "legacy" /\ programmeP # {})
               => there = Min(programmeP)
    BY DEF Placed
  <2>3. \A kind : OfP(kind) = Of(kind)  BY <2>1
  <2>4. pairedP = paired /\ programmeP = programme
    <3> HIDE DEF Of, OfP
    <3> QED BY <2>3
  <2> HIDE DEF paired, programme, pairedP, programmeP, first
  <2>5. /\ Second(there).kind = s.kind /\ Second(there).packaging = s.packaging
        /\ Second(there).row = there
    OBVIOUS
  <2>6. upto[1] = <<first>>  BY <1>3 DEF first
  <2> HIDE DEF Second, tracks, r, s
  <2>7. tracks = <<first, Second(there)>>  BY <1>2, <2>2, <2>6, Appended
  <2> QED BY <2>2, <2>4, <2>5, <2>7
<1>5. first.kind = "video" /\ first.packaging = "legacy" /\ s.kind = "audio" /\ s.packaging = "legacy"
  <2>1. tracks[1] = first /\ tracks[2] = second  BY <1>4
  <2> HIDE DEF first, tracks
  <2> QED BY <1>4, <2>1 DEF tracks
<1>6. first.row = 0  BY <1>3, <1>5
<1> HIDE DEF first
<1>7. Of("video") = {first} /\ Of("audio") = {}  BY <1>5
<1> HIDE DEF Of
<1>8. programme = {0}  BY <1>5, <1>6, <1>7
<1>9. paired = {} \/ paired = {0}  BY <1>6, <1>7
<1>10. Min({0}) = 0
  <2>1. {0} \subseteq Nat /\ {0} # {}  OBVIOUS
  <2>2. Min({0}) \in {0}  BY <2>1, MinIs
  <2> QED BY <2>2
<1> HIDE DEF programme, paired
<1>11. second.row = 0  BY <1>4, <1>5, <1>8, <1>9, <1>10
<1>12. tracks[1] = first /\ tracks[2] = second  BY <1>4
<1> QED BY <1>6, <1>11, <1>12

\* What this package published reads back as the relation it was published from, of
\* however many pads and rows: no two pads share a name, as long as the publication's
\* own names are apart and no fallback is among them; a sound is found by the name of
\* its picture, and by no other; and the rows come out under the names they went in by.
\* A foreign feed of a picture and a sound is one row.
THEOREM ReaderRowsReadBack == Decimals => (Spec => []RowsReadBack)
<1> SUFFICES ASSUME Decimals PROVE Spec => []RowsReadBack  OBVIOUS
<1>1. broadcast \in Broadcasts \cup {Nothing} => RowsReadBack
  <2> SUFFICES ASSUME broadcast \in Broadcasts \cup {Nothing},
                      NEW reading \in Readings(broadcast.catalog)
               PROVE  LET pads   == broadcast.pads
                          tracks == Rows(reading)
                          Media  == {p \in DOMAIN pads : pads[p].kind # "data"}
                          Track(p) == TrackOf(pads, tracks, p)
                      IN  IF pads # << >>
                          THEN Named(pads) =>
                            /\ Cardinality({TrackName(pads, p) : p \in DOMAIN pads}) = Len(pads)
                            /\ \A p, q \in Media :
                                 tracks[Track(p)].row = tracks[Track(q)].row
                                   <=> pads[p].row = pads[q].row
                            /\ \A p \in Media : pads[p].name # None =>
                                 RowName(tracks, Relation(tracks)[Index(tracks, Track(p))])
                                   = pads[p].name
                          ELSE /\ Len(tracks) = 2 /\ tracks[1].kind = "video"
                               /\ tracks[2].kind = "audio"
                               /\ tracks[1].packaging = "legacy" /\ tracks[2].packaging = "legacy"
                               => tracks[1].row = tracks[2].row
    BY DEF RowsReadBack, TrackOf
  <2> DEFINE pads    == broadcast.pads
             catalog == broadcast.catalog
             tracks  == Rows(reading)
  <2>1. /\ IsFiniteSet(catalog)
        /\ pads # << >> => pads \in Seq(PadType) /\ catalog = CatalogOf(pads)
    <3>1. CASE broadcast \in Broadcasts  BY <3>1, CatalogAssumption, PublishedAssumption
    <3>2. CASE broadcast = Nothing
      <4>1. catalog = {} /\ pads = << >>  BY <3>2 DEF Nothing
      <4> HIDE DEF catalog, pads
      <4> QED BY <4>1, FS_EmptySet
    <3> QED BY <3>1, <3>2
  <2>2. reading \in Readings(catalog)  OBVIOUS
  <2> HIDE DEF pads, catalog
  <2>3. CASE pads = << >>
    <3>1. reading \in Seq(catalog)  BY <2>1, <2>2, ReadingIs
    <3>2. /\ Len(tracks) = 2 /\ tracks[1].kind = "video" /\ tracks[2].kind = "audio"
          /\ tracks[1].packaging = "legacy" /\ tracks[2].packaging = "legacy"
          => tracks[1].row = tracks[2].row
      BY <3>1, FeedOnOneRow
    <3> HIDE DEF tracks
    <3> QED BY <2>3, <3>2 DEF pads, tracks
  <2>4. CASE pads # << >> /\ Named(pads)
    <3>1. /\ pads \in Seq(PadType) /\ IsFiniteSet(CatalogOf(pads))
          /\ reading \in Readings(CatalogOf(pads))
      BY <2>1, <2>2, <2>4
    <3>2. Cardinality({TrackName(pads, p) : p \in DOMAIN pads}) = Len(pads)
      BY <2>4, <3>1, NamesCounted
    <3>3. \A p, q \in DOMAIN pads : pads[p].kind # "data" /\ pads[q].kind # "data" =>
            (tracks[TrackOf(pads, tracks, p)].row = tracks[TrackOf(pads, tracks, q)].row
               <=> pads[p].row = pads[q].row)
      BY <2>4, <3>1, RowsAsHanded
    <3>4. ASSUME NEW p \in DOMAIN pads, pads[p].kind # "data", pads[p].name # None
          PROVE  RowName(tracks, Relation(tracks)[Index(tracks, TrackOf(pads, tracks, p))])
                   = pads[p].name
      <4> DEFINE t == TrackOf(pads, tracks, p)
      <4>1. t \in 1 .. Len(reading)  BY <2>4, <3>1, TrackOfIs
      <4>2. tracks \in Seq(PlacedType) /\ Len(tracks) = Len(reading)
        BY <2>4, <3>1, PublishedIs, RowsPlaced DEF RowsAre
      <4>3. RowName(tracks, tracks[t].row) = pads[p].name  BY <2>4, <3>1, <3>4, RowNamed
      <4> HIDE DEF t, tracks
      <4>4. Relation(tracks)[Index(tracks, t)] = tracks[t].row  BY <4>1, <4>2, RelationHas
      <4> QED BY <4>3, <4>4 DEF t
    <3> HIDE DEF tracks
    <3> QED BY <2>4, <3>2, <3>3, <3>4 DEF pads, tracks
  <2>5. CASE pads # << >> /\ ~Named(pads)  BY <2>5 DEF pads
  <2> QED BY <2>3, <2>4, <2>5
<1> QED BY <1>1, BroadcastIs, PTL
=============================================================================
