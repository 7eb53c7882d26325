---------------------------- MODULE HoldQueueHoles ----------------------------
(***************************************************************************)
(* Proofs about the holes of the reorder hold (HoldQueue), about what      *)
(* becomes of every group, and about what the held frames weigh, for any   *)
(* values of its constants.  They rest on the invariant HoldInv of         *)
(* HoldQueueProofs.                                                        *)
(***************************************************************************)
EXTENDS HoldQueueProofs

-----------------------------------------------------------------------------
(* What the operations do to what is counted and held.                     *)

\* What is counted of holes.
Holes(c) == <<c.holes_opened, c.holes_filled, c.holes_abandoned>>

\* A step is an arrival, a take, or one of the operations that do neither.
LEMMA StepCases ==
  ASSUME [Next]_vars
  PROVE  \/ \E s \in Sequence, frames \in Seq(Frame), d \in Decodable, complete \in BOOLEAN :
              Arrive(s, frames, d, complete)
         \/ \E last \in BOOLEAN : Take(last)
         \/ (\E s \in Sequence : Refused(s)) \/ Restart \/ Tick \/ UNCHANGED vars
<1> DEFINE Arrives == \E s \in Sequence, frames \in Seq(Frame), d \in Decodable,
                         complete \in BOOLEAN : Arrive(s, frames, d, complete)
<1>1. ASSUME NEW s \in Sequence, NEW f \in Frame, NEW d \in Decodable, ReadFrame(s, f, d)
      PROVE  Arrives
  <2>1. Arrive(s, <<f>>, d, FALSE)
    BY <1>1 DEF ReadFrame
  <2>2. <<f>> \in Seq(Frame)
    OBVIOUS
  <2>3. QED BY <2>1, <2>2
<1>2. ASSUME NEW s \in Sequence, End(s)
      PROVE  Arrives
  <2>1. Arrive(s, << >>, "unknown", TRUE)
    BY <1>2 DEF End
  <2>2. << >> \in Seq(Frame) /\ "unknown" \in Decodable
    BY DEF Decodable
  <2>3. QED BY <2>1, <2>2
<1>3. ASSUME NEW s \in Sequence, NEW a \in Answers, NEW d \in {"yes", "no"}, Push(s, a, d)
      PROVE  Arrives
  <2>1. Arrive(s, a, d, TRUE)
    BY <1>3 DEF Push
  <2>2. a \in Seq(Frame) /\ d \in Decodable
    BY AnswersAreFrames DEF Decodable
  <2>3. QED BY <2>1, <2>2
<1> HIDE DEF Arrives
<1>4. \/ Arrives
      \/ \E last \in BOOLEAN : Take(last)
      \/ (\E s \in Sequence : Refused(s)) \/ Restart \/ Tick \/ UNCHANGED vars
  BY <1>1, <1>2, <1>3 DEF Next
<1>5. QED BY <1>4 DEF Arrives

\* An arrival counts its group once, and files it or not accordingly; it touches
\* no hole but the one that waits for it.
LEMMA ArriveFacts ==
  ASSUME HoldInv, NEW s \in Sequence, NEW frames \in Seq(Frame),
         NEW decides \in Decodable, NEW complete \in BOOLEAN,
         Arrive(s, frames, decides, complete)
  PROVE  /\ Holes(counters') = Holes(counters)
         /\ UNCHANGED <<cursor, gap_since>>
         /\ \/ DOMAIN pending' = DOMAIN pending /\ UNCHANGED fetching
            \/ /\ s \notin DOMAIN pending /\ DOMAIN pending' = DOMAIN pending \cup {s}
               /\ fetching' = IF fetching = s THEN None ELSE fetching
<1> USE DEF HoldInv
<1>0. counters \in Counters /\ UNCHANGED cursor
  BY DEF TypeOK, Arrive
<1>1. CASE ArriveLetGo(s, complete)
  BY <1>0, <1>1 DEF ArriveLetGo, hole
<1>2. CASE ArriveRepeated(s, complete)
  <2>1. counters' = Repeat(counters) /\ UNCHANGED <<pending, gap_since, fetching>>
    BY <1>2 DEF ArriveRepeated, hole
  <2>2. Holes(counters') = Holes(counters)
    BY <1>0, <2>1 DEF Repeat, Holes, Counters
  <2>3. QED BY <1>0, <2>1, <2>2
<1>3. CASE ArriveMore(s, frames, decides, complete)
  <2>1. (counters' = Repeat(counters) \/ counters' = counters) /\ UNCHANGED <<gap_since, fetching>>
    BY <1>3 DEF ArriveMore, hole
  <2>2. Holes(counters') = Holes(counters)
    BY <1>0, <2>1 DEF Repeat, Holes, Counters
  <2>3. DOMAIN pending' = DOMAIN pending
    BY <1>3, MoreOfGroup
  <2>4. QED BY <1>0, <2>1, <2>2, <2>3
<1>4. CASE ArriveLate(s, complete)
  <2>1. /\ \/ counters' = Repeat(counters)
           \/ counters' = [counters EXCEPT !.received = @ + 1, !.dropped_late = @ + 1]
        /\ UNCHANGED <<pending, gap_since, fetching>>
    BY <1>4 DEF ArriveLate, hole
  <2>2. Holes(counters') = Holes(counters)
    BY <1>0, <2>1 DEF Repeat, Holes, Counters
  <2>3. QED BY <1>0, <2>1, <2>2
<1>5. CASE ArriveNew(s, frames, decides, complete)
  <2>1. counters' = [counters EXCEPT !.received = @ + 1] /\ UNCHANGED gap_since
    BY <1>5 DEF ArriveNew
  <2>2. Holes(counters') = Holes(counters)
    BY <1>0, <2>1 DEF Holes, Counters
  <2>3. s \notin DOMAIN pending /\ DOMAIN pending' = DOMAIN pending \cup {s}
    BY <1>5 DEF ArriveNew, Hold
  <2>4. fetching' = IF fetching = s THEN None ELSE fetching
    BY <1>5 DEF ArriveNew
  <2>5. QED BY <1>0, <2>1, <2>2, <2>3, <2>4
<1>6. QED BY <1>1, <1>2, <1>3, <1>4, <1>5 DEF Arrive

\* A group handed on either leaves the hold, is counted and passed by the
\* cursor, or is what the cursor stays at.
Effect(g, skipped, tally) ==
  /\ g \in Nat /\ Holes(counters') = Holes(tally)
  /\ \/ /\ cursor' = g + 1 /\ DOMAIN pending' = DOMAIN pending \ (skipped \cup {g})
        /\ counters' = [tally EXCEPT !.delivered = @ + 1]
     \/ /\ cursor' = g /\ DOMAIN pending' = DOMAIN pending \ skipped
        /\ ~pending[g].complete
        /\ counters' = tally
  /\ \A s \in DOMAIN pending' : s # g => pending'[s] = pending[s]

\* What a hand-on does to the cursor, to the hold and to the counters.
LEMMA HandOnFacts ==
  ASSUME HoldInv, NEW g, NEW skipped, NEW tally, NEW last \in BOOLEAN,
         HandsOn(g, skipped, tally, last)
  PROVE  Effect(g, skipped, tally)
<1> DEFINE left == DOMAIN pending \ skipped
<1>1. g \in Nat /\ g \in left /\ tally \in Counters
  BY HoldAssumption DEF HandsOn, HoldInv, TypeOK, Sequence
<1>2. CASE /\ pending' = Restrict(pending, left \ {g}) /\ cursor' = g + 1
           /\ counters' = [tally EXCEPT !.delivered = @ + 1]
  <2>1. Holes(counters') = Holes(tally)
    BY <1>1, <1>2 DEF Holes, Counters
  <2>2. DOMAIN pending' = left \ {g} /\ \A s \in left \ {g} : pending'[s] = pending[s]
    BY <1>2 DEF Restrict
  <2>3. QED BY <1>1, <1>2, <2>1, <2>2 DEF Effect
<1>3. CASE /\ pending' = [Restrict(pending, left) EXCEPT ![g].frames = << >>]
           /\ cursor' = g /\ counters' = tally
           /\ ~Done(pending[g], left # {g}, last)
  <2>1. DOMAIN pending' = left /\ \A s \in left : s # g => pending'[s] = pending[s]
    BY <1>3 DEF Restrict
  <2>2. ~pending[g].complete
    BY <1>3 DEF Done
  <2>3. QED BY <1>1, <1>3, <2>1, <2>2 DEF Effect
<1>4. QED BY <1>2, <1>3 DEF HandsOn, HandOn

-----------------------------------------------------------------------------
(* Holes.  That a hole is counted once, and that the one fetch is for it,  *)
(* hold each other up: a fetch whose hole was gone would be taken over by  *)
(* the next one.                                                           *)

HoleInv == HoldInv /\ HoleAccounting /\ AskIsForTheHole

\* All the holes that were opened and are over.
HolesOver(c) == c.holes_filled + c.holes_abandoned["end"] + c.holes_abandoned["restart"]
           + c.holes_abandoned["budget"] + c.holes_abandoned["gone"]

\* How many holes are over is a number.
LEMMA OverType ==
  ASSUME NEW c \in Counters
  PROVE  /\ HolesOver(c) \in Nat /\ c.holes_opened \in Nat
         /\ \A r \in Reasons : c.holes_abandoned[r] \in Nat
<1>1. /\ c.holes_opened \in Nat /\ c.holes_filled \in Nat
      /\ \A r \in Reasons : c.holes_abandoned[r] \in Nat
  BY DEF Counters
<1>2. QED BY <1>1 DEF HolesOver, Reasons

\* The sums speak of what is counted of holes alone.
LEMMA SameHoles ==
  ASSUME NEW c, NEW d, Holes(d) = Holes(c)
  PROVE  /\ HolesOver(d) = HolesOver(c) /\ d.holes_opened = c.holes_opened
         /\ Abandoned(d) = Abandoned(c)
BY DEF Holes, HolesOver, Abandoned

\* Counting a hole opened changes no other count of holes.
LEMMA OpeningAHole ==
  ASSUME NEW c \in Counters, NEW d, d = [c EXCEPT !.holes_opened = @ + 1]
  PROVE  HolesOver(d) = HolesOver(c) /\ d.holes_opened = c.holes_opened + 1 /\ Abandoned(d) = Abandoned(c)
BY DEF HolesOver, Abandoned, Counters

\* Counting a hole filled is one more hole over.
LEMMA FillingAHole ==
  ASSUME NEW c \in Counters, NEW d, d = [c EXCEPT !.holes_filled = @ + 1]
  PROVE  HolesOver(d) = HolesOver(c) + 1 /\ d.holes_opened = c.holes_opened
<1>1. /\ d.holes_filled = c.holes_filled + 1 /\ d.holes_abandoned = c.holes_abandoned
      /\ d.holes_opened = c.holes_opened /\ c.holes_filled \in Nat
  BY DEF Counters
<1>2. QED BY <1>1, OverType DEF HolesOver, Reasons

\* Counting a hole given up on, for whichever reason, is one more hole over.
LEMMA AbandoningAHole ==
  ASSUME NEW c \in Counters, NEW r \in Reasons, NEW d,
         d = [c EXCEPT !.holes_abandoned[r] = @ + 1]
  PROVE  /\ HolesOver(d) = HolesOver(c) + 1 /\ d.holes_opened = c.holes_opened
         /\ Abandoned(d) = Abandoned(c) + 1
<1>1. /\ d.holes_filled = c.holes_filled /\ d.holes_opened = c.holes_opened
      /\ d.holes_abandoned = [c.holes_abandoned EXCEPT ![r] = @ + 1]
      /\ c.holes_filled \in Nat /\ DOMAIN c.holes_abandoned = Reasons
  BY DEF Counters
<1>2. \A q \in Reasons : d.holes_abandoned[q] = IF q = r THEN c.holes_abandoned[q] + 1
                                                ELSE c.holes_abandoned[q]
  BY <1>1
<1>3. QED BY <1>1, <1>2, OverType DEF HolesOver, Abandoned, Reasons

\* An empty queue has no hole.
LEMMA InitHoles == Init => HoleInv
<1> SUFFICES ASSUME Init PROVE HoleInv
  OBVIOUS
<1>1. HoldInv
  BY InitHolds
<1>2. HoleAccounting /\ AskIsForTheHole
  BY DEF Init, HoleAccounting, AskIsForTheHole, Reasons
<1>3. QED BY <1>1, <1>2 DEF HoleInv

\* No arrival opens or closes a hole: it only ends the fetch for one.
LEMMA ArrivalKeepsHoles ==
  ASSUME HoleInv, NEW s \in Sequence, NEW frames \in Seq(Frame),
         NEW decides \in Decodable, NEW complete \in BOOLEAN,
         Arrive(s, frames, decides, complete), HoldInv'
  PROVE  HoleAccounting' /\ AskIsForTheHole'
<1> USE DEF HoleInv
<1>1. /\ Holes(counters') = Holes(counters)
      /\ UNCHANGED <<cursor, gap_since>>
      /\ \/ DOMAIN pending' = DOMAIN pending /\ UNCHANGED fetching
         \/ /\ s \notin DOMAIN pending /\ DOMAIN pending' = DOMAIN pending \cup {s}
            /\ fetching' = IF fetching = s THEN None ELSE fetching
  BY ArriveFacts
<1>2. HoleAccounting'
  <2>1. HolesOver(counters') = HolesOver(counters) /\ counters'.holes_opened = counters.holes_opened
    BY <1>1, SameHoles
  <2>2. QED BY <1>1, <2>1 DEF HoleAccounting, HolesOver
<1>3. AskIsForTheHole'
  BY <1>1 DEF AskIsForTheHole
<1>4. QED BY <1>2, <1>3

\* A take opens a hole, waits on it, or ends it and resets what was kept of it.
LEMMA TakeKeepsHoles ==
  ASSUME HoleInv, NEW last \in BOOLEAN, Take(last), HoldInv'
  PROVE  HoleAccounting' /\ AskIsForTheHole'
<1> USE DEF HoleInv
<1>0. /\ counters \in Counters /\ HolesOver(counters) \in Nat
      /\ counters.holes_opened = HolesOver(counters) + (IF gap_since = None THEN 0 ELSE 1)
      /\ gap_since # None => cursor # None /\ DOMAIN pending # {}
  BY OverType DEF HoldInv, TypeOK, HoleAccounting, HolesOver
<1>1. ASSUME gap_since' = None, fetching' = None,
             counters'.holes_opened = HolesOver(counters')
      PROVE  HoleAccounting' /\ AskIsForTheHole'
  <2>1. HolesOver(counters') \in Nat
    BY OverType DEF HoldInv, TypeOK
  <2>2. counters'.holes_opened = HolesOver(counters') + 0
    BY <1>1, <2>1
  <2>3. QED BY <1>1, <2>2 DEF HoleAccounting, HolesOver, AskIsForTheHole
<1>2. Opened.holes_opened = HolesOver(Opened) + 1
  <2>1. CASE gap_since = None
    BY <1>0, <2>1, OpeningAHole DEF Opened
  <2>2. CASE gap_since # None
    BY <1>0, <2>2 DEF Opened
  <2>3. QED BY <2>1, <2>2
<1>3. CASE TakeLiveJoin(last) \/ TakeLiveEnd(last) \/ TakeBacklogJoin(last)
  <2>1. cursor = None /\ UNCHANGED hole
    BY <1>3 DEF TakeLiveJoin, TakeLiveEnd, TakeBacklogJoin
  <2>2. gap_since' = None /\ fetching' = None
    BY <1>0, <2>1 DEF hole, AskIsForTheHole
  <2>3. Holes(counters') = Holes(counters)
    <3>1. CASE TakeLiveJoin(last)
      <4> DEFINE n     == Cardinality({s \in DOMAIN pending : s < join_ready})
                 tally == [counters EXCEPT !.skipped_join = @ + n]
      <4>1. Holes(counters') = Holes(tally)
        BY <3>1, LiveJoinHandsOn, HandOnFacts DEF Effect
      <4>2. Holes(tally) = Holes(counters)
        BY <1>0 DEF Holes, Counters
      <4>3. QED BY <4>1, <4>2
    <3>2. CASE TakeLiveEnd(last) \/ TakeBacklogJoin(last)
      BY <3>2, JoinHandsOn, HandOnFacts DEF Effect
    <3>3. QED BY <1>3, <3>1, <3>2
  <2>4. gap_since = None
    BY <1>0, <2>1
  <2>5. counters'.holes_opened = HolesOver(counters')
    BY <1>0, <2>3, <2>4, SameHoles
  <2>6. QED BY <1>1, <2>2, <2>5
<1>4. CASE TakeAtCursor(last)
  <2> DEFINE tally == IF gap_since # None THEN [counters EXCEPT !.holes_filled = @ + 1]
                      ELSE counters
  <2>1. Holes(counters') = Holes(tally) /\ tally \in Counters
    BY <1>0, <1>4, AtCursorHandsOn, HandOnFacts, Counting DEF Effect
  <2>2. gap_since' = None /\ fetching' = None
    BY <1>4 DEF TakeAtCursor, NoHole, hole, AskIsForTheHole
  <2>3. tally.holes_opened = HolesOver(tally)
    <3>1. CASE gap_since = None
      BY <1>0, <3>1
    <3>2. CASE gap_since # None
      BY <1>0, <3>2, FillingAHole
    <3>3. QED BY <3>1, <3>2
  <2> HIDE DEF tally
  <2>4. counters'.holes_opened = HolesOver(counters')
    BY <2>1, <2>3, SameHoles
  <2>5. QED BY <1>1, <2>2, <2>4
<1>5. CASE TakeStepsOver(last)
  <2> DEFINE tally == [Opened EXCEPT !.holes_abandoned[Reason(last)] = @ + 1]
  <2>1. Reason(last) \in Reasons /\ Opened \in Counters
    BY <1>0, <1>5, StepsOverHandsOn, Counting DEF Opened
  <2>2. Holes(counters') = Holes(tally) /\ tally \in Counters
    BY <1>5, <2>1, StepsOverHandsOn, HandOnFacts, Counting DEF Effect
  <2>3. gap_since' = None /\ fetching' = None
    BY <1>5 DEF TakeStepsOver, NoHole
  <2>4. Opened.holes_opened = HolesOver(Opened) + 1
    BY <1>2
  <2>5. tally.holes_opened = HolesOver(tally)
    <3>1. HolesOver(tally) = HolesOver(Opened) + 1 /\ tally.holes_opened = Opened.holes_opened
      BY <2>1, AbandoningAHole
    <3>2. QED BY <2>4, <3>1
  <2> HIDE DEF tally
  <2>6. counters'.holes_opened = HolesOver(counters')
    BY <2>2, <2>5, SameHoles
  <2>7. QED BY <1>1, <2>3, <2>6
<1>6. CASE TakeEmpty
  <2>1. gap_since = None /\ gap_since' = None /\ UNCHANGED <<counters, fetching>>
    BY <1>0, <1>6 DEF TakeEmpty
  <2>2. fetching = None
    BY <2>1 DEF AskIsForTheHole
  <2>3. counters'.holes_opened = HolesOver(counters')
    BY <1>0, <2>1
  <2>4. QED BY <1>1, <2>1, <2>2, <2>3
<1>7. CASE TakeWaits(last)
  <2>1. /\ AtHole /\ gap_since' = Since /\ counters' = Opened
        /\ fetching' = fetching \/ fetching' = cursor
        /\ UNCHANGED <<pending, cursor>>
    BY <1>7 DEF TakeWaits
  <2>2. gap_since' # None
    BY <2>1, HoldAssumption DEF Since
  <2>3. cursor \notin DOMAIN pending
    BY <2>1, HoldAssumption DEF AtHole, HoldInv, TypeOK, Sequence
  <2>4. AskIsForTheHole'
    BY <2>1, <2>2, <2>3 DEF AskIsForTheHole
  <2>5. counters'.holes_opened = HolesOver(counters') + 1
    BY <1>2, <2>1
  <2>6. HoleAccounting'
    BY <2>1, <2>2, <2>5 DEF HoleAccounting, HolesOver, AtHole
  <2>7. QED BY <2>4, <2>6
<1>8. QED BY <1>3, <1>4, <1>5, <1>6, <1>7 DEF Take

\* Refusals, restarts and time leave the bookkeeping of holes right.
LEMMA OthersKeepHoles ==
  ASSUME HoleInv, (\E s \in Sequence : Refused(s)) \/ Restart \/ Tick \/ UNCHANGED vars
  PROVE  HoleAccounting' /\ AskIsForTheHole'
<1> USE DEF HoleInv
<1>1. UNCHANGED <<counters, cursor>> /\ DOMAIN pending' = DOMAIN pending
  BY DEF Refused, Restart, TakenUpAgain, Tick, vars
<1>2. gap_since' = None <=> gap_since = None
  <2>1. CASE Tick
    BY <2>1, HoldAssumption DEF Tick, HoldInv, TypeOK
  <2>2. CASE (\E s \in Sequence : Refused(s)) \/ Restart \/ UNCHANGED vars
    BY <2>2 DEF Refused, Restart, TakenUpAgain, vars, hole
  <2>3. QED BY <2>1, <2>2
<1>3. fetching' = fetching \/ fetching' = None
  BY DEF Refused, NoteGone, Restart, Tick, vars, hole
<1>4. QED BY <1>1, <1>2, <1>3 DEF HoleAccounting, AskIsForTheHole

\* Every step keeps the bookkeeping of holes right.
LEMMA StepKeepsHoles == HoleInv /\ [Next]_vars => HoleInv'
<1> SUFFICES ASSUME HoleInv, [Next]_vars PROVE HoleInv'
  OBVIOUS
<1>1. HoldInv'
  BY StepKeeps DEF HoleInv
<1>2. CASE \E s \in Sequence, frames \in Seq(Frame), d \in Decodable, complete \in BOOLEAN :
             Arrive(s, frames, d, complete)
  BY <1>1, <1>2, ArrivalKeepsHoles DEF HoleInv
<1>3. CASE \E last \in BOOLEAN : Take(last)
  BY <1>1, <1>3, TakeKeepsHoles DEF HoleInv
<1>4. CASE (\E s \in Sequence : Refused(s)) \/ Restart \/ Tick \/ UNCHANGED vars
  BY <1>1, <1>4, OthersKeepHoles DEF HoleInv
<1>5. QED BY <1>2, <1>3, <1>4, StepCases

\* The bookkeeping of holes is right in every state.
LEMMA HoleInvariant == Spec => []HoleInv
BY InitHoles, StepKeepsHoles, PTL DEF Spec

\* Every hole opened is filled, given up on for a counted reason, or stands open
\* at the cursor; there is never a second one (the hole arms of Queue::take).
THEOREM HolesAreCounted == Spec => []HoleAccounting
<1>1. HoleInv => HoleAccounting
  BY DEF HoleInv
<1>2. QED BY <1>1, HoleInvariant, PTL

\* The one fetch that is waited for is for the group missing at the cursor
\* (Queue::fetching).
THEOREM AsksForTheHole == Spec => []AskIsForTheHole
<1>1. HoleInv => AskIsForTheHole
  BY DEF HoleInv
<1>2. QED BY <1>1, HoleInvariant, PTL

-----------------------------------------------------------------------------
(* The cursor.                                                             *)

\* No step moves the cursor past a group in silence.
LEMMA StepSkipsNothing == HoldInv /\ [Next]_vars => [SkipsNothing]_vars
<1> SUFFICES ASSUME HoldInv, [Next]_vars PROVE SkipsNothing
  OBVIOUS
<1>1. CASE \E s \in Sequence, frames \in Seq(Frame), d \in Decodable, complete \in BOOLEAN :
             Arrive(s, frames, d, complete)
  BY <1>1 DEF Arrive, SkipsNothing
<1>2. CASE (\E s \in Sequence : Refused(s)) \/ Restart \/ Tick \/ UNCHANGED vars
  BY <1>2 DEF Refused, Restart, TakenUpAgain, Tick, vars, SkipsNothing
<1>3. ASSUME NEW last \in BOOLEAN, Take(last)
      PROVE  SkipsNothing
  <2>1. CASE \/ TakeLiveJoin(last) \/ TakeLiveEnd(last) \/ TakeBacklogJoin(last)
    BY <2>1 DEF TakeLiveJoin, TakeLiveEnd, TakeBacklogJoin, SkipsNothing
  <2>2. CASE TakeEmpty \/ TakeWaits(last)
    BY <2>2 DEF TakeEmpty, TakeWaits, SkipsNothing
  <2>3. CASE TakeAtCursor(last)
    <3> DEFINE tally == IF gap_since # None THEN [counters EXCEPT !.holes_filled = @ + 1]
                        ELSE counters
    <3>1. /\ cursor \in Nat
          /\ \/ cursor' = cursor + 1 /\ counters' = [tally EXCEPT !.delivered = @ + 1]
             \/ cursor' = cursor
      BY <2>3, AtCursorHandsOn, HandOnFacts DEF Effect
    <3>2. CASE cursor' = cursor
      BY <3>2 DEF SkipsNothing
    <3>3. CASE cursor' = cursor + 1 /\ counters' = [tally EXCEPT !.delivered = @ + 1]
      <4>1. counters'.delivered = counters.delivered + 1
        BY <3>3 DEF HoldInv, TypeOK, Counters
      <4>2. \A s \in DOMAIN pending : s \in Nat /\ s >= cursor
        BY <2>3 DEF TakeAtCursor, Oldest, HoldInv, TypeOK, Sequence
      <4>3. QED BY <3>1, <3>3, <4>1, <4>2 DEF SkipsNothing
    <3>4. QED BY <3>1, <3>2, <3>3
  <2>4. CASE TakeStepsOver(last)
    <3> DEFINE tally == [Opened EXCEPT !.holes_abandoned[Reason(last)] = @ + 1]
    <3>1. PICK g \in DOMAIN pending : HandsOn(g, {}, tally, last)
      BY <2>4, StepsOverHandsOn
    <3>2. Effect(g, {}, tally)
      BY <3>1, HandOnFacts
    <3>3. cursor # None => cursor \in Nat /\ g > cursor
      BY <2>4 DEF TakeStepsOver, AtHole, HoldInv, TypeOK
    <3>4. \A s \in DOMAIN pending : s \in Nat /\ s >= g
      BY <3>1 DEF HandsOn, Oldest, HoldInv, TypeOK, Sequence
    <3>5. Abandoned(counters') = Abandoned(counters) + 1
      <4>1. Opened \in Counters /\ counters \in Counters /\ Reason(last) \in Reasons
        BY <2>4, StepsOverHandsOn, Counting DEF Opened, HoldInv, TypeOK
      <4>2. Abandoned(Opened) = Abandoned(counters)
        <5>1. CASE gap_since = None
          BY <4>1, <5>1, OpeningAHole DEF Opened
        <5>2. CASE gap_since # None
          BY <5>2 DEF Opened
        <5>3. QED BY <5>1, <5>2
      <4>3. Abandoned(tally) = Abandoned(Opened) + 1
        BY <4>1, AbandoningAHole
      <4> HIDE DEF tally
      <4>4. Abandoned(counters') = Abandoned(tally)
        BY <3>2, SameHoles DEF Effect
      <4>5. QED BY <4>2, <4>3, <4>4
    <3>6. QED BY <3>2, <3>3, <3>4, <3>5 DEF Effect, SkipsNothing
  <2>5. QED BY <1>3, <2>1, <2>2, <2>3, <2>4 DEF Take
<1>4. QED BY <1>1, <1>2, <1>3, StepCases

\* The cursor never goes back, never passes a held group it does not hand on, and
\* passes a missing one only by giving up on a hole and counting it
\* (Queue::take and its handing on).
THEOREM SkipsAreCounted == Spec => NoSilentSkip
BY HoldInvariant, StepSkipsNothing, PTL DEF Spec, NoSilentSkip

-----------------------------------------------------------------------------
(* Groups that are let go.                                                 *)

PassInv == HoldInv /\ PassingIsSettled

\* An arrival lets go of the rest of its group only if that is settled.
LEMMA ArrivalKeepsPassing ==
  ASSUME PassInv, NEW s \in Sequence, NEW frames \in Seq(Frame), NEW decides \in Decodable,
         NEW complete \in BOOLEAN, Arrive(s, frames, decides, complete)
  PROVE  PassingIsSettled'
<1> USE DEF PassInv
<1>0. UNCHANGED cursor
  BY DEF Arrive
<1>1. CASE ArriveLetGo(s, complete)
  BY <1>0, <1>1 DEF ArriveLetGo, PassingIsSettled
<1>2. CASE ArriveRepeated(s, complete) \/ ArriveLate(s, complete)
  BY <1>0, <1>2 DEF ArriveRepeated, ArriveLate, LetGo, PassingIsSettled
<1>3. CASE ArriveMore(s, frames, decides, complete)
  <2>1. UNCHANGED passing /\ s \notin passing
    BY <1>3 DEF ArriveMore
  <2>2. /\ DOMAIN pending' = DOMAIN pending
        /\ \A t \in DOMAIN pending : t # s => pending'[t] = pending[t]
    BY <1>3, MoreOfGroup DEF HoldInv
  <2>3. QED BY <1>0, <2>1, <2>2 DEF PassingIsSettled
<1>4. CASE ArriveNew(s, frames, decides, complete)
  <2>1. UNCHANGED passing /\ s \notin passing
    BY <1>4 DEF ArriveNew
  <2>2. /\ DOMAIN pending' = DOMAIN pending \cup {s}
        /\ \A t \in DOMAIN pending : t # s => pending'[t] = pending[t]
    BY <1>4 DEF ArriveNew, Hold
  <2>3. QED BY <1>0, <2>1, <2>2 DEF PassingIsSettled
<1>5. QED BY <1>1, <1>2, <1>3, <1>4 DEF Arrive

\* A hand-on moves the cursor past what it hands on whole, and past what it lets
\* go below it.
LEMMA HandOnKeepsPassing ==
  ASSUME PassInv, NEW g, NEW skipped, NEW tally, NEW last \in BOOLEAN,
         HandsOn(g, skipped, tally, last), HoldInv',
         \A t \in passing' \ passing : t \in skipped
  PROVE  PassingIsSettled'
<1> USE DEF PassInv
<1>1. SUFFICES ASSUME NEW t \in passing'
               PROVE  \/ cursor' # None /\ t < cursor'
                      \/ t \in DOMAIN pending' /\ pending'[t].complete
  BY DEF PassingIsSettled
<1>2. Effect(g, skipped, tally)
  BY HandOnFacts
<1>3. /\ t \in Nat /\ cursor' # None /\ cursor' \in Nat /\ g <= cursor'
  BY <1>2, HoldAssumption DEF Effect, HoldInv, TypeOK, Sequence
<1>4. cursor # None => cursor \in Nat /\ cursor <= g
  BY DEF HandsOn, HoldInv, TypeOK, AheadOfCursor
<1>5. CASE t \in skipped
  BY <1>2, <1>3, <1>5 DEF HandsOn, Effect
<1>6. CASE t \in passing /\ t \notin skipped
  <2>1. \/ cursor # None /\ t < cursor
        \/ t \in DOMAIN pending /\ pending[t].complete
    BY <1>6 DEF PassingIsSettled
  <2>2. CASE cursor # None /\ t < cursor
    BY <1>2, <1>3, <1>4, <2>2 DEF Effect
  <2>3. CASE t \in DOMAIN pending /\ pending[t].complete
    <3>1. CASE t = g
      BY <1>2, <1>3, <2>3, <3>1 DEF Effect
    <3>2. CASE t # g
      BY <1>2, <1>6, <2>3, <3>2 DEF Effect
    <3>3. QED BY <3>1, <3>2
  <2>4. QED BY <2>1, <2>2, <2>3
<1>7. QED BY <1>5, <1>6

\* A take lets go of the rest of a group only by stepping over it at a live join.
LEMMA TakeKeepsPassing ==
  ASSUME PassInv, NEW last \in BOOLEAN, Take(last), HoldInv'
  PROVE  PassingIsSettled'
<1> USE DEF PassInv
<1>1. CASE TakeLiveJoin(last)
  <2> DEFINE skipped == {s \in DOMAIN pending : s < join_ready}
             tally   == [counters EXCEPT !.skipped_join = @ + Cardinality(skipped)]
  <2>1. HandsOn(join_ready, skipped, tally, last)
    BY <1>1, LiveJoinHandsOn
  <2>2. \A t \in passing' \ passing : t \in skipped
    BY <1>1 DEF TakeLiveJoin
  <2> HIDE DEF skipped, tally
  <2>3. QED BY <2>1, <2>2, HandOnKeepsPassing
<1>2. CASE TakeLiveEnd(last) \/ TakeBacklogJoin(last)
  <2>1. UNCHANGED passing
    BY <1>2 DEF TakeLiveEnd, TakeBacklogJoin
  <2>2. QED BY <1>2, <2>1, JoinHandsOn, HandOnKeepsPassing
<1>3. CASE TakeAtCursor(last)
  <2>1. UNCHANGED passing
    BY <1>3 DEF TakeAtCursor
  <2>2. QED BY <1>3, <2>1, AtCursorHandsOn, HandOnKeepsPassing
<1>4. CASE TakeStepsOver(last)
  <2>1. UNCHANGED passing
    BY <1>4 DEF TakeStepsOver
  <2>2. QED BY <1>4, <2>1, StepsOverHandsOn, HandOnKeepsPassing
<1>5. CASE TakeEmpty \/ TakeWaits(last)
  BY <1>5 DEF TakeEmpty, TakeWaits, PassingIsSettled
<1>6. QED BY <1>1, <1>2, <1>3, <1>4, <1>5 DEF Take

\* Every step lets go only of the settled.
LEMMA StepKeepsPassing == PassInv /\ [Next]_vars => PassInv'
<1> SUFFICES ASSUME PassInv, [Next]_vars PROVE PassInv'
  OBVIOUS
<1>1. HoldInv'
  BY StepKeeps DEF PassInv
<1>2. CASE (\E s \in Sequence : Refused(s)) \/ Restart \/ Tick \/ UNCHANGED vars
  <2>1. CASE Restart
    BY <1>1, <2>1 DEF Restart, TakenUpAgain, PassInv, PassingIsSettled
  <2>2. CASE (\E s \in Sequence : Refused(s)) \/ Tick \/ UNCHANGED vars
    BY <1>1, <2>2 DEF Refused, Tick, vars, PassInv, PassingIsSettled
  <2>3. QED BY <1>2, <2>1, <2>2
<1>3. QED BY <1>1, <1>2, StepCases, ArrivalKeepsPassing, TakeKeepsPassing DEF PassInv

\* Frames are only let go of a group whose place has passed or of one that is
\* held whole (Queue::passing).
THEOREM LetsGoOfTheSettled == Spec => []PassingIsSettled
<1>1. Init => PassInv
  BY InitHolds DEF Init, PassInv, PassingIsSettled
<1>2. PassInv => PassingIsSettled
  BY DEF PassInv
<1>3. QED BY <1>1, <1>2, StepKeepsPassing, PTL DEF Spec

-----------------------------------------------------------------------------
(* Every group is accounted for.                                           *)

AccountInv == HoldInv /\ Accounting

\* The groups that are neither held nor still to come.
Accounted(c) == c.delivered + c.dropped_late + c.skipped_join + c.repeated

\* How many groups are accounted for is a number.
LEMMA AccountedType ==
  ASSUME NEW c \in Counters
  PROVE  Accounted(c) \in Nat /\ c.received \in Nat
BY DEF Accounted, Counters

\* A repeat is received and accounted for at once.
LEMMA AccountingRepeat ==
  ASSUME NEW c \in Counters, NEW d, d = Repeat(c)
  PROVE  Accounted(d) = Accounted(c) + 1 /\ d.received = c.received + 1
<1>1. /\ d.repeated = c.repeated + 1 /\ d.received = c.received + 1
      /\ d.delivered = c.delivered /\ d.dropped_late = c.dropped_late
      /\ d.skipped_join = c.skipped_join
      /\ c.repeated \in Nat /\ c.delivered \in Nat /\ c.dropped_late \in Nat
      /\ c.skipped_join \in Nat
  BY DEF Repeat, Counters
<1>2. QED BY <1>1 DEF Accounted

\* So is a group that came too late.
LEMMA AccountingLate ==
  ASSUME NEW c \in Counters, NEW d,
         d = [c EXCEPT !.received = @ + 1, !.dropped_late = @ + 1]
  PROVE  Accounted(d) = Accounted(c) + 1 /\ d.received = c.received + 1
<1>1. /\ d.dropped_late = c.dropped_late + 1 /\ d.received = c.received + 1
      /\ d.delivered = c.delivered /\ d.repeated = c.repeated
      /\ d.skipped_join = c.skipped_join
      /\ c.repeated \in Nat /\ c.delivered \in Nat /\ c.dropped_late \in Nat
      /\ c.skipped_join \in Nat
  BY DEF Counters
<1>2. QED BY <1>1 DEF Accounted

\* A new group is received and accounted for by being held.
LEMMA AccountingNew ==
  ASSUME NEW c \in Counters, NEW d, d = [c EXCEPT !.received = @ + 1]
  PROVE  Accounted(d) = Accounted(c) /\ d.received = c.received + 1
BY DEF Accounted, Counters

\* A delivered group is one more accounted for.
LEMMA AccountingDelivered ==
  ASSUME NEW c \in Counters, NEW d, d = [c EXCEPT !.delivered = @ + 1]
  PROVE  Accounted(d) = Accounted(c) + 1 /\ d.received = c.received
<1>1. /\ d.delivered = c.delivered + 1 /\ d.received = c.received
      /\ d.dropped_late = c.dropped_late /\ d.repeated = c.repeated
      /\ d.skipped_join = c.skipped_join
      /\ c.repeated \in Nat /\ c.delivered \in Nat /\ c.dropped_late \in Nat
      /\ c.skipped_join \in Nat
  BY DEF Counters
<1>2. QED BY <1>1 DEF Accounted

\* So is each group a live join stepped over.
LEMMA AccountingSkipped ==
  ASSUME NEW c \in Counters, NEW n \in Nat, NEW d, d = [c EXCEPT !.skipped_join = @ + n]
  PROVE  Accounted(d) = Accounted(c) + n /\ d.received = c.received
<1>1. /\ d.skipped_join = c.skipped_join + n /\ d.received = c.received
      /\ d.delivered = c.delivered /\ d.repeated = c.repeated
      /\ d.dropped_late = c.dropped_late
      /\ c.repeated \in Nat /\ c.delivered \in Nat /\ c.dropped_late \in Nat
      /\ c.skipped_join \in Nat
  BY DEF Counters
<1>2. QED BY <1>1 DEF Accounted

\* Counting holes accounts for no group.
LEMMA AccountingHoles ==
  ASSUME NEW c \in Counters, NEW d,
         \/ d = [c EXCEPT !.holes_opened = @ + 1]
         \/ d = [c EXCEPT !.holes_filled = @ + 1]
         \/ \E r \in Reasons : d = [c EXCEPT !.holes_abandoned[r] = @ + 1]
  PROVE  Accounted(d) = Accounted(c) /\ d.received = c.received
BY DEF Accounted, Counters

\* Taking a part away leaves as many fewer as the part has.
LEMMA FewerByASubset ==
  ASSUME NEW S, IsFiniteSet(S), NEW T, T \subseteq S
  PROVE  IsFiniteSet(S \ T) /\ Cardinality(S \ T) = Cardinality(S) - Cardinality(T)
<1>1. S \cap T = T
  OBVIOUS
<1>2. QED BY <1>1, FS_Difference

\* Every arrival is counted once.
LEMMA ArrivalAccounts ==
  ASSUME AccountInv, NEW s \in Sequence, NEW frames \in Seq(Frame),
         NEW decides \in Decodable, NEW complete \in BOOLEAN,
         Arrive(s, frames, decides, complete)
  PROVE  Accounting'
<1> DEFINE held == Cardinality(DOMAIN pending)
<1>0. /\ counters \in Counters /\ IsFiniteSet(DOMAIN pending) /\ held \in Nat
      /\ Accounted(counters) \in Nat /\ counters.received = Accounted(counters) + held
  BY SequenceFinite, AccountedType DEF AccountInv, HoldInv, TypeOK, Accounting, Accounted
<1>1. ASSUME DOMAIN pending' = DOMAIN pending,
             \/ counters' = counters \/ counters' = Repeat(counters)
             \/ counters' = [counters EXCEPT !.received = @ + 1, !.dropped_late = @ + 1]
      PROVE  Accounting'
  <2>1. held' = held
    BY <1>1
  <2>2. counters'.received = Accounted(counters') + held
    <3>1. CASE counters' = counters
      BY <1>0, <3>1
    <3>2. CASE counters' = Repeat(counters)
      BY <1>0, <3>2, AccountingRepeat
    <3>3. CASE counters' = [counters EXCEPT !.received = @ + 1, !.dropped_late = @ + 1]
      <4>1. Accounted(counters') = Accounted(counters) + 1
            /\ counters'.received = counters.received + 1
        BY <1>0, <3>3, AccountingLate
      <4> HIDE DEF held
      <4>2. QED BY <1>0, <4>1
    <3>4. QED BY <1>1, <3>1, <3>2, <3>3
  <2>3. QED BY <2>1, <2>2 DEF Accounting, Accounted
<1>2. CASE ArriveLetGo(s, complete) \/ ArriveRepeated(s, complete) \/ ArriveLate(s, complete)
  <2>1. /\ DOMAIN pending' = DOMAIN pending
        /\ \/ counters' = counters \/ counters' = Repeat(counters)
           \/ counters' = [counters EXCEPT !.received = @ + 1, !.dropped_late = @ + 1]
    BY <1>2 DEF ArriveLetGo, ArriveRepeated, ArriveLate
  <2>2. QED BY <1>1, <2>1
<1>3. CASE ArriveMore(s, frames, decides, complete)
  <2>1. DOMAIN pending' = DOMAIN pending
    BY <1>3, MoreOfGroup DEF AccountInv, HoldInv
  <2>2. counters' = Repeat(counters) \/ counters' = counters
    BY <1>3 DEF ArriveMore
  <2>3. QED BY <1>1, <2>1, <2>2
<1>4. CASE ArriveNew(s, frames, decides, complete)
  <2>1. s \notin DOMAIN pending /\ DOMAIN pending' = DOMAIN pending \cup {s}
    BY <1>4 DEF ArriveNew, Hold
  <2>2. Cardinality(DOMAIN pending') = held + 1
    BY <1>0, <2>1, FS_AddElement
  <2>3. counters' = [counters EXCEPT !.received = @ + 1]
    BY <1>4 DEF ArriveNew
  <2>4. counters'.received = Accounted(counters') + Cardinality(DOMAIN pending')
    BY <1>0, <2>2, <2>3, AccountingNew
  <2>5. QED BY <2>4 DEF Accounting, Accounted
<1>5. QED BY <1>2, <1>3, <1>4 DEF Arrive

\* A group that is handed on and done is delivered, one that is not done is held;
\* those let go below it were counted first.
LEMMA HandOnAccounts ==
  ASSUME AccountInv, NEW g, NEW skipped, NEW tally, NEW last \in BOOLEAN,
         HandsOn(g, skipped, tally, last), tally.received = counters.received,
         Accounted(tally) = Accounted(counters) + Cardinality(skipped)
  PROVE  Accounting'
<1> DEFINE held == Cardinality(DOMAIN pending)
           n    == Cardinality(skipped)
           left == DOMAIN pending \ skipped
<1>0. /\ tally \in Counters /\ g \in left /\ skipped \subseteq DOMAIN pending
      /\ DOMAIN pending \subseteq Sequence
  BY DEF HandsOn, AccountInv, HoldInv, TypeOK
<1>1. /\ IsFiniteSet(DOMAIN pending) /\ held \in Nat /\ n \in Nat
      /\ Accounted(counters) \in Nat /\ counters.received = Accounted(counters) + held
  <2>1. IsFiniteSet(DOMAIN pending) /\ held \in Nat
    BY <1>0, SequenceFinite
  <2>2. skipped \in SUBSET Sequence
    BY <1>0
  <2>3. n \in Nat
    BY <2>2, SequenceFinite
  <2>4. Accounted(counters) \in Nat
    BY AccountedType DEF AccountInv, HoldInv, TypeOK
  <2>5. counters.received = Accounted(counters) + held
    BY DEF AccountInv, Accounting, Accounted
  <2>6. QED BY <2>1, <2>3, <2>4, <2>5
<1>2. IsFiniteSet(left) /\ Cardinality(left) = held - n
  BY <1>0, <1>1, FewerByASubset
<1>3. Cardinality(left \ {g}) = held - n - 1
  <2> HIDE DEF left, held, n
  <2>1. QED BY <1>0, <1>2, FS_RemoveElement
<1>4. Effect(g, skipped, tally)
  BY HandOnFacts DEF AccountInv
<1>5. CASE /\ DOMAIN pending' = DOMAIN pending \ (skipped \cup {g})
           /\ counters' = [tally EXCEPT !.delivered = @ + 1]
  <2>1. DOMAIN pending' = left \ {g}
    BY <1>5
  <2>2. Accounted(counters') = Accounted(tally) + 1 /\ counters'.received = tally.received
    BY <1>0, <1>5, AccountingDelivered
  <2> HIDE DEF held, n, left
  <2>3. counters'.received = Accounted(counters') + Cardinality(DOMAIN pending')
    BY <1>1, <1>3, <2>1, <2>2 DEF n
  <2>4. QED BY <2>3 DEF Accounting, Accounted
<1>6. CASE DOMAIN pending' = left /\ counters' = tally
  <2> HIDE DEF held, left, n
  <2>1. counters'.received = Accounted(counters') + Cardinality(DOMAIN pending')
    BY <1>1, <1>2, <1>6 DEF n
  <2>2. QED BY <2>1 DEF Accounting, Accounted
<1>7. QED BY <1>4, <1>5, <1>6 DEF Effect

\* A group leaves the hold only with a count.
LEMMA TakeAccounts ==
  ASSUME AccountInv, NEW last \in BOOLEAN, Take(last)
  PROVE  Accounting'
<1>0. /\ HoldInv /\ counters \in Counters /\ Accounted(counters) \in Nat
      /\ Cardinality({}) = 0
  BY AccountedType, FS_EmptySet DEF AccountInv, HoldInv, TypeOK
<1>1. ASSUME NEW g, NEW tally, HandsOn(g, {}, tally, last),
             Accounted(tally) = Accounted(counters), tally.received = counters.received
      PROVE  Accounting'
  <2>1. Accounted(tally) = Accounted(counters) + Cardinality({})
    BY <1>0, <1>1
  <2>2. QED BY <1>1, <2>1, HandOnAccounts
<1>2. /\ Accounted(Opened) = Accounted(counters) /\ Opened.received = counters.received
      /\ Opened \in Counters
  <2>1. CASE gap_since = None
    BY <1>0, <2>1, AccountingHoles, Counting DEF Opened
  <2>2. CASE gap_since # None
    BY <1>0, <2>2 DEF Opened
  <2>3. QED BY <2>1, <2>2
<1>3. CASE TakeLiveJoin(last)
  <2> DEFINE skipped == {s \in DOMAIN pending : s < join_ready}
             tally   == [counters EXCEPT !.skipped_join = @ + Cardinality(skipped)]
  <2>1. HandsOn(join_ready, skipped, tally, last)
    BY <1>0, <1>3, LiveJoinHandsOn
  <2>2. Cardinality(skipped) \in Nat
    BY SequenceFinite DEF AccountInv, HoldInv, TypeOK
  <2>3. /\ Accounted(tally) = Accounted(counters) + Cardinality(skipped)
        /\ tally.received = counters.received
    <3> HIDE DEF skipped
    <3>1. QED BY <1>0, <2>2, AccountingSkipped
  <2> HIDE DEF tally, skipped
  <2>4. QED BY <2>1, <2>3, HandOnAccounts
<1>4. CASE TakeLiveEnd(last) \/ TakeBacklogJoin(last)
  BY <1>0, <1>1, <1>4, JoinHandsOn
<1>5. CASE TakeAtCursor(last)
  <2> DEFINE tally == IF gap_since # None THEN [counters EXCEPT !.holes_filled = @ + 1]
                      ELSE counters
  <2>1. HandsOn(cursor, {}, tally, last)
    BY <1>0, <1>5, AtCursorHandsOn
  <2>2. Accounted(tally) = Accounted(counters) /\ tally.received = counters.received
    <3>1. CASE gap_since = None
      BY <3>1
    <3>2. CASE gap_since # None
      BY <1>0, <3>2, AccountingHoles
    <3>3. QED BY <3>1, <3>2
  <2> HIDE DEF tally
  <2>3. QED BY <1>1, <2>1, <2>2
<1>6. CASE TakeStepsOver(last)
  <2> DEFINE tally == [Opened EXCEPT !.holes_abandoned[Reason(last)] = @ + 1]
  <2>1. Reason(last) \in Reasons /\ \E g \in DOMAIN pending : HandsOn(g, {}, tally, last)
    BY <1>0, <1>6, StepsOverHandsOn
  <2>2. Accounted(tally) = Accounted(Opened) /\ tally.received = Opened.received
    BY <1>2, <2>1, AccountingHoles
  <2> HIDE DEF tally
  <2>3. QED BY <1>1, <1>2, <2>1, <2>2
<1>7. CASE TakeEmpty
  BY <1>7 DEF TakeEmpty, AccountInv, Accounting
<1>8. CASE TakeWaits(last)
  <2>1. UNCHANGED pending /\ counters' = Opened
    BY <1>8 DEF TakeWaits
  <2>2. counters.received = Accounted(counters) + Cardinality(DOMAIN pending)
    BY DEF AccountInv, Accounting, Accounted
  <2>3. counters'.received = Accounted(counters') + Cardinality(DOMAIN pending')
    BY <1>2, <2>1, <2>2
  <2>4. QED BY <2>3 DEF Accounting, Accounted
<1>9. QED BY <1>3, <1>4, <1>5, <1>6, <1>7, <1>8 DEF Take

\* Every step keeps the accounts.
LEMMA StepAccounts == AccountInv /\ [Next]_vars => AccountInv'
<1> SUFFICES ASSUME AccountInv, [Next]_vars PROVE AccountInv'
  OBVIOUS
<1>1. HoldInv'
  BY StepKeeps DEF AccountInv
<1>2. CASE (\E s \in Sequence : Refused(s)) \/ Restart \/ Tick \/ UNCHANGED vars
  <2>1. UNCHANGED counters /\ DOMAIN pending' = DOMAIN pending
    BY <1>2 DEF Refused, Restart, TakenUpAgain, Tick, vars
  <2>2. QED BY <1>1, <2>1 DEF AccountInv, Accounting
<1>3. QED BY <1>1, <1>2, StepCases, ArrivalAccounts, TakeAccounts DEF AccountInv

\* Every group received is delivered, too late, stepped over at the join, a
\* repeat, or still held: none is counted twice and none is let go without a
\* count (the doc of Counters, core/src/order.rs:160).
THEOREM GroupsAreAccountedFor == Spec => []Accounting
<1>1. Init => AccountInv
  <2> SUFFICES ASSUME Init PROVE AccountInv
    OBVIOUS
  <2>1. DOMAIN pending = {}
    BY DEF Init
  <2>2. Cardinality(DOMAIN pending) = 0
    BY <2>1, FS_EmptySet
  <2>3. Accounting
    BY <2>2 DEF Init, Accounting
  <2>4. QED BY <2>3, InitHolds DEF AccountInv
<1>2. AccountInv => Accounting
  BY DEF AccountInv
<1>3. QED BY <1>1, <1>2, StepAccounts, PTL DEF Spec

-----------------------------------------------------------------------------
(* What groups weigh, whichever they are: a hold before a step and after   *)
(* it.                                                                     *)

\* The frames of the groups in S, each by its group and its place.
Places(f, S) == UNION {{s} \X DOMAIN f[s].frames : s \in S}

\* What the groups in S of the hold f weigh.
Weigh(f, S) == Cardinality(Places(f, S))

\* The groups in S are groups of the track, made of frames.
Framed(f, S) == S \subseteq Sequence /\ \A s \in S : f[s].frames \in Seq(Frame)

\* A frame has its place in its own group.
LEMMA PlacesOf ==
  ASSUME NEW f, NEW S
  PROVE  \A p : p \in Places(f, S) <=> \E s \in S : p \in {s} \X DOMAIN f[s].frames
BY DEF Places

\* Groups of frames have finitely many of them.
LEMMA WeighType ==
  ASSUME NEW f, NEW S, Framed(f, S)
  PROVE  IsFiniteSet(Places(f, S)) /\ Weigh(f, S) \in Nat
<1> DEFINE Of(s) == {s} \X DOMAIN f[s].frames
           All   == {Of(s) : s \in S}
<1>1. IsFiniteSet(All)
  <2>1. IsFiniteSet(S)
    BY SequenceFinite DEF Framed
  <2>2. [s \in S |-> Of(s)] \in Surjection(S, All)
    BY DEF Surjection
  <2>3. QED BY <2>1, <2>2, FS_Surjection DEF ExistsSurjection
<1>2. \A T \in All : IsFiniteSet(T)
  <2>1. TAKE T \in All
  <2>2. PICK s \in S : T = Of(s)
    OBVIOUS
  <2>3. f[s].frames \in Seq(Frame)
    BY DEF Framed
  <2>4. IsFiniteSet({s}) /\ IsFiniteSet(DOMAIN f[s].frames)
    BY <2>3, FramesFinite, FS_Singleton
  <2>5. QED BY <2>2, <2>4, FS_Product
<1>3. IsFiniteSet(UNION All)
  BY <1>1, <1>2, FS_UNION
<1>4. IsFiniteSet(Places(f, S))
  BY <1>3 DEF Places
<1>5. QED BY <1>4, FS_CardinalityType DEF Weigh

\* One group weighs as many as it has frames.
LEMMA WeighOne ==
  ASSUME NEW f, NEW g, Framed(f, {g})
  PROVE  Weigh(f, {g}) = Len(f[g].frames)
<1> DEFINE n == Len(f[g].frames)
<1>1. n \in Nat /\ DOMAIN f[g].frames = 1 .. n
  BY LenProperties DEF Framed
<1>2. Places(f, {g}) = {g} \X DOMAIN f[g].frames
  BY DEF Places
<1> HIDE DEF n
<1>3. IsFiniteSet(1 .. n) /\ Cardinality(1 .. n) = n
  BY <1>1, FS_Interval
<1>4. IsFiniteSet({g}) /\ Cardinality({g}) = 1
  BY FS_Singleton
<1>5. Cardinality({g} \X (1 .. n)) = 1 * n
  <2> DEFINE one == {g}
             all == 1 .. n
  <2>1. IsFiniteSet(one) /\ IsFiniteSet(all) /\ Cardinality(one) = 1 /\ Cardinality(all) = n
    BY <1>3, <1>4
  <2> HIDE DEF one, all
  <2>2. Cardinality(one \X all) = Cardinality(one) * Cardinality(all)
    BY <2>1, FS_Product
  <2>3. QED BY <2>1, <2>2 DEF one, all
<1>6. Cardinality(Places(f, {g})) = 1 * n
  <2>1. Places(f, {g}) = {g} \X (1 .. n)
    BY <1>1, <1>2, Zenon
  <2>2. QED BY <1>5, <2>1, Zenon
<1>7. Cardinality(Places(f, {g})) = n
  BY <1>1, <1>6
<1>8. QED BY <1>7 DEF Weigh, n

\* Two sets of groups that share none weigh together what each of them weighs.
LEMMA WeighBoth ==
  ASSUME NEW f, NEW S, NEW T, Framed(f, S), Framed(f, T), S \cap T = {}
  PROVE  Weigh(f, S \cup T) = Weigh(f, S) + Weigh(f, T)
<1>1. Places(f, S \cup T) = Places(f, S) \cup Places(f, T)
  BY DEF Places
<1>2. Places(f, S) \cap Places(f, T) = {}
  <2>1. SUFFICES ASSUME NEW p, p \in Places(f, S), p \in Places(f, T)
                 PROVE  FALSE
    OBVIOUS
  <2>2. PICK s \in S : p \in {s} \X DOMAIN f[s].frames
    BY <2>1, PlacesOf
  <2>3. PICK t \in T : p \in {t} \X DOMAIN f[t].frames
    BY <2>1, PlacesOf
  <2>4. p[1] = s /\ p[1] = t
    BY <2>2, <2>3
  <2>5. QED BY <2>4
<1>3. IsFiniteSet(Places(f, S)) /\ IsFiniteSet(Places(f, T))
      /\ Weigh(f, S) \in Nat /\ Weigh(f, T) \in Nat
  BY WeighType
<1>4. Cardinality(Places(f, S) \cup Places(f, T))
        = Cardinality(Places(f, S)) + Cardinality(Places(f, T)) - Cardinality({})
  BY <1>2, <1>3, FS_Union
<1>5. Cardinality({}) = 0
  BY FS_EmptySet
<1>6. Weigh(f, S \cup T) = Weigh(f, S) + Weigh(f, T) - 0
  BY <1>1, <1>4, <1>5 DEF Weigh
<1>7. QED BY <1>3, <1>6

\* Groups that have the same frames weigh the same.
LEMMA WeighSame ==
  ASSUME NEW f, NEW h, NEW S, \A s \in S : h[s].frames = f[s].frames
  PROVE  Weigh(h, S) = Weigh(f, S)
<1>1. Places(h, S) = Places(f, S)
  BY DEF Places
<1>2. QED BY <1>1 DEF Weigh

\* A hold weighs what one of its groups does and what the others do.
LEMMA WeighApart ==
  ASSUME NEW f, NEW S, NEW g \in S, Framed(f, S)
  PROVE  /\ Weigh(f, S) = Weigh(f, S \ {g}) + Len(f[g].frames)
         /\ Weigh(f, S \ {g}) \in Nat /\ Len(f[g].frames) \in Nat
<1>1. Framed(f, {g}) /\ Framed(f, S \ {g})
  BY DEF Framed
<1>2. (S \ {g}) \cup {g} = S /\ (S \ {g}) \cap {g} = {}
  OBVIOUS
<1>3. Weigh(f, (S \ {g}) \cup {g}) = Weigh(f, S \ {g}) + Weigh(f, {g})
  BY <1>1, <1>2, WeighBoth
<1>4. Weigh(f, S \ {g}) \in Nat
  BY <1>1, WeighType
<1>5. Len(f[g].frames) \in Nat
  BY LenProperties DEF Framed
<1>6. QED BY <1>1, <1>2, <1>3, <1>4, <1>5, WeighOne

-----------------------------------------------------------------------------
(* What each operation does to the weight.                                 *)

BytesInv == HoldInv /\ BytesExact

\* What the weight is said of, by the hold it is of.
LEMMA BytesAsWeigh ==
  /\ BytesExact <=> pending_bytes = Weigh(pending, DOMAIN pending)
  /\ BytesExact' <=> pending_bytes' = Weigh(pending', DOMAIN pending')
BY DEF BytesExact, Weight, Weigh, Places

\* The groups held are groups of frames.
LEMMA HeldAreFramed ==
  ASSUME HoldInv
  PROVE  Framed(pending, DOMAIN pending)
BY DEF HoldInv, TypeOK, Held, Framed

\* More of a group: the weight grows by as many frames as the group does.
LEMMA MoreWeighs ==
  ASSUME HoldInv, NEW s \in Sequence, NEW frames \in Seq(Frame),
         NEW decides \in Decodable, NEW complete \in BOOLEAN,
         ArriveMore(s, frames, decides, complete)
  PROVE  \E fresh \in Seq(Frame) :
           /\ pending_bytes' = pending_bytes + Len(fresh)
           /\ pending'[s].frames = pending[s].frames \o fresh
<1> DEFINE group == pending[s]
           whole == complete /\ frames # << >>
           seen  == IF whole THEN 0 ELSE group.again
           over  == PassedOver(Len(frames), seen, group.have)
           fresh == SubSeq(frames, over + 1, Len(frames))
<1>1. s \in DOMAIN pending /\ group \in Held
  BY DEF ArriveMore, HoldInv, TypeOK
<1>2. /\ group.have \in Nat /\ group.again \in Nat \cup {None} /\ Len(frames) \in Nat
      /\ group.again # None => group.again <= group.have
  BY <1>1, LenProperties DEF Held, HoldInv, AheadOfCursor
<1>3. seen \in Nat \cup {None} /\ (seen # None => seen <= group.have)
  BY <1>2
<1>4. over \in 0 .. Len(frames)
  <2> HIDE DEF seen
  <2>1. QED BY <1>2, <1>3, PassedOverBounds
<1>5. fresh \in Seq(Frame)
  <2> HIDE DEF over
  <2>1. QED BY <1>4, FreshFrames
<1>6. pending_bytes' = pending_bytes + Len(fresh)
  BY DEF ArriveMore
<1>7. pending'[s].frames = group.frames \o fresh
  BY <1>1 DEF ArriveMore, Hold
<1> HIDE DEF fresh
<1>8. QED BY <1>5, <1>6, <1>7

\* Every arrival adds to the weight the frames that it adds to the hold.
LEMMA ArrivalWeighs ==
  ASSUME BytesInv, NEW s \in Sequence, NEW frames \in Seq(Frame),
         NEW decides \in Decodable, NEW complete \in BOOLEAN,
         Arrive(s, frames, decides, complete), HoldInv'
  PROVE  BytesExact'
<1>0. /\ HoldInv /\ pending_bytes = Weigh(pending, DOMAIN pending)
      /\ Framed(pending, DOMAIN pending) /\ Framed(pending', DOMAIN pending')
      /\ pending_bytes \in Int
  <2>1. Framed(pending', DOMAIN pending')
    BY DEF HoldInv, TypeOK, Held, Framed
  <2>2. QED BY <2>1, BytesAsWeigh, HeldAreFramed DEF BytesInv, HoldInv, TypeOK
<1>1. CASE ArriveLetGo(s, complete) \/ ArriveRepeated(s, complete) \/ ArriveLate(s, complete)
  <2>1. UNCHANGED <<pending, pending_bytes>>
    BY <1>1 DEF ArriveLetGo, ArriveRepeated, ArriveLate
  <2>2. QED BY <1>0, <2>1, BytesAsWeigh
<1>2. CASE ArriveMore(s, frames, decides, complete)
  <2> DEFINE others == DOMAIN pending \ {s}
  <2>1. PICK fresh \in Seq(Frame) : /\ pending_bytes' = pending_bytes + Len(fresh)
                                    /\ pending'[s].frames = pending[s].frames \o fresh
    BY <1>0, <1>2, MoreWeighs
  <2>2. /\ s \in DOMAIN pending /\ DOMAIN pending' = DOMAIN pending
        /\ \A t \in others : pending'[t].frames = pending[t].frames
    BY <1>0, <1>2, MoreOfGroup DEF HoldInv
  <2>3. Len(pending'[s].frames) = Len(pending[s].frames) + Len(fresh) /\ Len(fresh) \in Nat
    BY <1>0, <2>1, <2>2, ConcatProperties, LenProperties DEF Framed
  <2>4. Weigh(pending', others) = Weigh(pending, others)
    <3> HIDE DEF others
    <3>1. QED BY <2>2, WeighSame
  <2>5. /\ Weigh(pending, DOMAIN pending) = Weigh(pending, others) + Len(pending[s].frames)
        /\ Weigh(pending, others) \in Nat /\ Len(pending[s].frames) \in Nat
    BY <1>0, <2>2, WeighApart
  <2>6. Weigh(pending', DOMAIN pending') = Weigh(pending', others) + Len(pending'[s].frames)
    BY <1>0, <2>2, WeighApart
  <2> HIDE DEF others
  <2>7. pending_bytes' = Weigh(pending', DOMAIN pending')
    BY <1>0, <2>1, <2>3, <2>4, <2>5, <2>6
  <2>8. QED BY <2>7, BytesAsWeigh
<1>3. CASE ArriveNew(s, frames, decides, complete)
  <2>1. /\ s \notin DOMAIN pending /\ DOMAIN pending' = DOMAIN pending \cup {s}
        /\ pending'[s].frames = frames
        /\ \A t \in DOMAIN pending : pending'[t].frames = pending[t].frames
    BY <1>3 DEF ArriveNew, Hold
  <2>2. pending_bytes' = pending_bytes + Len(frames)
    BY <1>3 DEF ArriveNew
  <2>3. DOMAIN pending' \ {s} = DOMAIN pending /\ s \in DOMAIN pending'
    BY <2>1
  <2>4. Weigh(pending', DOMAIN pending) = Weigh(pending, DOMAIN pending)
    BY <2>1, WeighSame
  <2>5. Weigh(pending', DOMAIN pending') = Weigh(pending', DOMAIN pending) + Len(frames)
    <3>1. Weigh(pending', DOMAIN pending')
            = Weigh(pending', DOMAIN pending' \ {s}) + Len(pending'[s].frames)
      BY <1>0, <2>3, WeighApart
    <3>2. Weigh(pending', DOMAIN pending' \ {s}) = Weigh(pending', DOMAIN pending)
      BY <2>3, Zenon
    <3>3. Len(pending'[s].frames) = Len(frames)
      BY <2>1
    <3>4. QED BY <3>1, <3>2, <3>3
  <2>6. pending_bytes' = Weigh(pending', DOMAIN pending')
    BY <1>0, <2>2, <2>4, <2>5
  <2>7. QED BY <2>6, BytesAsWeigh
<1>4. QED BY <1>1, <1>2, <1>3 DEF Arrive

\* What is handed on, and what is let go below it, weighs no longer.
LEMMA HandOnWeighs ==
  ASSUME BytesInv, NEW g, NEW skipped, NEW tally, NEW last \in BOOLEAN,
         HandsOn(g, skipped, tally, last), HoldInv'
  PROVE  BytesExact'
<1> DEFINE left   == DOMAIN pending \ skipped
           others == left \ {g}
<1>0. /\ HoldInv /\ pending_bytes = Weigh(pending, DOMAIN pending)
      /\ Framed(pending, DOMAIN pending) /\ Framed(pending', DOMAIN pending')
  <2>1. Framed(pending', DOMAIN pending')
    BY DEF HoldInv, TypeOK, Held, Framed
  <2>2. QED BY <2>1, BytesAsWeigh, HeldAreFramed DEF BytesInv
<1>1. g \in left /\ skipped \subseteq DOMAIN pending
  BY DEF HandsOn
<1>2. Framed(pending, skipped) /\ Framed(pending, left)
  BY <1>0, <1>1 DEF Framed
<1>3. /\ Weigh(pending, DOMAIN pending) = Weigh(pending, skipped) + Weigh(pending, left)
      /\ Weigh(pending, skipped) \in Nat
  <2>1. skipped \cup left = DOMAIN pending /\ skipped \cap left = {}
    BY <1>1
  <2> HIDE DEF left
  <2>2. QED BY <1>2, <2>1, WeighBoth, WeighType
<1>4. /\ Weigh(pending, left) = Weigh(pending, others) + Len(pending[g].frames)
      /\ Weigh(pending, others) \in Nat /\ Len(pending[g].frames) \in Nat
  <2> HIDE DEF left
  <2>1. QED BY <1>1, <1>2, WeighApart
<1>5. pending_bytes' = pending_bytes - (Weigh(pending, skipped) + Len(pending[g].frames))
  BY DEF HandsOn, HandOn, Freed, Weight, Weigh, Places
<1>6. pending_bytes' = Weigh(pending, others)
  <2> HIDE DEF others, left
  <2>1. QED BY <1>0, <1>3, <1>4, <1>5
<1>7. CASE pending' = Restrict(pending, left \ {g})
  <2>1. /\ DOMAIN pending' = others
        /\ \A s \in others : pending'[s].frames = pending[s].frames
    BY <1>7 DEF Restrict
  <2> HIDE DEF others
  <2>2. QED BY <1>6, <2>1, WeighSame, BytesAsWeigh
<1>8. CASE pending' = [Restrict(pending, left) EXCEPT ![g].frames = << >>]
  <2>1. /\ DOMAIN pending' = left
        /\ \A s \in others : pending'[s].frames = pending[s].frames
    BY <1>8 DEF Restrict
  <2>2. Len(pending'[g].frames) = 0
    <3>1. pending' = [t \in left |-> IF t = g THEN [pending[g] EXCEPT !.frames = << >>]
                                              ELSE pending[t]]
      BY <1>1, <1>8 DEF Restrict
    <3>2. pending'[g] = [pending[g] EXCEPT !.frames = << >>] /\ pending[g] \in Held
      BY <1>0, <1>1, <3>1 DEF HoldInv, TypeOK
    <3>3. pending'[g].frames = << >>
      BY <3>2 DEF Held
    <3>4. QED BY <3>3
  <2>3. /\ Weigh(pending', left) = Weigh(pending', others) + Len(pending'[g].frames)
        /\ Weigh(pending', others) \in Nat
    <3> HIDE DEF left
    <3>1. QED BY <1>0, <1>1, <2>1, WeighApart
  <2> HIDE DEF others, left
  <2>4. Weigh(pending', others) = Weigh(pending, others)
    BY <2>1, WeighSame
  <2>5. pending_bytes' = Weigh(pending', DOMAIN pending')
    BY <1>6, <2>1, <2>2, <2>3, <2>4
  <2>6. QED BY <2>5, BytesAsWeigh
<1>9. QED BY <1>7, <1>8 DEF HandsOn, HandOn

\* A take hands a group on, or leaves the hold as it is.
LEMMA TakeWeighs ==
  ASSUME BytesInv, NEW last \in BOOLEAN, Take(last), HoldInv'
  PROVE  BytesExact'
<1>0. HoldInv
  BY DEF BytesInv
<1>1. CASE TakeLiveJoin(last)
  BY <1>0, <1>1, LiveJoinHandsOn, HandOnWeighs
<1>2. CASE TakeLiveEnd(last) \/ TakeBacklogJoin(last)
  BY <1>0, <1>2, JoinHandsOn, HandOnWeighs
<1>3. CASE TakeAtCursor(last)
  BY <1>0, <1>3, AtCursorHandsOn, HandOnWeighs
<1>4. CASE TakeStepsOver(last)
  BY <1>0, <1>4, StepsOverHandsOn, HandOnWeighs
<1>5. CASE TakeEmpty \/ TakeWaits(last)
  <2>1. UNCHANGED <<pending, pending_bytes>>
    BY <1>5 DEF TakeEmpty, TakeWaits
  <2>2. QED BY <2>1, BytesAsWeigh DEF BytesInv
<1>6. QED BY <1>1, <1>2, <1>3, <1>4, <1>5 DEF Take

\* Every step keeps the weight right.
LEMMA StepWeighs == BytesInv /\ [Next]_vars => BytesInv'
<1> SUFFICES ASSUME BytesInv, [Next]_vars PROVE BytesInv'
  OBVIOUS
<1>1. HoldInv /\ HoldInv' /\ pending_bytes = Weigh(pending, DOMAIN pending)
  BY StepKeeps, BytesAsWeigh DEF BytesInv
<1>2. CASE (\E s \in Sequence : Refused(s)) \/ Tick \/ UNCHANGED vars
  <2>1. UNCHANGED <<pending, pending_bytes>>
    BY <1>2 DEF Refused, Tick, vars
  <2>2. QED BY <1>1, <2>1, BytesAsWeigh DEF BytesInv
<1>3. CASE Restart
  <2>1. /\ DOMAIN pending' = DOMAIN pending /\ UNCHANGED pending_bytes
        /\ pending' = [s \in DOMAIN pending |->
                         IF pending[s].complete THEN pending[s]
                         ELSE [pending[s] EXCEPT !.again = 0]]
    BY <1>3 DEF Restart, TakenUpAgain
  <2>2. \A s \in DOMAIN pending : pending'[s].frames = pending[s].frames
    <3>1. TAKE s \in DOMAIN pending
    <3>2. pending[s] \in Held
      BY <1>1 DEF HoldInv, TypeOK
    <3>3. QED BY <2>1, <3>2 DEF Held
  <2>3. Weigh(pending', DOMAIN pending) = Weigh(pending, DOMAIN pending)
    BY <2>2, WeighSame
  <2>4. Weigh(pending', DOMAIN pending') = Weigh(pending', DOMAIN pending)
    BY <2>1, Zenon
  <2>5. pending_bytes' = Weigh(pending', DOMAIN pending')
    BY <1>1, <2>1, <2>3, <2>4
  <2>6. QED BY <1>1, <2>5, BytesAsWeigh DEF BytesInv
<1>4. QED BY <1>1, <1>2, <1>3, StepCases, ArrivalWeighs, TakeWeighs DEF BytesInv

\* An empty queue weighs nothing.
LEMMA InitWeighs == Init => BytesInv
<1> SUFFICES ASSUME Init PROVE BytesInv
  OBVIOUS
<1>1. pending_bytes = 0 /\ DOMAIN pending = {}
  BY DEF Init
<1>2. Places(pending, DOMAIN pending) = {}
  BY <1>1 DEF Places
<1>3. pending_bytes = Weigh(pending, DOMAIN pending)
  BY <1>1, <1>2, FS_EmptySet DEF Weigh
<1>4. QED BY <1>3, InitHolds, BytesAsWeigh DEF BytesInv

\* The weight the queue adds to at every arrival and takes from at every hand-on
\* and every group let go (frame, take, step_over_to) is what the frames it
\* holds weigh: the budget is never spent by frames that have gone.
THEOREM BytesAreCounted == Spec => []BytesExact
<1>1. BytesInv => BytesExact
  BY DEF BytesInv
<1>2. QED BY <1>1, InitWeighs, StepWeighs, PTL DEF Spec

\* What is taken from the weight, a u64, is never more than it is: neither
\* subtraction (take, step_over_to) goes below zero.
THEOREM BytesNeverBelowZero == Spec => [](pending_bytes \in Nat)
<1>1. BytesInv => pending_bytes \in Nat
  <2> SUFFICES ASSUME BytesInv PROVE pending_bytes \in Nat
    OBVIOUS
  <2>1. pending_bytes = Weigh(pending, DOMAIN pending)
    BY BytesAsWeigh DEF BytesInv
  <2>2. Weigh(pending, DOMAIN pending) \in Nat
    BY HeldAreFramed, WeighType DEF BytesInv
  <2>3. QED BY <2>1, <2>2
<1>2. QED BY <1>1, InitWeighs, StepWeighs, PTL DEF Spec
=============================================================================
