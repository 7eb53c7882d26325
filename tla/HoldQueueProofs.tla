--------------------------- MODULE HoldQueueProofs ---------------------------
(***************************************************************************)
(* Proofs about the reorder hold of one track (HoldQueue), for any values  *)
(* of its constants.                                                       *)
(***************************************************************************)
EXTENDS HoldQueue, FiniteSetTheorems, SequenceTheorems, TLAPS

-----------------------------------------------------------------------------
(* What the helpers return.                                                *)

\* The lesser of two integers is one of them, and neither is below it.
LEMMA MinOfTwo ==
  ASSUME NEW a \in Int, NEW b \in Int
  PROVE  Min({a, b}) \in {a, b} /\ Min({a, b}) <= a /\ Min({a, b}) <= b
<1>1. \E x \in {a, b} : \A y \in {a, b} : x <= y
  BY SMT
<1>2. QED BY <1>1 DEF Min

\* Of n more frames a second copy passes over no more than there are, and no
\* more than are here already; what is left over begins where the held frames end.
LEMMA PassedOverBounds ==
  ASSUME NEW n \in Nat, NEW have \in Nat, NEW seen \in Nat \cup {None},
         seen # None => seen <= have
  PROVE  /\ PassedOver(n, seen, have) \in 0 .. n
         /\ seen # None => seen + n <= have + (n - PassedOver(n, seen, have))
<1>1. CASE seen = None
  BY <1>1 DEF PassedOver
<1>2. CASE seen # None
  <2> DEFINE rest == have - seen
  <2>1. seen \in Nat /\ rest \in Nat
    BY <1>2
  <2> HIDE DEF rest
  <2>2. Min({n, rest}) \in {n, rest} /\ Min({n, rest}) <= n /\ Min({n, rest}) <= rest
    BY <2>1, MinOfTwo
  <2>3. QED BY <1>2, <2>1, <2>2 DEF PassedOver, rest
<1>3. QED BY <1>1, <1>2

\* The frames a second copy adds are frames, as many as were not passed over.
LEMMA FreshFrames ==
  ASSUME NEW frames \in Seq(Frame), NEW over \in 0 .. Len(frames)
  PROVE  LET fresh == SubSeq(frames, over + 1, Len(frames))
         IN  fresh \in Seq(Frame) /\ Len(fresh) = Len(frames) - over
<1>1. Len(frames) \in Nat
  BY LenProperties
<1>2. QED BY <1>1, SubSeqProperties

\* An answer is a sequence of frames.
LEMMA AnswersAreFrames == Answers \subseteq Seq(Frame)
<1> SUFFICES ASSUME NEW a \in Answers PROVE a \in Seq(Frame)
  OBVIOUS
<1>1. CASE a = << >>
  BY <1>1
<1>2. CASE \E f \in Frame : a = <<f>>
  BY <1>2
<1>3. CASE \E f, h \in Frame : a = <<f, h>>
  BY <1>3
<1>4. QED BY <1>1, <1>2, <1>3 DEF Answers

\* There are finitely many groups, so any set of held ones is finite.
LEMMA SequenceFinite ==
  ASSUME NEW S \in SUBSET Sequence
  PROVE  IsFiniteSet(S) /\ Cardinality(S) \in Nat
<1>1. IsFiniteSet(Sequence)
  BY FS_Interval, HoldAssumption DEF Sequence
<1>2. QED BY <1>1, FS_Subset, FS_CardinalityType

\* A sequence of frames has finitely many places.
LEMMA FramesFinite ==
  ASSUME NEW frames \in Seq(Frame)
  PROVE  IsFiniteSet(DOMAIN frames)
<1> DEFINE n == Len(frames)
<1>1. n \in Nat /\ DOMAIN frames = 1 .. n
  BY LenProperties
<1> HIDE DEF n
<1>2. IsFiniteSet(1 .. n)
  BY <1>1, FS_Interval
<1>3. QED BY <1>1, <1>2

\* What held groups weigh is a natural number.
LEMMA WeightType ==
  ASSUME DOMAIN pending \subseteq Sequence, pending \in [DOMAIN pending -> Held],
         NEW S \in SUBSET DOMAIN pending
  PROVE  Weight(S) \in Nat
<1> DEFINE Of(s) == {s} \X DOMAIN pending[s].frames
           All   == {Of(s) : s \in S}
<1>1. IsFiniteSet(All)
  <2>1. IsFiniteSet(S)
    BY SequenceFinite
  <2>2. [s \in S |-> Of(s)] \in Surjection(S, All)
    BY DEF Surjection
  <2>3. QED BY <2>1, <2>2, FS_Surjection DEF ExistsSurjection
<1>2. \A T \in All : IsFiniteSet(T)
  <2>1. TAKE T \in All
  <2>2. PICK s \in S : T = Of(s)
    OBVIOUS
  <2>3. pending[s].frames \in Seq(Frame)
    BY DEF Held
  <2>4. IsFiniteSet({s}) /\ IsFiniteSet(DOMAIN pending[s].frames)
    BY <2>3, FramesFinite, FS_Singleton
  <2>5. QED BY <2>2, <2>4, FS_Product
<1>3. IsFiniteSet(UNION All)
  BY <1>1, <1>2, FS_UNION
<1>4. QED BY <1>3, FS_CardinalityType DEF Weight

\* Counting keeps the counters' type.
LEMMA Counting ==
  ASSUME NEW c \in Counters
  PROVE  /\ Repeat(c) \in Counters
         /\ [c EXCEPT !.received = @ + 1] \in Counters
         /\ [c EXCEPT !.received = @ + 1, !.dropped_late = @ + 1] \in Counters
         /\ [c EXCEPT !.delivered = @ + 1] \in Counters
         /\ [c EXCEPT !.holes_opened = @ + 1] \in Counters
         /\ [c EXCEPT !.holes_filled = @ + 1] \in Counters
         /\ \A n \in Nat : [c EXCEPT !.skipped_join = @ + n] \in Counters
         /\ \A r \in Reasons : [c EXCEPT !.holes_abandoned[r] = @ + 1] \in Counters
<1>1. \A d \in Counters : /\ [d EXCEPT !.repeated = @ + 1] \in Counters
                         /\ [d EXCEPT !.dropped_late = @ + 1] \in Counters
  BY DEF Counters
<1>2. [c EXCEPT !.received = @ + 1] \in Counters
  BY DEF Counters
<1>3. /\ Repeat(c) \in Counters
      /\ [c EXCEPT !.received = @ + 1, !.dropped_late = @ + 1] \in Counters
  <2> DEFINE d == [c EXCEPT !.received = @ + 1]
  <2>1. /\ Repeat(c) = [d EXCEPT !.repeated = @ + 1]
        /\ [c EXCEPT !.received = @ + 1, !.dropped_late = @ + 1]
             = [d EXCEPT !.dropped_late = @ + 1]
    BY DEF Repeat, Counters
  <2> HIDE DEF d
  <2>2. QED BY <1>1, <1>2, <2>1 DEF d
<1>4. [c EXCEPT !.delivered = @ + 1] \in Counters
  BY DEF Counters
<1>5. [c EXCEPT !.holes_opened = @ + 1] \in Counters
  BY DEF Counters
<1>6. [c EXCEPT !.holes_filled = @ + 1] \in Counters
  BY DEF Counters
<1>7. \A n \in Nat : [c EXCEPT !.skipped_join = @ + n] \in Counters
  BY DEF Counters
<1>8. \A r \in Reasons : [c EXCEPT !.holes_abandoned[r] = @ + 1] \in Counters
  BY DEF Counters
<1>9. QED BY <1>2, <1>3, <1>4, <1>5, <1>6, <1>7, <1>8

-----------------------------------------------------------------------------
(* Types, and the order in the hold that they rest on.                     *)

\* TypeOK is not inductive: a second copy's frames are cut where the held ones
\* end, which takes that no more of it was seen than is held (AheadOfCursor),
\* and a live join hands on the group it aims at, which takes that the group is
\* held (JoinIsLowest).
HoldInv == TypeOK /\ AheadOfCursor /\ JoinIsLowest

\* The invariant holds of an empty queue.
LEMMA InitHolds == Init => HoldInv
<1> SUFFICES ASSUME Init PROVE HoldInv
  OBVIOUS
<1>1. TypeOK
  <2>1. counters \in Counters
    BY DEF Init, Counters
  <2>2. DOMAIN pending = {} /\ pending \in [DOMAIN pending -> Held]
    BY DEF Init
  <2>3. /\ start \in {"Live", "Backlog"} /\ pending_bytes \in Int /\ cursor = None
        /\ join_low = None /\ join_age \in Nat /\ join_ready = None
        /\ gap_since = None /\ fetching = None /\ gone = None
        /\ fetched = {} /\ passing = {}
        /\ asks \in [Sequence -> Nat]
    BY DEF Init
  <2>4. restarted \in BOOLEAN
    BY DEF Init
  <2>5. QED BY <2>1, <2>2, <2>3, <2>4 DEF TypeOK
<1>2. AheadOfCursor /\ JoinIsLowest
  BY DEF Init, AheadOfCursor, JoinIsLowest
<1>3. QED BY <1>1, <1>2 DEF HoldInv

\* What more of a group, or a second copy of it, makes of the held group: the
\* frames that have gone out stay gone, no more of the second copy is seen than
\* is held, and whether a decoder can start at the group does not change once
\* it is known.
LEMMA MoreOfGroup ==
  ASSUME TypeOK, AheadOfCursor, NEW s \in Sequence, NEW frames \in Seq(Frame),
         NEW decides \in Decodable, NEW complete \in BOOLEAN,
         ArriveMore(s, frames, decides, complete)
  PROVE  /\ s \in DOMAIN pending /\ ~pending[s].complete
         /\ pending_bytes' \in Int
         /\ \E more \in Held :
              /\ pending' = [t \in DOMAIN pending |-> IF t = s THEN more ELSE pending[t]]
              /\ NoteJoin(s, more.decodable)
              /\ more.have - Len(more.frames) = pending[s].have - Len(pending[s].frames)
              /\ more.again # None => more.again <= more.have
              /\ pending[s].decodable # "unknown" => more.decodable = pending[s].decodable
<1> DEFINE group  == pending[s]
           whole  == complete /\ frames # << >>
           seen   == IF whole THEN 0 ELSE group.again
           over   == PassedOver(Len(frames), seen, group.have)
           fresh  == SubSeq(frames, over + 1, Len(frames))
           says   == IF group.decodable # "unknown" THEN group.decodable
                     ELSE IF complete /\ decides = "unknown" THEN "no" ELSE decides
           again  == IF whole \/ seen = None THEN group.again ELSE seen + Len(frames)
           more   == [frames |-> group.frames \o fresh, have |-> group.have + Len(fresh),
                      complete |-> complete, decodable |-> says, again |-> again]
<1>1. s \in DOMAIN pending /\ ~group.complete /\ group \in Held
  BY DEF ArriveMore, TypeOK
<1>2. /\ group.frames \in Seq(Frame) /\ group.have \in Nat
      /\ group.again \in Nat \cup {None} /\ group.decodable \in Decodable
      /\ Len(frames) \in Nat /\ Len(group.frames) \in Nat
  BY <1>1, LenProperties DEF Held
<1>3. /\ seen \in Nat \cup {None} /\ (seen # None => seen <= group.have)
      /\ group.again # None => group.again <= group.have
  BY <1>1, <1>2 DEF AheadOfCursor
<1>4. /\ over \in 0 .. Len(frames)
      /\ seen # None => seen + Len(frames) <= group.have + (Len(frames) - over)
  <2> HIDE DEF seen
  <2>1. QED BY <1>2, <1>3, PassedOverBounds
<1>5. fresh \in Seq(Frame) /\ Len(fresh) = Len(frames) - over /\ Len(fresh) \in Nat
  <2> HIDE DEF over
  <2>1. QED BY <1>2, <1>4, FreshFrames
<1>6. /\ pending' = [t \in DOMAIN pending \cup {s} |-> IF t = s THEN more ELSE pending[t]]
      /\ pending_bytes' = pending_bytes + Len(fresh)
      /\ NoteJoin(s, says)
  BY DEF ArriveMore, Hold
<1> HIDE DEF over, fresh
<1>7. /\ group.frames \o fresh \in Seq(Frame)
      /\ Len(group.frames \o fresh) = Len(group.frames) + Len(fresh)
  BY <1>2, <1>5, ConcatProperties
<1>8. again \in Nat \cup {None} /\ (again # None => again <= group.have + Len(fresh))
  <2> HIDE DEF whole
  <2>1. QED BY <1>2, <1>3, <1>4, <1>5
<1>9. says \in Decodable /\ (group.decodable # "unknown" => says = group.decodable)
  BY <1>2 DEF Decodable
<1> HIDE DEF again, says, seen, whole
<1>10. more \in Held
  BY <1>2, <1>5, <1>7, <1>8, <1>9 DEF Held
<1>11. more.have - Len(more.frames) = group.have - Len(group.frames)
  BY <1>2, <1>5, <1>7
<1>12. pending_bytes' \in Int
  BY <1>5, <1>6 DEF TypeOK
<1>13. /\ pending' = [t \in DOMAIN pending |-> IF t = s THEN more ELSE pending[t]]
       /\ NoteJoin(s, more.decodable)
       /\ more.again # None => more.again <= more.have
       /\ group.decodable # "unknown" => more.decodable = group.decodable
  <2>1. DOMAIN pending \cup {s} = DOMAIN pending
    BY <1>1
  <2>2. QED BY <1>6, <1>8, <1>9, <2>1
<1> HIDE DEF more
<1>14. QED BY <1>1, <1>10, <1>11, <1>12, <1>13

\* Every arrival keeps the types.
LEMMA ArriveTypes ==
  ASSUME HoldInv, NEW s \in Sequence, NEW frames \in Seq(Frame),
         NEW decides \in Decodable, NEW complete \in BOOLEAN,
         Arrive(s, frames, decides, complete), asks' \in [Sequence -> Nat]
  PROVE  TypeOK'
<1> USE DEF HoldInv
<1>0. Len(frames) \in Nat
  BY LenProperties
<1>1. CASE ArriveLetGo(s, complete)
  BY <1>1 DEF ArriveLetGo, Arrive, TypeOK, joining, hole
<1>2. CASE ArriveRepeated(s, complete)
  <2>1. counters' \in Counters
    BY <1>2, Counting DEF ArriveRepeated, TypeOK
  <2>2. QED
    BY <1>2, <2>1 DEF ArriveRepeated, LetGo, Arrive, TypeOK, joining, hole
<1>3. CASE ArriveMore(s, frames, decides, complete)
  <2>1. PICK more \in Held :
          /\ pending' = [t \in DOMAIN pending |-> IF t = s THEN more ELSE pending[t]]
          /\ NoteJoin(s, more.decodable)
    BY <1>3, MoreOfGroup
  <2>2. DOMAIN pending' \subseteq Sequence /\ pending' \in [DOMAIN pending' -> Held]
    BY <2>1 DEF TypeOK
  <2>3. counters' \in Counters
    <3>1. counters' = Repeat(counters) \/ counters' = counters
      BY <1>3 DEF ArriveMore
    <3>2. QED BY <3>1, Counting DEF TypeOK
  <2>4. pending_bytes' \in Int /\ join_ready' \in Sequence \cup {None}
    BY <1>3, <2>1, MoreOfGroup DEF NoteJoin, TypeOK
  <2>5. UNCHANGED <<start, cursor, join_low, join_age, hole, fetched, passing>>
    BY <1>3 DEF ArriveMore, Arrive
  <2>6. QED BY <2>2, <2>3, <2>4, <2>5 DEF TypeOK, hole
<1>4. CASE ArriveLate(s, complete)
  <2>1. counters' \in Counters
    BY <1>4, Counting DEF ArriveLate, TypeOK
  <2>2. QED
    BY <1>4, <2>1 DEF ArriveLate, LetGo, Arrive, TypeOK, joining, hole
<1>5. CASE ArriveNew(s, frames, decides, complete)
  <2> DEFINE says  == IF complete /\ decides = "unknown" THEN "no" ELSE decides
             group == [frames |-> frames, have |-> Len(frames), complete |-> complete,
                       decodable |-> says, again |-> None]
  <2>1. group \in Held
    BY <1>0 DEF Held, Decodable
  <2>2. pending' = [t \in DOMAIN pending \cup {s} |-> IF t = s THEN group ELSE pending[t]]
    BY <1>5 DEF ArriveNew, Hold
  <2>3. DOMAIN pending' \subseteq Sequence /\ pending' \in [DOMAIN pending' -> Held]
    BY <2>1, <2>2 DEF TypeOK
  <2>4. counters' \in Counters
    <3>1. counters' = [counters EXCEPT !.received = @ + 1]
      BY <1>5 DEF ArriveNew
    <3>2. QED BY <3>1, Counting DEF TypeOK
  <2>5. join_ready' \in Sequence \cup {None}
    BY <1>5 DEF ArriveNew, NoteJoin, TypeOK
  <2>6. fetched' \subseteq Sequence /\ fetching' \in Nat \cup {None}
    BY <1>5 DEF ArriveNew, Remembered, TypeOK
  <2>7. join_low' \in Sequence \cup {None} /\ join_age' \in Nat /\ pending_bytes' \in Int
    BY <1>0, <1>5 DEF ArriveNew, TypeOK
  <2>8. UNCHANGED <<start, cursor, gap_since, gone, restarted, passing>>
    BY <1>5 DEF ArriveNew, Arrive
  <2>9. QED BY <2>3, <2>4, <2>5, <2>6, <2>7, <2>8 DEF TypeOK
<1>6. QED BY <1>1, <1>2, <1>3, <1>4, <1>5 DEF Arrive

\* Handing a group on keeps the types.
LEMMA HandOnTypes ==
  ASSUME TypeOK, NEW g \in DOMAIN pending, NEW skipped \in SUBSET DOMAIN pending,
         g \notin skipped, NEW tally \in Counters, NEW last \in BOOLEAN,
         HandOn(g, skipped, tally, last),
         passing' \subseteq Sequence, gap_since' \in Nat \cup {None},
         fetching' \in Nat \cup {None}, gone' \in Nat \cup {None}, restarted' \in BOOLEAN
  PROVE  TypeOK'
<1> DEFINE group == pending[g]
           left  == DOMAIN pending \ skipped
<1>1. group \in Held /\ g \in Nat
  BY HoldAssumption DEF TypeOK, Sequence
<1>2. pending_bytes' \in Int
  <2>1. Weight(skipped) \in Nat
    BY WeightType DEF TypeOK
  <2>2. Len(group.frames) \in Nat
    BY <1>1, LenProperties DEF Held
  <2>3. QED BY <2>1, <2>2 DEF HandOn, Freed, TypeOK
<1>3. UNCHANGED <<start, fetched, asks>> /\ join_low' = None /\ join_age' = 0
      /\ join_ready' = None
  BY DEF HandOn
<1>4. CASE /\ pending' = Restrict(pending, left \ {g})
           /\ cursor' = g + 1
           /\ counters' = [tally EXCEPT !.delivered = @ + 1]
  <2>1. counters' \in Counters
    BY <1>4, Counting
  <2>2. cursor' \in Nat
    BY <1>1, <1>4
  <2>3. DOMAIN pending' \subseteq Sequence /\ pending' \in [DOMAIN pending' -> Held]
    BY <1>4 DEF TypeOK, Restrict
  <2>4. QED BY <1>2, <1>3, <2>1, <2>2, <2>3 DEF TypeOK
<1>5. CASE /\ pending' = [Restrict(pending, left) EXCEPT ![g].frames = << >>]
           /\ cursor' = g
           /\ counters' = tally
  <2>1. [group EXCEPT !.frames = << >>] \in Held
    BY <1>1, EmptySeq DEF Held
  <2>2. pending' = [t \in left |-> IF t = g THEN [group EXCEPT !.frames = << >>]
                                            ELSE pending[t]]
    BY <1>5 DEF Restrict
  <2>3. DOMAIN pending' \subseteq Sequence /\ pending' \in [DOMAIN pending' -> Held]
    BY <2>1, <2>2 DEF TypeOK
  <2>4. QED BY <1>1, <1>2, <1>3, <1>5, <2>3 DEF TypeOK
<1>6. QED BY <1>4, <1>5 DEF HandOn

\* The lowest of a set, when s is added to it.
LEMMA LowestOfMore ==
  ASSUME NEW S \in SUBSET Nat, NEW s \in Nat, NEW low,
         IF S = {} THEN low = None ELSE Oldest(low, S)
  PROVE  Oldest(IF low = None \/ s < low THEN s ELSE low, S \cup {s})
<1>1. CASE S = {}
  BY <1>1 DEF Oldest
<1>2. CASE S # {}
  <2>1. low \in S /\ \A t \in S : low <= t
    BY <1>2 DEF Oldest
  <2>2. low \in Nat /\ low # None
    BY <2>1, HoldAssumption
  <2>3. CASE s < low
    BY <2>1, <2>2, <2>3 DEF Oldest
  <2>4. CASE ~(s < low)
    BY <2>1, <2>2, <2>4 DEF Oldest
  <2>5. QED BY <2>3, <2>4
<1>3. QED BY <1>1, <1>2

\* Every arrival keeps to the order.
LEMMA ArriveOrder ==
  ASSUME HoldInv, NEW s \in Sequence, NEW frames \in Seq(Frame),
         NEW decides \in Decodable, NEW complete \in BOOLEAN,
         Arrive(s, frames, decides, complete)
  PROVE  AheadOfCursor' /\ JoinIsLowest'
<1> USE DEF HoldInv
<1>0. UNCHANGED <<start, cursor>>
  BY DEF Arrive
<1>1. CASE \/ ArriveLetGo(s, complete) \/ ArriveRepeated(s, complete)
           \/ ArriveLate(s, complete)
  <2>1. UNCHANGED <<pending, join_low, join_ready>>
    BY <1>1 DEF ArriveLetGo, ArriveRepeated, ArriveLate, joining
  <2>2. QED BY <1>0, <2>1 DEF AheadOfCursor, JoinIsLowest, Oldest
<1>2. CASE ArriveMore(s, frames, decides, complete)
  <2>1. PICK more \in Held :
          /\ pending' = [t \in DOMAIN pending |-> IF t = s THEN more ELSE pending[t]]
          /\ NoteJoin(s, more.decodable)
          /\ more.have - Len(more.frames) = pending[s].have - Len(pending[s].frames)
          /\ more.again # None => more.again <= more.have
          /\ pending[s].decodable # "unknown" => more.decodable = pending[s].decodable
    BY <1>2, MoreOfGroup
  <2>2. s \in DOMAIN pending /\ pending[s] \in Held
    BY <1>2, MoreOfGroup DEF TypeOK
  <2>3. AheadOfCursor'
    <3>1. more.frames \in Seq(Frame) /\ pending[s].frames \in Seq(Frame)
          /\ more.have \in Nat /\ pending[s].have \in Nat
      BY <2>2 DEF Held
    <3>2. Len(more.frames) \in Nat /\ Len(pending[s].frames) \in Nat
      BY <3>1, LenProperties
    <3>3. DOMAIN pending' = DOMAIN pending
      BY <2>1
    <3>4. /\ Len(more.frames) <= more.have
          /\ Len(more.frames) < more.have => cursor = s
      BY <2>1, <2>2, <3>1, <3>2 DEF AheadOfCursor
    <3>5. \A t \in DOMAIN pending' : pending'[t] = IF t = s THEN more ELSE pending[t]
      BY <2>1
    <3>6. QED BY <1>0, <2>1, <3>3, <3>4, <3>5 DEF AheadOfCursor
  <2>4. JoinIsLowest'
    <3>1. DOMAIN pending' = DOMAIN pending /\ UNCHANGED join_low
      BY <1>2, <2>1 DEF ArriveMore
    <3>2. CASE cursor # None
      BY <1>0, <3>2 DEF JoinIsLowest
    <3>3. CASE cursor = None /\ start = "Backlog"
      BY <1>0, <2>1, <3>1, <3>3 DEF JoinIsLowest, NoteJoin, Oldest
    <3>4. CASE cursor = None /\ start = "Live"
      <4> DEFINE ready == {t \in DOMAIN pending : pending[t].decodable = "yes"}
      <4>1. ready' = IF more.decodable = "yes" THEN ready \cup {s} ELSE ready
        BY <2>1, <2>2, <3>1
      <4>2. IF ready = {} THEN join_ready = None ELSE Oldest(join_ready, ready)
        BY <3>4 DEF JoinIsLowest
      <4>3. join_ready' = IF more.decodable = "yes" /\ (join_ready = None \/ s < join_ready)
                          THEN s ELSE join_ready
        BY <2>1, <3>4 DEF NoteJoin
      <4>4. ready \subseteq Nat /\ s \in Nat /\ None \notin Nat
        BY HoldAssumption DEF TypeOK, Sequence
      <4>5. IF ready' = {} THEN join_ready' = None ELSE Oldest(join_ready', ready')
        <5> HIDE DEF ready
        <5>1. CASE more.decodable = "yes"
          <6>1. Oldest(IF join_ready = None \/ s < join_ready THEN s ELSE join_ready,
                       ready \cup {s})
            BY <4>2, <4>4, LowestOfMore
          <6>2. QED BY <5>1, <6>1, <4>1, <4>3
        <5>2. CASE more.decodable # "yes"
          BY <5>2, <4>1, <4>2, <4>3
        <5>3. QED BY <5>1, <5>2
      <4>6. QED BY <1>0, <3>1, <3>4, <4>5 DEF JoinIsLowest, Oldest
    <3>5. QED BY <3>2, <3>3, <3>4 DEF TypeOK
  <2>5. QED BY <2>3, <2>4
<1>3. CASE ArriveNew(s, frames, decides, complete)
  <2> DEFINE says  == IF complete /\ decides = "unknown" THEN "no" ELSE decides
             group == [frames |-> frames, have |-> Len(frames), complete |-> complete,
                       decodable |-> says, again |-> None]
  <2>1. /\ DOMAIN pending' = DOMAIN pending \cup {s}
        /\ pending'[s] = group
        /\ \A t \in DOMAIN pending : t # s => pending'[t] = pending[t]
    BY <1>3 DEF ArriveNew, Hold
  <2>2. /\ s \notin DOMAIN pending /\ (cursor # None => s >= cursor)
        /\ NoteJoin(s, says)
        /\ IF cursor = None /\ start = "Backlog" /\ (join_low = None \/ s < join_low)
           THEN join_low' = s ELSE join_low' = join_low
    BY <1>3 DEF ArriveNew
  <2>3. AheadOfCursor'
    <3>1. Len(frames) \in Nat
      BY LenProperties
    <3>2. /\ Len(group.frames) = group.have /\ group.again = None
      OBVIOUS
    <3> HIDE DEF group
    <3>3. QED BY <1>0, <2>1, <2>2, <3>1, <3>2 DEF AheadOfCursor, group
  <2>4. JoinIsLowest'
    <3>1. DOMAIN pending \subseteq Nat /\ s \in Nat /\ None \notin Nat
      BY HoldAssumption DEF TypeOK, Sequence
    <3>2. CASE cursor # None
      BY <1>0, <3>2 DEF JoinIsLowest
    <3>3. CASE cursor = None /\ start = "Backlog"
      BY <1>0, <2>1, <2>2, <3>1, <3>3 DEF JoinIsLowest, NoteJoin, Oldest
    <3>4. CASE cursor = None /\ start = "Live"
      <4> DEFINE ready == {t \in DOMAIN pending : pending[t].decodable = "yes"}
      <4>1. ready' = IF says = "yes" THEN ready \cup {s} ELSE ready
        BY <2>1, <2>2
      <4>2. IF ready = {} THEN join_ready = None ELSE Oldest(join_ready, ready)
        BY <3>4 DEF JoinIsLowest
      <4>3. join_ready' = IF says = "yes" /\ (join_ready = None \/ s < join_ready)
                          THEN s ELSE join_ready
        BY <2>2, <3>4 DEF NoteJoin
      <4>4. ready \subseteq Nat
        BY <3>1
      <4>5. IF ready' = {} THEN join_ready' = None ELSE Oldest(join_ready', ready')
        <5> HIDE DEF ready, says
        <5>1. CASE says = "yes"
          <6>1. Oldest(IF join_ready = None \/ s < join_ready THEN s ELSE join_ready,
                       ready \cup {s})
            BY <3>1, <4>2, <4>4, LowestOfMore
          <6>2. QED BY <5>1, <6>1, <4>1, <4>3
        <5>2. CASE says # "yes"
          BY <5>2, <4>1, <4>2, <4>3
        <5>3. QED BY <5>1, <5>2
      <4>6. join_low' = None
        BY <2>2, <3>4 DEF JoinIsLowest
      <4>7. QED BY <1>0, <3>4, <4>5, <4>6 DEF JoinIsLowest, Oldest
    <3>5. QED BY <3>2, <3>3, <3>4 DEF TypeOK
  <2>5. QED BY <2>3, <2>4
<1>4. QED BY <1>1, <1>2, <1>3 DEF Arrive

\* Handing on the lowest group that is left keeps to the order, provided no
\* other group has handed on some of its frames.
LEMMA HandOnOrder ==
  ASSUME HoldInv, NEW g \in DOMAIN pending, NEW skipped \in SUBSET DOMAIN pending,
         g \notin skipped, Oldest(g, DOMAIN pending \ skipped),
         \A s \in DOMAIN pending \ {g} : Len(pending[s].frames) = pending[s].have,
         NEW tally, NEW last \in BOOLEAN, HandOn(g, skipped, tally, last)
  PROVE  AheadOfCursor' /\ JoinIsLowest'
<1> DEFINE left == DOMAIN pending \ skipped
<1>1. left \subseteq Nat /\ g \in Nat /\ None \notin Nat
  BY HoldAssumption DEF HoldInv, TypeOK, Sequence
<1>2. \A s \in left : /\ pending[s].have \in Nat
                      /\ pending[s].again # None => pending[s].again <= pending[s].have
  BY DEF HoldInv, TypeOK, AheadOfCursor, Held
<1>3. CASE pending' = Restrict(pending, left \ {g}) /\ cursor' = g + 1
  <2>1. DOMAIN pending' = left \ {g} /\ \A s \in left \ {g} : pending'[s] = pending[s]
    BY <1>3 DEF Restrict
  <2>2. \A s \in left \ {g} : s >= g + 1
    BY <1>1 DEF Oldest
  <2>3. AheadOfCursor'
    <3>1. SUFFICES ASSUME NEW s \in left \ {g}
                   PROVE  /\ s >= g + 1
                          /\ Len(pending[s].frames) <= pending[s].have
                          /\ ~(Len(pending[s].frames) < pending[s].have)
                          /\ pending[s].again # None => pending[s].again <= pending[s].have
      BY <1>3, <2>1 DEF AheadOfCursor
    <3>2. QED BY <1>2, <2>2
  <2>4. QED BY <1>1, <1>3, <2>3 DEF JoinIsLowest
<1>4. CASE pending' = [Restrict(pending, left) EXCEPT ![g].frames = << >>] /\ cursor' = g
  <2>1. /\ DOMAIN pending' = left
        /\ \A s \in left : pending'[s] = IF s = g THEN [pending[g] EXCEPT !.frames = << >>]
                                         ELSE pending[s]
    BY <1>4 DEF Restrict
  <2>2. pending[g] \in Held
    BY DEF HoldInv, TypeOK
  <2>3. /\ pending'[g].frames = << >> /\ pending'[g].have = pending[g].have
        /\ pending'[g].again = pending[g].again
    BY <2>1, <2>2 DEF Held
  <2>4. AheadOfCursor'
    <3>1. SUFFICES ASSUME NEW s \in left
                   PROVE  /\ s >= g
                          /\ Len(pending'[s].frames) <= pending'[s].have
                          /\ Len(pending'[s].frames) < pending'[s].have => g = s
                          /\ pending'[s].again # None => pending'[s].again <= pending'[s].have
      BY <1>4, <2>1 DEF AheadOfCursor
    <3>2. s >= g
      BY DEF Oldest
    <3>3. CASE s = g
      BY <1>2, <2>3, <3>2, <3>3
    <3>4. CASE s # g
      BY <1>2, <2>1, <3>2, <3>4
    <3>5. QED BY <3>3, <3>4
  <2>5. QED BY <1>1, <1>4, <2>4 DEF JoinIsLowest
<1>5. QED BY <1>3, <1>4 DEF HandOn

\* Where the cursor is not fixed, or no group at it is held, no held group has
\* handed on any of its frames.
LEMMA NothingWent ==
  ASSUME HoldInv, cursor \notin DOMAIN pending
  PROVE  \A s \in DOMAIN pending : Len(pending[s].frames) = pending[s].have
<1> SUFFICES ASSUME NEW s \in DOMAIN pending
             PROVE  Len(pending[s].frames) = pending[s].have
  OBVIOUS
<1>1. pending[s].frames \in Seq(Frame) /\ pending[s].have \in Nat
  BY DEF HoldInv, TypeOK, Held
<1>2. Len(pending[s].frames) \in Nat
  BY <1>1, LenProperties
<1>3. Len(pending[s].frames) <= pending[s].have /\ ~(Len(pending[s].frames) < pending[s].have)
  BY DEF HoldInv, AheadOfCursor
<1>4. QED BY <1>1, <1>2, <1>3

\* Every way a take hands a group on: which group, what is let go below it and
\* what is counted first.
HandsOn(g, skipped, tally, last) ==
  /\ g \in DOMAIN pending /\ skipped \in SUBSET DOMAIN pending /\ g \notin skipped
  /\ \A s \in skipped : s < g
  /\ Oldest(g, DOMAIN pending \ skipped)
  /\ \A s \in DOMAIN pending \ {g} : Len(pending[s].frames) = pending[s].have
  /\ tally \in Counters
  /\ HandOn(g, skipped, tally, last)

\* A take that hands a group on, whichever it is, keeps to types and order.
LEMMA HandOnKeeps ==
  ASSUME HoldInv, NEW g, NEW skipped, NEW tally, NEW last \in BOOLEAN,
         HandsOn(g, skipped, tally, last),
         UNCHANGED hole \/ NoHole, passing' \subseteq Sequence
  PROVE  HoldInv'
<1>1. /\ gap_since' \in Nat \cup {None} /\ fetching' \in Nat \cup {None}
      /\ gone' \in Nat \cup {None}
  BY DEF HoldInv, TypeOK, hole, NoHole
<1>2. restarted' \in BOOLEAN
  BY DEF HoldInv, TypeOK, hole, NoHole
<1>3. TypeOK'
  BY <1>1, <1>2, HandOnTypes DEF HoldInv, HandsOn
<1>4. QED BY <1>3, HandOnOrder DEF HoldInv, HandsOn

\* A live join aims at a group that is held.
LEMMA ReadyIsHeld ==
  ASSUME HoldInv, cursor = None, start = "Live", join_ready # None
  PROVE  join_ready \in DOMAIN pending
BY DEF HoldInv, JoinIsLowest, Oldest

\* A live join hands on the lowest group a decoder can start at; what it lets go
\* of lies below.
LEMMA LiveJoinHandsOn ==
  ASSUME HoldInv, NEW last \in BOOLEAN, TakeLiveJoin(last)
  PROVE  LET skipped == {s \in DOMAIN pending : s < join_ready}
         IN  HandsOn(join_ready, skipped,
                     [counters EXCEPT !.skipped_join = @ + Cardinality(skipped)], last)
<1> DEFINE skipped == {s \in DOMAIN pending : s < join_ready}
           tally   == [counters EXCEPT !.skipped_join = @ + Cardinality(skipped)]
<1>1. cursor = None /\ start = "Live" /\ join_ready # None /\ HandOn(join_ready, skipped, tally, last)
  BY DEF TakeLiveJoin
<1>2. join_ready \in DOMAIN pending
  BY <1>1, ReadyIsHeld
<1>3. DOMAIN pending \subseteq Nat /\ None \notin Nat
  BY HoldAssumption DEF HoldInv, TypeOK, Sequence
<1>4. Oldest(join_ready, DOMAIN pending \ skipped) /\ join_ready \notin skipped
  BY <1>2, <1>3 DEF Oldest
<1>5. \A s \in DOMAIN pending : Len(pending[s].frames) = pending[s].have
  BY <1>1, <1>3, NothingWent
<1>6. tally \in Counters
  <2>1. Cardinality(skipped) \in Nat
    BY SequenceFinite DEF HoldInv, TypeOK
  <2>2. QED BY <2>1, Counting DEF HoldInv, TypeOK
<1>7. QED BY <1>1, <1>2, <1>4, <1>5, <1>6 DEF HandsOn

\* A backlog join, or one at the end of the track, hands on the lowest group.
LEMMA JoinHandsOn ==
  ASSUME HoldInv, NEW last \in BOOLEAN, TakeLiveEnd(last) \/ TakeBacklogJoin(last)
  PROVE  \E g \in DOMAIN pending : HandsOn(g, {}, counters, last)
<1>1. cursor = None /\ None \notin DOMAIN pending
  BY HoldAssumption DEF HoldInv, TypeOK, Sequence, TakeLiveEnd, TakeBacklogJoin
<1>2. \A s \in DOMAIN pending : Len(pending[s].frames) = pending[s].have
  BY <1>1, NothingWent
<1>3. PICK g \in DOMAIN pending : Oldest(g, DOMAIN pending) /\ HandOn(g, {}, counters, last)
  BY DEF TakeLiveEnd, TakeBacklogJoin
<1>4. QED BY <1>2, <1>3 DEF HandsOn, HoldInv, TypeOK

\* The group at the cursor is handed on, and there is none below it.
LEMMA AtCursorHandsOn ==
  ASSUME HoldInv, NEW last \in BOOLEAN, TakeAtCursor(last)
  PROVE  HandsOn(cursor, {},
                 IF gap_since # None THEN [counters EXCEPT !.holes_filled = @ + 1]
                 ELSE counters, last)
<1> DEFINE tally == IF gap_since # None THEN [counters EXCEPT !.holes_filled = @ + 1]
                    ELSE counters
<1>1. cursor \in DOMAIN pending /\ Oldest(cursor, DOMAIN pending)
  BY DEF TakeAtCursor, Oldest
<1>2. \A s \in DOMAIN pending \ {cursor} : Len(pending[s].frames) = pending[s].have
  <2>1. SUFFICES ASSUME NEW s \in DOMAIN pending, s # cursor
                 PROVE  Len(pending[s].frames) = pending[s].have
    OBVIOUS
  <2>2. pending[s].frames \in Seq(Frame) /\ pending[s].have \in Nat
    BY DEF HoldInv, TypeOK, Held
  <2>3. Len(pending[s].frames) \in Nat
    BY <2>2, LenProperties
  <2>4. Len(pending[s].frames) <= pending[s].have /\ ~(Len(pending[s].frames) < pending[s].have)
    BY <2>1 DEF HoldInv, AheadOfCursor
  <2>5. QED BY <2>2, <2>3, <2>4
<1>3. tally \in Counters
  BY Counting DEF HoldInv, TypeOK
<1>4. HandOn(cursor, {}, tally, last)
  BY DEF TakeAtCursor
<1>5. QED BY <1>1, <1>2, <1>3, <1>4 DEF HandsOn

\* Stepping over a hole hands on the group above it, the lowest held.
LEMMA StepsOverHandsOn ==
  ASSUME HoldInv, NEW last \in BOOLEAN, TakeStepsOver(last)
  PROVE  /\ Reason(last) \in Reasons
         /\ \E g \in DOMAIN pending :
              HandsOn(g, {}, [Opened EXCEPT !.holes_abandoned[Reason(last)] = @ + 1], last)
<1>1. Reason(last) \in Reasons
  BY DEF TakeStepsOver, Reason, Reasons
<1>2. cursor \notin DOMAIN pending
  BY HoldAssumption DEF TakeStepsOver, AtHole, HoldInv, TypeOK, Sequence
<1>3. \A s \in DOMAIN pending : Len(pending[s].frames) = pending[s].have
  BY <1>2, NothingWent
<1>4. Opened \in Counters
  BY Counting DEF Opened, HoldInv, TypeOK
<1>5. [Opened EXCEPT !.holes_abandoned[Reason(last)] = @ + 1] \in Counters
  BY <1>1, <1>4, Counting
<1>6. PICK g \in DOMAIN pending :
        /\ Oldest(g, DOMAIN pending)
        /\ HandOn(g, {}, [Opened EXCEPT !.holes_abandoned[Reason(last)] = @ + 1], last)
  BY DEF TakeStepsOver
<1>7. QED BY <1>1, <1>3, <1>5, <1>6 DEF HandsOn

\* Every call of take keeps to types and order.
LEMMA TakeKeeps ==
  ASSUME HoldInv, NEW last \in BOOLEAN, Take(last)
  PROVE  HoldInv'
<1>1. CASE TakeLiveJoin(last)
  <2>1. UNCHANGED hole /\ passing' \subseteq Sequence
    BY <1>1 DEF TakeLiveJoin, HoldInv, TypeOK
  <2>2. QED BY <1>1, <2>1, LiveJoinHandsOn, HandOnKeeps
<1>2. CASE TakeLiveEnd(last) \/ TakeBacklogJoin(last)
  <2>1. UNCHANGED hole /\ passing' \subseteq Sequence
    BY <1>2 DEF TakeLiveEnd, TakeBacklogJoin, HoldInv, TypeOK
  <2>2. QED BY <1>2, <2>1, JoinHandsOn, HandOnKeeps
<1>3. CASE TakeAtCursor(last)
  <2>1. (UNCHANGED hole \/ NoHole) /\ passing' \subseteq Sequence
    BY <1>3 DEF TakeAtCursor, HoldInv, TypeOK
  <2>2. QED BY <1>3, <2>1, AtCursorHandsOn, HandOnKeeps
<1>4. CASE TakeStepsOver(last)
  <2>1. NoHole /\ passing' \subseteq Sequence
    BY <1>4 DEF TakeStepsOver, HoldInv, TypeOK
  <2>2. QED BY <1>4, <2>1, StepsOverHandsOn, HandOnKeeps
<1>5. CASE TakeEmpty
  <2>1. TypeOK'
    BY <1>5 DEF TakeEmpty, HoldInv, TypeOK, joining
  <2>2. AheadOfCursor' /\ JoinIsLowest'
    BY <1>5 DEF TakeEmpty, HoldInv, AheadOfCursor, JoinIsLowest, Oldest, joining
  <2>3. QED BY <2>1, <2>2 DEF HoldInv
<1>6. CASE TakeWaits(last)
  <2>1. counters' \in Counters
    BY <1>6, Counting DEF TakeWaits, Opened, HoldInv, TypeOK
  <2>2. gap_since' \in Nat \cup {None}
    BY <1>6 DEF TakeWaits, Since, HoldInv, TypeOK
  <2>3. fetching' \in Nat \cup {None} /\ asks' \in [Sequence -> Nat]
    BY <1>6 DEF TakeWaits, HoldInv, TypeOK
  <2>4. UNCHANGED <<start, pending, pending_bytes, cursor, join_low, join_age, join_ready,
                    gone, restarted, fetched, passing>>
    BY <1>6 DEF TakeWaits, joining
  <2>5. TypeOK'
    BY <2>1, <2>2, <2>3, <2>4 DEF HoldInv, TypeOK
  <2>6. AheadOfCursor' /\ JoinIsLowest'
    BY <2>4 DEF HoldInv, AheadOfCursor, JoinIsLowest, Oldest
  <2>7. QED BY <2>5, <2>6 DEF HoldInv
<1>7. QED BY <1>1, <1>2, <1>3, <1>4, <1>5, <1>6 DEF Take

\* Every arrival leaves every other part of the state to its own handler.
LEMMA ArrivalKeeps ==
  ASSUME HoldInv,
         \/ \E s \in Sequence, f \in Frame, d \in Decodable : ReadFrame(s, f, d)
         \/ \E s \in Sequence : End(s)
         \/ \E s \in Sequence, a \in Answers, d \in {"yes", "no"} : Push(s, a, d)
  PROVE  HoldInv'
<1>1. ASSUME NEW s \in Sequence, NEW frames \in Seq(Frame), NEW decides \in Decodable,
             NEW complete \in BOOLEAN, Arrive(s, frames, decides, complete),
             asks' \in [Sequence -> Nat]
      PROVE  HoldInv'
  BY <1>1, ArriveTypes, ArriveOrder DEF HoldInv
<1>2. ASSUME NEW s \in Sequence, NEW f \in Frame, NEW d \in Decodable, ReadFrame(s, f, d)
      PROVE  HoldInv'
  <2>1. Arrive(s, <<f>>, d, FALSE) /\ asks' \in [Sequence -> Nat]
    BY <1>2 DEF ReadFrame, HoldInv, TypeOK
  <2>2. <<f>> \in Seq(Frame)
    OBVIOUS
  <2>3. QED BY <1>1, <2>1, <2>2
<1>3. ASSUME NEW s \in Sequence, End(s)
      PROVE  HoldInv'
  <2>1. Arrive(s, << >>, "unknown", TRUE) /\ asks' \in [Sequence -> Nat]
    BY <1>3 DEF End, HoldInv, TypeOK
  <2>2. << >> \in Seq(Frame) /\ "unknown" \in Decodable
    BY DEF Decodable
  <2>3. QED BY <1>1, <2>1, <2>2
<1>4. ASSUME NEW s \in Sequence, NEW a \in Answers, NEW d \in {"yes", "no"}, Push(s, a, d)
      PROVE  HoldInv'
  <2>1. Arrive(s, a, d, TRUE) /\ asks' = [asks EXCEPT ![s] = @ - 1] /\ asks[s] > 0
    BY <1>4 DEF Push, Asked
  <2>2. asks' \in [Sequence -> Nat]
    BY <2>1 DEF HoldInv, TypeOK
  <2>3. a \in Seq(Frame)
    BY AnswersAreFrames
  <2>4. d \in Decodable
    BY DEF Decodable
  <2>5. QED BY <1>1, <2>1, <2>2, <2>3, <2>4
<1>5. QED BY <1>2, <1>3, <1>4

\* Taking the track up again keeps to types and order.
LEMMA TakenUpKeeps ==
  ASSUME HoldInv, TakenUpAgain, fetching' \in Nat \cup {None}, asks' \in [Sequence -> Nat]
  PROVE  HoldInv'
<1>1. /\ DOMAIN pending' = DOMAIN pending
      /\ \A s \in DOMAIN pending :
           pending'[s] = IF pending[s].complete THEN pending[s]
                         ELSE [pending[s] EXCEPT !.again = 0]
  BY DEF TakenUpAgain
<1>2. \A s \in DOMAIN pending : pending[s] \in Held
  BY DEF HoldInv, TypeOK
<1>3. \A s \in DOMAIN pending :
        /\ pending'[s] \in Held
        /\ pending'[s].frames = pending[s].frames /\ pending'[s].have = pending[s].have
        /\ pending'[s].decodable = pending[s].decodable
        /\ pending'[s].again = pending[s].again \/ pending'[s].again = 0
  <2>1. TAKE s \in DOMAIN pending
  <2>2. CASE pending[s].complete
    BY <1>1, <1>2, <2>2
  <2>3. CASE ~pending[s].complete
    <3>1. pending'[s] = [pending[s] EXCEPT !.again = 0] /\ pending[s] \in Held
      BY <1>1, <1>2, <2>3
    <3>2. QED BY <3>1 DEF Held
  <2>4. QED BY <2>2, <2>3
<1>4. UNCHANGED <<start, pending_bytes, cursor, join_low, join_age, join_ready, gap_since,
                  gone, fetched, counters>> /\ passing' = {}
  BY DEF TakenUpAgain, joining
<1>5. restarted' \in BOOLEAN
  BY DEF TakenUpAgain
<1>6. pending' \in [DOMAIN pending' -> Held]
  <2>1. pending' = [s \in DOMAIN pending |-> pending'[s]]
    BY DEF TakenUpAgain
  <2>2. QED BY <1>1, <1>3, <2>1
<1>7. TypeOK'
  BY <1>1, <1>4, <1>5, <1>6 DEF HoldInv, TypeOK
<1>8. AheadOfCursor'
  <2>1. \A s \in DOMAIN pending : pending[s].have \in Nat /\ pending[s].have >= 0
    BY <1>2 DEF Held
  <2>2. QED BY <1>1, <1>3, <1>4, <2>1 DEF HoldInv, AheadOfCursor
<1>9. JoinIsLowest'
  <2>1. {s \in DOMAIN pending' : pending'[s].decodable = "yes"}
          = {s \in DOMAIN pending : pending[s].decodable = "yes"}
    BY <1>1, <1>3
  <2>2. QED BY <1>1, <1>4, <2>1 DEF HoldInv, JoinIsLowest, Oldest
<1>10. QED BY <1>7, <1>8, <1>9 DEF HoldInv

\* The operations that do not file or hand on frames keep to types and order.
LEMMA OthersKeep ==
  ASSUME HoldInv, (\E s \in Sequence : Refused(s)) \/ Restart \/ Tick \/ UNCHANGED vars
  PROVE  HoldInv'
<1>1. ASSUME NEW s \in Sequence, Refused(s)
      PROVE  HoldInv'
  <2>1. TypeOK'
    <3>1. asks' \in [Sequence -> Nat] /\ fetching' = None /\ gone' \in Nat
      BY <1>1, HoldAssumption DEF Refused, Asked, NoteGone, HoldInv, TypeOK, Sequence
    <3>2. QED BY <1>1, <3>1 DEF Refused, HoldInv, TypeOK, joining
  <2>2. AheadOfCursor' /\ JoinIsLowest'
    BY <1>1 DEF Refused, HoldInv, AheadOfCursor, JoinIsLowest, Oldest, joining
  <2>3. QED BY <2>1, <2>2 DEF HoldInv
<1>2. CASE Restart
  <2>1. TakenUpAgain /\ UNCHANGED <<fetching, asks>>
    BY <1>2 DEF Restart
  <2>2. fetching' \in Nat \cup {None} /\ asks' \in [Sequence -> Nat]
    BY <2>1 DEF HoldInv, TypeOK
  <2>3. QED BY <2>1, <2>2, TakenUpKeeps
<1>3. CASE Tick
  <2>1. gap_since' \in Nat \cup {None} /\ join_age' \in Nat
    BY <1>3 DEF Tick, HoldInv, TypeOK
  <2>2. UNCHANGED <<start, pending, pending_bytes, cursor, join_low, join_ready, fetching,
                    gone, restarted, fetched, passing, counters, asks>>
    BY <1>3 DEF Tick
  <2>3. QED
    BY <2>1, <2>2 DEF HoldInv, TypeOK, AheadOfCursor, JoinIsLowest, Oldest
<1>4. CASE UNCHANGED vars
  BY <1>4 DEF vars, joining, hole, HoldInv, TypeOK, AheadOfCursor, JoinIsLowest, Oldest
<1>5. QED BY <1>1, <1>2, <1>3, <1>4

\* Every step keeps to types and order.
LEMMA StepKeeps == HoldInv /\ [Next]_vars => HoldInv'
BY ArrivalKeeps, TakeKeeps, OthersKeep DEF Next

\* The inductive invariant is one.
LEMMA HoldInvariant == Spec => []HoldInv
BY InitHolds, StepKeeps, PTL DEF Spec

\* Every variable of the hold keeps to its type, whatever arrives and in whatever
\* order (core/src/order.rs, Queue).
THEOREM TypeCorrect == Spec => []TypeOK
<1>1. HoldInv => TypeOK
  BY DEF HoldInv
<1>2. QED BY <1>1, HoldInvariant, PTL

\* No held group lies below the cursor, and only the group at the cursor has
\* handed on some of its frames (Queue::take, Queue::arrive).
THEOREM NeverBehindCursor == Spec => []AheadOfCursor
<1>1. HoldInv => AheadOfCursor
  BY DEF HoldInv
<1>2. QED BY <1>1, HoldInvariant, PTL

\* Until the cursor is fixed, a join aims at the lowest group there is for it
\* (Queue::note_join, and join_low in Queue::arrive).
THEOREM JoinsAtTheLowest == Spec => []JoinIsLowest
<1>1. HoldInv => JoinIsLowest
  BY DEF HoldInv
<1>2. QED BY <1>1, HoldInvariant, PTL
=============================================================================
