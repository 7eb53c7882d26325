----------------------------- MODULE TrackWhole ------------------------------
(***************************************************************************)
(* Proofs about what becomes of the groups of a track (Track), for any     *)
(* values of its constants: what was passed went out whole, but for what   *)
(* was given up on or broken off; and how far what is held is under the    *)
(* budget.                                                                 *)
(*                                                                         *)
(* The invariant TrackInv of TrackProofs, by which frames leave in order,  *)
(* says nothing of where a group ends.  For the first it is strengthened   *)
(* by how a held group compares with the one that was published, by which  *)
(* groups were broken off, and by what has gone out of a group that is     *)
(* still here; for the second by what the groups above one that is being   *)
(* read, or may be read next, weigh.                                       *)
(***************************************************************************)
EXTENDS TrackProofs

-----------------------------------------------------------------------------
(* The invariant.                                                          *)

\* Frame i of group g has gone out.
IsOut(g, i) == \E n \in 1 .. Len(out) : out[n] = <<g, i>>

\* A held group is no more than was published of it; it is whole if no frame of it
\* is still to come and all are here.
HeldFits ==
  \A s \in DOMAIN pending :
    IF pending[s].complete THEN Closed(s) /\ pending[s].have = size[s]
    ELSE pending[s].have \in 1 .. size[s]

\* The frames of a held group that are not here any more are out.
SentWentOut ==
  \A s \in DOMAIN pending : \A i \in 1 .. Sent(pending[s]) : IsOut(s, i)

\* No more of a group is read than was published.
ReadFits == sub.group # None => sub.read <= size[sub.group]

\* A group that may come again, or that no task reads on, was broken off.
BrokenIsCut ==
  /\ \A s \in DOMAIN pending :
       ~pending[s].complete /\ pending[s].again # None => s \in cut
  /\ reader # "reading" /\ sub.group # None => sub.group \in cut

\* The last release is of a track that was read to its end.
LastIsFinished ==
  /\ reader = "finished" => sub.group = None
  /\ pull = "last" => reader = "finished"

\* The cursor is at most past the last group there can be.
CursorIsNear == cursor # None => cursor <= MaxSequence + 1

WholeInv ==
  /\ TrackInv /\ CursorIsNear
  /\ HeldFits /\ SentWentOut /\ ReadFits /\ BrokenIsCut /\ LastIsFinished
  /\ WholeUnlessCut

-----------------------------------------------------------------------------
(* The publisher.                                                          *)

\* No group shrinks; one of which no frame is to come stays as it is.
LEMMA Published ==
  ASSUME TrackTypes, Publish \/ UNCHANGED remote, NEW g \in Sequence
  PROVE  /\ size[g] \in Nat /\ size'[g] \in Nat /\ size'[g] >= size[g]
         /\ Closed(g) => Closed(g)' /\ size'[g] = size[g]
<1>1. /\ edge \in Nat /\ g \in Nat /\ size \in [Sequence -> 0 .. MaxFrames]
      /\ MaxFrames \in Nat /\ size[g] \in Nat
  BY HoldAssumption DEF TrackTypes, Sequence
<1>2. CASE UNCHANGED remote
  BY <1>1, <1>2 DEF remote, Closed
<1>3. CASE ~ended /\ size' = [size EXCEPT ![edge] = @ + 1] /\ UNCHANGED <<edge, ended>>
  BY <1>1, <1>3 DEF Closed
<1>4. CASE ~ended /\ edge' = edge + 1 /\ UNCHANGED <<size, ended>>
  BY <1>1, <1>4 DEF Closed
<1>5. CASE ended' = TRUE /\ UNCHANGED <<edge, size>>
  BY <1>1, <1>5 DEF Closed
<1>6. QED BY <1>2, <1>3, <1>4, <1>5 DEF Publish

\* The groups that were passed are groups of the track.
LEMMA PassedAreGroups ==
  ASSUME WholeInv, cursor # None, NEW g \in First .. cursor - 1
  PROVE  g \in Sequence
<1>1. cursor \in Nat /\ cursor <= MaxSequence + 1 /\ MaxSequence \in Nat
  BY HoldAssumption DEF WholeInv, CursorIsNear, TrackInv, HoldInv, TypeOK
<1>2. First \in Nat
  <2>1. CASE out = << >>
    BY <1>1, <2>1 DEF First
  <2>2. CASE out # << >>
    <3>1. out \in Seq(Sequence \X (1 .. MaxFrames))
      BY DEF WholeInv, TrackInv, TrackTypes
    <3>2. out[1] \in Sequence \X (1 .. MaxFrames)
      BY <2>2, <3>1, EmptySeq, LenProperties
    <3>3. QED BY <2>2, <3>2 DEF First, Sequence
  <2>3. QED BY <2>1, <2>2
<1>3. QED BY <1>1, <1>2 DEF Sequence

\* What went out whole did, whatever is published.
LEMMA WholeStays ==
  ASSUME TrackTypes, Publish \/ UNCHANGED remote, UNCHANGED out,
         NEW g \in Sequence, Whole(g)
  PROVE  Whole(g)'
<1>1. Closed(g) /\ \A i \in 1 .. size[g] : \E n \in 1 .. Len(out) : out[n] = <<g, i>>
  BY DEF Whole
<1>2. Closed(g)' /\ size'[g] = size[g]
  BY <1>1, Published
<1>3. QED BY <1>1, <1>2 DEF Whole

\* What was passed stays accounted for while nothing goes out and the cursor stays.
LEMMA PassedStays ==
  ASSUME WholeInv, UNCHANGED <<cursor, out>>, Publish \/ UNCHANGED remote,
         lost \subseteq lost', cut \subseteq cut'
  PROVE  WholeUnlessCut' /\ CursorIsNear'
<1>1. CursorIsNear'
  BY DEF WholeInv, CursorIsNear
<1>2. SUFFICES ASSUME cursor # None, NEW g \in First .. cursor - 1
               PROVE  g \in lost' \cup cut' \/ Whole(g)'
  BY <1>1 DEF WholeUnlessCut, First, Whole, Closed
<1>3. g \in Sequence /\ (g \in lost \cup cut \/ Whole(g))
  BY <1>2, PassedAreGroups DEF WholeInv, WholeUnlessCut
<1>4. Whole(g) => Whole(g)'
  BY <1>3, WholeStays DEF WholeInv, TrackInv
<1>5. QED BY <1>3, <1>4

\* So does what is held, while nothing arrives either.
LEMMA HeldStays ==
  ASSUME WholeInv, UNCHANGED <<pending, out>>, Publish \/ UNCHANGED remote
  PROVE  HeldFits' /\ SentWentOut'
<1>1. SentWentOut'
  <2>1. SentWentOut
    BY DEF WholeInv
  <2>2. QED BY <2>1 DEF SentWentOut, IsOut, Sent
<1>2. SUFFICES ASSUME NEW s \in DOMAIN pending
               PROVE  IF pending[s].complete THEN Closed(s)' /\ pending[s].have = size'[s]
                      ELSE pending[s].have \in 1 .. size'[s]
  BY <1>1 DEF HeldFits, Closed
<1>3. s \in Sequence /\ pending[s].have \in Nat
  BY GroupFacts DEF WholeInv, TrackInv
<1>4. /\ size[s] \in Nat /\ size'[s] \in Nat /\ size'[s] >= size[s]
      /\ Closed(s) => Closed(s)' /\ size'[s] = size[s]
  BY <1>3, Published DEF WholeInv, TrackInv
<1>5. QED BY <1>3, <1>4 DEF WholeInv, HeldFits

-----------------------------------------------------------------------------
(* Arrivals.                                                               *)

\* How many frames of a group have come when some that fit arrive: as many as
\* there were, or as many as the last of the new ones says.
LEMMA MoreReaches ==
  ASSUME HoldInv, NEW s \in Sequence, NEW frames \in Seq(Frame),
         NEW decides \in Decodable, NEW complete \in BOOLEAN, NEW base,
         ArriveMore(s, frames, decides, complete), Fits(s, frames, base, complete)
  PROVE  /\ frames = << >> => pending'[s].have = pending[s].have
         /\ frames # << >> =>
              pending'[s].have = IF base + Len(frames) > pending[s].have
                                 THEN base + Len(frames) ELSE pending[s].have
<1> DEFINE group == pending[s]
           n     == Len(frames)
           whole == complete /\ frames # << >>
           seen  == IF whole THEN 0 ELSE group.again
           over  == PassedOver(n, seen, group.have)
           fresh == SubSeq(frames, over + 1, n)
<1>1. /\ s \in DOMAIN pending /\ ~group.complete
      /\ pending'[s].have = group.have + Len(fresh)
  BY DEF ArriveMore, Hold
<1>2. /\ group.have \in Nat /\ n \in Nat /\ group.again \in Nat \cup {None}
      /\ group.again # None => group.again <= group.have
  BY <1>1, GroupFacts, LenProperties
<1>3. seen \in Nat \cup {None} /\ (seen # None => seen <= group.have)
  BY <1>2
<1>4. /\ base \in Nat
      /\ frames # << >> => base = IF seen = None THEN group.have ELSE seen
  BY <1>1, HoldAssumption DEF Fits
<1>5. n > 0 <=> frames # << >>
  BY EmptySeq
<1> HIDE DEF seen
<1>6. over \in 0 .. n
  <2>1. CASE seen = None
    BY <1>2, <2>1 DEF PassedOver
  <2>2. CASE seen # None
    <3>1. seen \in Nat /\ None \notin Int
      BY <1>3, <2>2, HoldAssumption
    <3>2. QED BY <1>2, <1>3, <2>2, <3>1, PassedOverReaches
  <2>3. QED BY <2>1, <2>2
<1> HIDE DEF over
<1>7. Len(fresh) = n - over
  BY <1>6, FreshFrames
<1> HIDE DEF fresh
<1>8. n > 0 => n - over = IF base + n > group.have THEN base + n - group.have ELSE 0
  <2>1. CASE seen = None
    <3>1. over = 0
      BY <2>1 DEF over, PassedOver
    <3>2. QED BY <1>2, <1>4, <1>5, <2>1, <3>1
  <2>2. CASE seen # None
    <3> DEFINE rest == group.have - seen
    <3>1. rest \in Int /\ n \in Int /\ seen \in Nat
      BY <1>2, <1>3, <2>2
    <3>2. over = Min({n, rest})
      BY <2>2 DEF over, PassedOver
    <3> HIDE DEF rest
    <3>3. over \in {n, rest} /\ over <= n /\ over <= rest
      BY <3>1, <3>2, MinOfTwo
    <3>4. n > 0 => base = seen
      BY <1>4, <1>5, <2>2
    <3>5. QED BY <1>2, <1>3, <3>1, <3>3, <3>4 DEF rest
  <2>3. QED BY <2>1, <2>2
<1>9. QED BY <1>1, <1>2, <1>4, <1>5, <1>6, <1>7, <1>8

\* What any arrival that fits does to the groups held.
LEMMA ArrivalReaches ==
  ASSUME HoldInv, NEW s \in Sequence, NEW frames \in Seq(Frame),
         NEW decides \in Decodable, NEW complete \in BOOLEAN, NEW base,
         Arrive(s, frames, decides, complete), Fits(s, frames, base, complete),
         NEW t \in DOMAIN pending'
  PROVE  \/ t \in DOMAIN pending /\ pending'[t] = pending[t]
         \/ /\ t = s /\ pending'[t].complete = complete
            /\ \/ /\ s \in DOMAIN pending /\ ~pending[s].complete
                  /\ frames = << >> => pending'[s].have = pending[s].have
                  /\ frames # << >> =>
                       pending'[s].have = IF base + Len(frames) > pending[s].have
                                          THEN base + Len(frames) ELSE pending[s].have
                  /\ ~complete /\ pending'[s].again # None => pending[s].again # None
               \/ /\ ~HereOrPassed(s)
                  /\ pending'[s].have = Len(frames) /\ pending'[s].again = None
<1>1. CASE ArriveLetGo(s, complete) \/ ArriveRepeated(s, complete) \/ ArriveLate(s, complete)
  BY <1>1 DEF ArriveLetGo, ArriveRepeated, ArriveLate
<1>2. CASE ArriveMore(s, frames, decides, complete)
  <2>1. /\ s \in DOMAIN pending /\ ~pending[s].complete
        /\ DOMAIN pending' = DOMAIN pending
        /\ \A u \in DOMAIN pending : u # s => pending'[u] = pending[u]
        /\ pending'[s].complete = complete
    BY <1>2 DEF ArriveMore, Hold
  <2>2. CASE t # s
    BY <2>1, <2>2
  <2>3. CASE t = s
    <3>1. /\ frames = << >> => pending'[s].have = pending[s].have
          /\ frames # << >> =>
               pending'[s].have = IF base + Len(frames) > pending[s].have
                                  THEN base + Len(frames) ELSE pending[s].have
      BY <1>2, MoreReaches
    <3>2. ~complete /\ pending'[s].again # None => pending[s].again # None
      BY <1>2 DEF ArriveMore, Hold
    <3>3. QED BY <2>1, <2>3, <3>1, <3>2
  <2>4. QED BY <2>2, <2>3
<1>3. CASE ArriveNew(s, frames, decides, complete)
  <2>1. /\ s \notin DOMAIN pending /\ DOMAIN pending' = DOMAIN pending \cup {s}
        /\ \A u \in DOMAIN pending : pending'[u] = pending[u]
        /\ pending'[s].have = Len(frames)
        /\ pending'[s].complete = complete /\ pending'[s].again = None
    BY <1>3 DEF ArriveNew, Hold
  <2>2. ~HereOrPassed(s)
    <3>1. s \in Nat /\ (cursor # None => s >= cursor /\ cursor \in Nat)
      BY <1>3 DEF ArriveNew, HoldInv, TypeOK, Sequence
    <3>2. QED BY <2>1, <3>1 DEF HereOrPassed
  <2>3. QED BY <2>1, <2>2
<1>4. QED BY <1>1, <1>2, <1>3 DEF Arrive

\* What arrives is no more than was published; an end is the end of all of it.
LEMMA ArrivalKeepsWhole ==
  ASSUME WholeInv, NEW s \in Sequence, NEW frames \in Seq(Frame),
         NEW decides \in Decodable, NEW complete \in BOOLEAN, NEW base,
         Arrive(s, frames, decides, complete), Fits(s, frames, base, complete),
         UNCHANGED <<remote, out, lost, cut>>,
         frames # << >> => base + Len(frames) <= size[s],
         ~complete => frames # << >>,
         complete => Closed(s),
         complete /\ frames # << >> => base = 0 /\ Len(frames) = size[s],
         complete /\ frames = << >> =>
           \/ size[s] = 0
           \/ s \in DOMAIN pending /\ ~pending[s].complete => pending[s].have = size[s],
         complete /\ frames = << >> /\ ~HereOrPassed(s) => size[s] = 0
  PROVE  /\ HeldFits' /\ SentWentOut' /\ WholeUnlessCut' /\ CursorIsNear'
         /\ \A t \in DOMAIN pending' :
              ~pending'[t].complete /\ pending'[t].again # None => t \in cut
<1>0. /\ HoldInv /\ PassingIsSettled /\ HeldInOrder /\ HeldFits /\ SentWentOut
      /\ size[s] \in Nat /\ Len(frames) \in Nat
  BY LenProperties, HoldAssumption DEF WholeInv, TrackInv, TrackTypes
<1>1. \A t \in DOMAIN pending' :
         \/ t \in DOMAIN pending /\ pending'[t] = pending[t]
         \/ /\ t = s /\ pending'[t].complete = complete
            /\ \/ /\ s \in DOMAIN pending /\ ~pending[s].complete
                  /\ frames = << >> => pending'[s].have = pending[s].have
                  /\ frames # << >> =>
                       pending'[s].have = IF base + Len(frames) > pending[s].have
                                          THEN base + Len(frames) ELSE pending[s].have
                  /\ ~complete /\ pending'[s].again # None => pending[s].again # None
               \/ /\ ~HereOrPassed(s)
                  /\ pending'[s].have = Len(frames) /\ pending'[s].again = None
  BY <1>0, ArrivalReaches
<1>2. /\ UNCHANGED cursor
      /\ \A t \in DOMAIN pending : Sent(pending'[t]) = Sent(pending[t])
      /\ \A t \in DOMAIN pending' \ DOMAIN pending : Sent(pending'[t]) = 0
  BY <1>0, ArrivalCases
<1>3. WholeUnlessCut' /\ CursorIsNear'
  BY <1>2, PassedStays
<1>4. SentWentOut'
  <2>1. SUFFICES ASSUME NEW t \in DOMAIN pending', NEW i \in 1 .. Sent(pending'[t])
                 PROVE  IsOut(t, i)
    BY DEF SentWentOut, IsOut, Sent
  <2>2. t \in DOMAIN pending
    BY <1>2, <2>1
  <2>3. QED BY <1>0, <1>2, <2>1, <2>2 DEF SentWentOut
<1>5. frames # << >> => Len(frames) > 0
  BY <1>0, EmptySeq
<1>6. HeldFits'
  <2>1. SUFFICES ASSUME NEW t \in DOMAIN pending'
                 PROVE  IF pending'[t].complete THEN Closed(t) /\ pending'[t].have = size[t]
                        ELSE pending'[t].have \in 1 .. size[t]
    BY DEF HeldFits, Closed, remote
  <2>2. CASE t \in DOMAIN pending /\ pending'[t] = pending[t]
    BY <1>0, <2>2 DEF HeldFits
  <2>3. CASE t = s /\ pending'[t].complete = complete
             /\ ~HereOrPassed(s) /\ pending'[s].have = Len(frames)
    <3>1. frames # << >> /\ ~HereOrPassed(s) => base = 0
      BY DEF Fits
    <3>2. CASE frames = << >>
      BY <2>3, <3>2, EmptySeq
    <3>3. CASE frames # << >>
      BY <1>0, <1>5, <2>3, <3>1, <3>3
    <3>4. QED BY <3>2, <3>3
  <2>4. CASE /\ t = s /\ pending'[t].complete = complete
             /\ s \in DOMAIN pending /\ ~pending[s].complete
             /\ frames = << >> => pending'[s].have = pending[s].have
             /\ frames # << >> =>
                  pending'[s].have = IF base + Len(frames) > pending[s].have
                                     THEN base + Len(frames) ELSE pending[s].have
    <3>1. pending[s].have \in 1 .. size[s] /\ base \in Nat
      BY <1>0, <2>4 DEF HeldFits, Fits
    <3>2. CASE frames = << >>
      BY <1>0, <2>4, <3>1, <3>2
    <3>3. CASE frames # << >>
      BY <1>0, <1>5, <2>4, <3>1, <3>3
    <3>4. QED BY <3>2, <3>3
  <2>5. QED BY <1>1, <2>1, <2>2, <2>3, <2>4
<1>7. \A t \in DOMAIN pending' :
        ~pending'[t].complete /\ pending'[t].again # None => t \in cut
  BY <1>1 DEF WholeInv, BrokenIsCut
<1>8. QED BY <1>3, <1>4, <1>6, <1>7

-----------------------------------------------------------------------------
(* Each action that hands nothing on.                                      *)

\* What the publisher does leaves every task where it was.
LEMMA PublishWhole ==
  ASSUME WholeInv, Publish, TrackInv'
  PROVE  WholeInv'
<1>1. UNCHANGED <<pending, cursor, out, lost, cut, sub, reader, pull>>
  BY DEF Publish, vars, task, host, past
<1>2. HeldFits' /\ SentWentOut' /\ WholeUnlessCut' /\ CursorIsNear'
  BY <1>1, HeldStays, PassedStays
<1>3. BrokenIsCut' /\ LastIsFinished'
  BY <1>1 DEF WholeInv, BrokenIsCut, LastIsFinished
<1>4. ReadFits'
  <2>1. SUFFICES ASSUME sub.group # None
                 PROVE  sub.read <= size'[sub.group]
    BY <1>1 DEF ReadFits
  <2>2. sub.group \in Sequence /\ sub.read \in Nat /\ sub.read <= size[sub.group]
    BY <2>1 DEF WholeInv, TrackInv, TrackTypes, ReadFits
  <2>3. size[sub.group] \in Nat /\ size'[sub.group] \in Nat /\ size'[sub.group] >= size[sub.group]
    BY <2>2, Published DEF WholeInv, TrackInv
  <2>4. QED BY <2>2, <2>3
<1>5. QED BY <1>2, <1>3, <1>4 DEF WholeInv

\* A step that leaves the hold, the publisher and what went out alone keeps what is
\* said of them.
LEMMA QuietWhole ==
  ASSUME WholeInv, TrackInv', UNCHANGED <<pending, cursor, remote, out, lost>>,
         cut \subseteq cut', ReadFits', LastIsFinished',
         reader' # "reading" /\ sub'.group # None => sub'.group \in cut'
  PROVE  WholeInv'
<1>1. HeldFits' /\ SentWentOut' /\ WholeUnlessCut' /\ CursorIsNear'
  BY HeldStays, PassedStays
<1>2. BrokenIsCut'
  BY DEF WholeInv, BrokenIsCut
<1>3. QED BY <1>1, <1>2 DEF WholeInv

\* The steps of the reading task and of the pull that file nothing.
LEMMA OthersKeepWhole ==
  ASSUME WholeInv, TrackInv',
         ReceiveGroup \/ Finish \/ Break \/ StartRelease \/ Clock \/ UNCHANGED all
  PROVE  WholeInv'
<1>0. /\ sub \in [from : Sequence, came : SUBSET Sequence,
                  group : Sequence \cup {None}, read : Nat]
      /\ size \in [Sequence -> 0 .. MaxFrames] /\ edge \in Sequence
      /\ ReadFits /\ BrokenIsCut /\ LastIsFinished
  BY DEF WholeInv, TrackInv, TrackTypes
<1>1. CASE ReceiveGroup
  <2>1. /\ UNCHANGED <<pending, cursor, remote, out, lost, cut, reader, pull>>
        /\ reader = "reading" /\ Listens
    BY <1>1 DEF ReceiveGroup, vars, host, past
  <2>2. PICK g \in sub.from .. edge : sub' = [sub EXCEPT !.came = @ \cup {g}, !.group = g, !.read = 0]
    BY <1>1 DEF ReceiveGroup
  <2>3. g \in Sequence
    BY <1>0, HoldAssumption DEF Sequence
  <2>4. sub'.group = g /\ sub'.read = 0 /\ size[g] >= 0
    BY <1>0, <2>2, <2>3, HoldAssumption
  <2>5. ReadFits' /\ LastIsFinished'
    BY <2>1, <2>4 DEF ReadFits, LastIsFinished, Listens, remote
  <2>6. QED BY <2>1, <2>5, QuietWhole
<1>2. CASE Finish
  <2>1. /\ UNCHANGED <<pending, cursor, remote, out, lost, cut, sub>>
        /\ sub.group = None /\ pull' # "last"
    BY <1>2 DEF Finish, vars, past, Filed
  <2>2. ReadFits' /\ LastIsFinished'
    BY <2>1 DEF ReadFits, LastIsFinished
  <2>3. QED BY <2>1, <2>2, QuietWhole
<1>3. CASE Break
  <2>1. /\ UNCHANGED <<pending, cursor, remote, out, lost, sub>>
        /\ reader' # "finished" /\ pull' # "last"
        /\ cut' = IF sub.group = None THEN cut ELSE cut \cup {sub.group}
    BY <1>3 DEF Break, vars, past, host, Filed, Listens
  <2>2. ReadFits' /\ LastIsFinished'
    BY <1>0, <2>1 DEF ReadFits, LastIsFinished, remote
  <2>3. QED BY <2>1, <2>2, QuietWhole
<1>4. CASE StartRelease \/ Clock \/ UNCHANGED all
  <2>1. /\ UNCHANGED <<pending, cursor, remote, out, lost, cut, sub, reader>>
        /\ pull' = "last" => pull = "last" \/ Over
    BY <1>4 DEF StartRelease, Clock, Tick, all, vars, task, host, past
  <2>2. ReadFits' /\ LastIsFinished'
    BY <1>0, <2>1 DEF ReadFits, LastIsFinished, Over, remote
  <2>3. QED BY <1>0, <2>1, <2>2, QuietWhole DEF BrokenIsCut
<1>5. QED BY <1>1, <1>2, <1>3, <1>4

\* One more frame of the group being read: as many are read as the hold takes them
\* to be, and no more than there are.
LEMMA SubscriptionFrameWhole ==
  ASSUME WholeInv, SubscriptionFrame, TrackInv'
  PROVE  WholeInv'
<1>0. /\ HoldInv /\ ReadsOn /\ ReadIsFiled
      /\ sub \in [from : Sequence, came : SUBSET Sequence,
                  group : Sequence \cup {None}, read : Nat]
      /\ size \in [Sequence -> 0 .. MaxFrames]
      /\ ReadFits /\ BrokenIsCut /\ LastIsFinished
  BY DEF WholeInv, TrackInv, TrackTypes
<1>00. PICK s \in Sequence : s = sub.group
  BY <1>0 DEF SubscriptionFrame
<1> DEFINE frames == <<sub.read + 1>>
           says   == IF s \in Keyed THEN "yes" ELSE "no"
<1>1. /\ s # None /\ sub.read < size[s] /\ ReadFrame(s, sub.read + 1, says)
      /\ sub' = [sub EXCEPT !.read = @ + 1]
      /\ UNCHANGED <<remote, out, lost, cut, reader>>
      /\ reader = "reading" /\ pull' # "last"
  BY <1>00 DEF SubscriptionFrame, past, Filed
<1>2. sub.read \in Nat /\ size[s] \in Nat /\ sub.read + 1 <= MaxFrames /\ sub.read + 1 <= size[s]
  BY <1>0, <1>1, HoldAssumption
<1>3. frames \in Seq(Frame) /\ Len(frames) = 1 /\ says \in Decodable /\ FALSE \in BOOLEAN
      /\ frames # << >>
  BY <1>2, TrackAssumption DEF Decodable
<1>4. Arrive(s, frames, says, FALSE)
  BY <1>1 DEF ReadFrame
<1>5. Fits(s, frames, sub.read, FALSE)
  <2>1. \A i \in DOMAIN frames : frames[i] = sub.read + i
    OBVIOUS
  <2>2. s \in DOMAIN pending /\ ~pending[s].complete =>
          sub.read = IF pending[s].again = None THEN pending[s].have ELSE pending[s].again
    BY <1>0, <1>00 DEF ReadsOn
  <2>3. ~HereOrPassed(s) => sub.read = 0
    BY <1>0, <1>1, <1>2, <1>00 DEF ReadIsFiled
  <2> HIDE DEF frames
  <2>4. QED BY <1>2, <1>3, <2>1, <2>2, <2>3 DEF Fits
<1> HIDE DEF frames, says
<1>6. /\ HeldFits' /\ SentWentOut' /\ WholeUnlessCut' /\ CursorIsNear'
      /\ \A t \in DOMAIN pending' :
           ~pending'[t].complete /\ pending'[t].again # None => t \in cut
  BY <1>1, <1>2, <1>3, <1>4, <1>5, ArrivalKeepsWhole
<1>7. sub'.group = s /\ sub'.read = sub.read + 1
  BY <1>0, <1>1, <1>00
<1>8. ReadFits' /\ BrokenIsCut' /\ LastIsFinished'
  BY <1>0, <1>1, <1>2, <1>6, <1>7 DEF ReadFits, BrokenIsCut, LastIsFinished, remote
<1>9. QED BY <1>6, <1>8 DEF WholeInv

\* The end of the group being read comes when all of it was read, and all of it is
\* here if it is still held.
LEMMA SubscriptionEndWhole ==
  ASSUME WholeInv, SubscriptionEnd, TrackInv'
  PROVE  WholeInv'
<1>0. /\ HoldInv /\ ReadsOn /\ ReadIsFiled
      /\ sub \in [from : Sequence, came : SUBSET Sequence,
                  group : Sequence \cup {None}, read : Nat]
      /\ size \in [Sequence -> 0 .. MaxFrames]
      /\ HeldFits /\ BrokenIsCut /\ LastIsFinished
  BY DEF WholeInv, TrackInv, TrackTypes
<1>1. PICK s \in Sequence : s = sub.group
  BY <1>0 DEF SubscriptionEnd
<1>2. /\ s # None /\ sub.read = size[s] /\ Closed(s)
      /\ IF sub.read > 0 THEN End(s) /\ Filed ELSE UNCHANGED <<vars, host>>
      /\ sub' = [sub EXCEPT !.group = None]
      /\ UNCHANGED <<remote, out, lost, cut, reader>>
      /\ reader = "reading" /\ Listens
  BY <1>1 DEF SubscriptionEnd, past
<1>3. sub'.group = None /\ pull' # "last"
  BY <1>0, <1>2 DEF Filed, Listens, host
<1>4. ReadFits' /\ LastIsFinished'
  BY <1>2, <1>3 DEF ReadFits, LastIsFinished
<1>5. CASE sub.read > 0
  <2>1. Arrive(s, << >>, "unknown", TRUE)
    BY <1>2, <1>5 DEF End
  <2>2. << >> \in Seq(Frame) /\ "unknown" \in Decodable /\ TRUE \in BOOLEAN
    BY DEF Decodable
  <2>3. Fits(s, << >>, 0, TRUE)
    BY HoldAssumption DEF Fits
  <2>4. s \in DOMAIN pending /\ ~pending[s].complete => pending[s].have = size[s]
    <3>1. SUFFICES ASSUME s \in DOMAIN pending, ~pending[s].complete
                   PROVE  pending[s].have = size[s]
      OBVIOUS
    <3>2. /\ pending[s].have \in 1 .. size[s]
          /\ pending[s].again \in Nat \cup {None}
          /\ pending[s].again # None => pending[s].again <= pending[s].have
      BY <1>0, <3>1, GroupFacts DEF HeldFits
    <3>3. IF pending[s].again = None THEN sub.read = pending[s].have
          ELSE sub.read = pending[s].again
      BY <1>0, <1>1, <3>1 DEF ReadsOn
    <3>4. QED BY <1>0, <1>2, <3>2, <3>3
  <2>5. HereOrPassed(s)
    BY <1>0, <1>1, <1>2, <1>5 DEF ReadIsFiled
  <2>6. /\ HeldFits' /\ SentWentOut' /\ WholeUnlessCut' /\ CursorIsNear'
        /\ \A t \in DOMAIN pending' :
             ~pending'[t].complete /\ pending'[t].again # None => t \in cut
    BY <1>2, <2>1, <2>2, <2>3, <2>4, <2>5, ArrivalKeepsWhole
  <2>7. BrokenIsCut'
    BY <1>2, <1>3, <2>6 DEF BrokenIsCut
  <2>8. QED BY <1>4, <2>6, <2>7 DEF WholeInv
<1>6. CASE ~(sub.read > 0)
  <2>1. UNCHANGED <<pending, cursor>>
    BY <1>2, <1>6 DEF vars
  <2>2. QED BY <1>2, <1>3, <1>4, <2>1, QuietWhole
<1>7. QED BY <1>5, <1>6

\* A fetch is answered with all of a group of which no frame is to come.
LEMMA AnswerWhole ==
  ASSUME WholeInv, Answer, TrackInv'
  PROVE  WholeInv'
<1>0. /\ HoldInv /\ ReadFits /\ BrokenIsCut /\ LastIsFinished /\ HeldFits
      /\ size \in [Sequence -> 0 .. MaxFrames]
  BY DEF WholeInv, TrackInv, TrackTypes
<1>1. UNCHANGED <<remote, task, sub, reader, out, lost, cut>> /\ pull' # "last"
  BY DEF Answer, task, past, Filed
<1>2. ReadFits' /\ LastIsFinished'
  BY <1>0, <1>1 DEF ReadFits, LastIsFinished, remote
<1>3. ASSUME NEW g \in Sequence, NEW says \in Decodable, Closed(g),
             Push(g, [i \in 1 .. size[g] |-> i], says)
      PROVE  WholeInv'
  <2> DEFINE n == size[g]
             a == [i \in 1 .. n |-> i]
  <2>1. n \in Nat /\ n <= MaxFrames
    BY <1>0, HoldAssumption
  <2>2. a \in Seq(Frame) /\ Len(a) = n /\ DOMAIN a = 1 .. n /\ \A i \in 1 .. n : a[i] = i
    <3> HIDE DEF n
    <3>1. \A i \in 1 .. n : i \in Frame
      BY <2>1, TrackAssumption, HoldAssumption
    <3>2. QED BY <2>1, <3>1
  <2>3. Arrive(g, a, says, TRUE)
    BY <1>3 DEF Push
  <2> HIDE DEF a
  <2>4. Fits(g, a, 0, TRUE)
    BY <2>1, <2>2 DEF Fits
  <2>5. a = << >> => n = 0
    BY <2>2, EmptySeq
  <2>6. TRUE \in BOOLEAN /\ 0 + Len(a) <= size[g] /\ Len(a) = size[g]
    BY <2>1, <2>2
  <2>7. /\ HeldFits' /\ SentWentOut' /\ WholeUnlessCut' /\ CursorIsNear'
        /\ \A t \in DOMAIN pending' :
             ~pending'[t].complete /\ pending'[t].again # None => t \in cut
    BY <1>1, <1>3, <2>2, <2>3, <2>4, <2>5, <2>6, ArrivalKeepsWhole
  <2>8. BrokenIsCut'
    BY <1>0, <1>1, <2>7 DEF BrokenIsCut
  <2>9. QED BY <1>2, <2>7, <2>8 DEF WholeInv
<1>4. ASSUME NEW g \in Sequence, Refused(g)
      PROVE  WholeInv'
  <2>1. UNCHANGED <<pending, cursor>>
    BY <1>4 DEF Refused
  <2>2. QED BY <1>0, <1>1, <1>2, <2>1, QuietWhole DEF BrokenIsCut
<1>5. QED
  <2>1. PICK g \in Sequence :
          \/ /\ Closed(g)
             /\ Push(g, [i \in 1 .. size[g] |-> i],
                     IF g \in Keyed /\ size[g] > 0 THEN "yes" ELSE "no")
          \/ Refused(g)
    BY DEF Answer
  <2>2. (IF g \in Keyed /\ size[g] > 0 THEN "yes" ELSE "no") \in Decodable
    BY DEF Decodable
  <2>3. QED BY <1>3, <1>4, <2>1, <2>2

\* When the track is taken up again, what comes again was broken off: the group
\* being read just now, or one that was before.
LEMMA TakenUpWhole ==
  ASSUME WholeInv, TrackInv', TakenUpAgain, sub' = Subscription(edge),
         UNCHANGED <<remote, out, lost>>, cut \subseteq cut',
         reader' = "reading", pull' # "last",
         sub.group # None => sub.group \in cut'
  PROVE  WholeInv'
<1>0. HoldInv /\ HeldFits /\ SentWentOut /\ BrokenIsCut /\ ReadsOn
  BY DEF WholeInv, TrackInv
<1>1. /\ DOMAIN pending' = DOMAIN pending /\ UNCHANGED cursor
      /\ \A s \in DOMAIN pending :
           pending'[s] = IF pending[s].complete THEN pending[s]
                         ELSE [pending[s] EXCEPT !.again = 0]
  BY DEF TakenUpAgain
<1>2. \A s \in DOMAIN pending :
        /\ pending'[s].frames = pending[s].frames /\ pending'[s].have = pending[s].have
        /\ pending'[s].complete = pending[s].complete
  <2>1. TAKE s \in DOMAIN pending
  <2>2. CASE pending[s].complete
    BY <1>1, <2>2
  <2>3. CASE ~pending[s].complete
    <3>1. pending'[s] = [pending[s] EXCEPT !.again = 0] /\ pending[s] \in Held
      BY <1>0, <1>1, <2>3, GroupFacts
    <3>2. QED BY <3>1 DEF Held
  <2>4. QED BY <2>2, <2>3
<1>3. HeldFits'
  BY <1>0, <1>1, <1>2 DEF HeldFits, Closed, remote
<1>4. SentWentOut'
  <2>1. \A s \in DOMAIN pending : Sent(pending'[s]) = Sent(pending[s])
    BY <1>2 DEF Sent
  <2>2. SUFFICES ASSUME NEW s \in DOMAIN pending, NEW i \in 1 .. Sent(pending'[s])
                 PROVE  IsOut(s, i)
    BY <1>1 DEF SentWentOut, Sent, IsOut
  <2>3. QED BY <1>0, <2>1, <2>2 DEF SentWentOut
<1>5. WholeUnlessCut' /\ CursorIsNear'
  BY <1>1, PassedStays
<1>6. sub'.group = None
  BY DEF Subscription
<1>7. ReadFits' /\ LastIsFinished'
  BY <1>6 DEF ReadFits, LastIsFinished
<1>8. BrokenIsCut'
  <2>1. SUFFICES ASSUME NEW s \in DOMAIN pending, ~pending[s].complete
                 PROVE  s \in cut'
    BY <1>1, <1>2, <1>6 DEF BrokenIsCut
  <2>2. s # None
    BY <1>0, GroupFacts
  <2>3. CASE s = sub.group
    BY <2>2, <2>3
  <2>4. CASE s # sub.group
    <3>1. pending[s].again = 0
      BY <1>0, <2>1, <2>4 DEF ReadsOn
    <3>2. QED BY <1>0, <2>1, <3>1, HoldAssumption DEF BrokenIsCut
  <2>5. QED BY <2>3, <2>4
<1>9. QED BY <1>3, <1>4, <1>5, <1>7, <1>8 DEF WholeInv

\* Both ways of taking it up again.
LEMMA TakeUpsKeepWhole ==
  ASSUME WholeInv, TrackInv', Resubscribe \/ Resume
  PROVE  WholeInv'
<1>0. BrokenIsCut /\ LastIsFinished /\ ReadFits
  BY DEF WholeInv
<1>1. CASE Resubscribe
  <2>1. UNCHANGED <<remote, out, lost, cut>> /\ pull' # "last" /\ reader = "broken"
    BY <1>1 DEF Resubscribe, past, Filed
  <2>2. CASE Restart /\ reader' = "reading" /\ sub' = Subscription(edge)
    <3>1. sub.group # None => sub.group \in cut
      BY <1>0, <2>1 DEF BrokenIsCut
    <3>2. QED BY <2>1, <2>2, <3>1, TakenUpWhole DEF Restart
  <2>3. CASE reader' = "lost" /\ UNCHANGED <<vars, sub>>
    <3>1. UNCHANGED <<pending, cursor>>
      BY <2>3 DEF vars
    <3>2. ReadFits' /\ LastIsFinished'
      BY <1>0, <2>1, <2>3 DEF ReadFits, LastIsFinished, remote
    <3>3. sub.group # None => sub.group \in cut
      BY <1>0, <2>1 DEF BrokenIsCut
    <3>4. QED BY <2>1, <2>3, <3>1, <3>2, <3>3, QuietWhole
  <2>4. QED BY <1>1, <2>2, <2>3 DEF Resubscribe
<1>2. CASE Resume
  <2>1. /\ TakenUpAgain /\ sub' = Subscription(edge)
        /\ UNCHANGED <<remote, out, lost>> /\ reader' = "reading" /\ pull' # "last"
        /\ cut' = IF reader = "reading" /\ sub.group # None THEN cut \cup {sub.group} ELSE cut
    BY <1>2 DEF Resume
  <2>2. sub.group # None => sub.group \in cut'
    BY <1>0, <2>1 DEF BrokenIsCut
  <2>3. QED BY <2>1, <2>2, TakenUpWhole
<1>3. QED BY <1>1, <1>2

-----------------------------------------------------------------------------
(* The pull.                                                               *)

\* What went out stays out, and the frames of the group handed on are out.
LEMMA LeavingIsOut ==
  ASSUME TrackInv, NEW g \in DOMAIN pending, out' = out \o Leaving(g)
  PROVE  /\ \A h, i : IsOut(h, i) => IsOut(h, i)'
         /\ \A i \in Sent(pending[g]) + 1 .. pending[g].have : IsOut(g, i)'
         /\ First' = First \/ (out = << >> /\ First' \in {g, MaxSequence + 1})
<1> DEFINE n    == Len(pending[g].frames)
           sent == Sent(pending[g])
           Pair == Sequence \X (1 .. MaxFrames)
           more == Leaving(g)
<1>1. /\ g \in Sequence /\ n \in Nat /\ sent \in Nat /\ pending[g].have = sent + n
      /\ DOMAIN more = 1 .. n /\ \A i \in 1 .. n : more[i] = <<g, sent + i>>
      /\ sent + n <= MaxFrames
  BY GoesOn
<1>2. out \in Seq(Pair) /\ MaxFrames \in Nat /\ Len(out) \in Nat
  BY HoldAssumption, LenProperties DEF TrackInv, TrackTypes
<1>3. more = [i \in 1 .. n |-> <<g, pending[g].frames[i]>>]
  <2>1. DOMAIN pending[g].frames = 1 .. n
    BY GroupFacts DEF TrackInv
  <2>2. QED BY <2>1 DEF Leaving
<1>4. \A i \in 1 .. n : <<g, sent + i>> \in Pair
  <2> HIDE DEF n, sent
  <2>1. \A i \in 1 .. n : sent + i \in 1 .. MaxFrames
    BY <1>1, <1>2
  <2>2. QED BY <1>1, <2>1
<1>5. out' = out \o more
  BY DEF more
<1> HIDE DEF n, sent, more, Pair
<1>6. more \in Seq(Pair) /\ Len(more) = n
  <2>1. \A i \in 1 .. n : more[i] \in Pair
    BY <1>1, <1>4
  <2>2. more \in [1 .. n -> Pair]
    BY <1>3, <2>1
  <2>3. QED BY <1>1, <2>2
<1>7. /\ Len(out') = Len(out) + n
      /\ \A i \in 1 .. Len(out) + n :
           out'[i] = IF i <= Len(out) THEN out[i] ELSE more[i - Len(out)]
      /\ out' \in Seq(Pair)
  BY <1>2, <1>5, <1>6, ConcatProperties
<1>8. ASSUME NEW h, NEW i, IsOut(h, i)
      PROVE  IsOut(h, i)'
  <2>1. PICK m \in 1 .. Len(out) : out[m] = <<h, i>>
    BY <1>8 DEF IsOut
  <2>2. m \in 1 .. Len(out') /\ out'[m] = <<h, i>>
    BY <1>1, <1>2, <1>7, <2>1
  <2>3. QED BY <2>2 DEF IsOut
<1>9. ASSUME NEW i \in sent + 1 .. sent + n
      PROVE  IsOut(g, i)'
  <2>1. PICK k \in 1 .. n : k = i - sent /\ sent + k = i
    BY <1>1, <1>9
  <2> DEFINE m == Len(out) + k
  <2>2. m \in 1 .. Len(out) + n /\ ~(m <= Len(out)) /\ m - Len(out) = k
    <3>1. Len(out) \in Nat /\ n \in Nat /\ k \in Nat /\ 1 <= k /\ k <= n
      BY <1>1, <1>2, <2>1
    <3>2. QED BY <3>1
  <2> HIDE DEF m
  <2>3. m \in 1 .. Len(out') /\ out'[m] = more[k]
    BY <1>7, <2>2
  <2>4. out'[m] = <<g, i>>
    BY <1>1, <2>1, <2>3
  <2>5. QED BY <2>3, <2>4 DEF IsOut
<1>10. First' = First \/ (out = << >> /\ First' \in {g, MaxSequence + 1})
  <2>1. CASE out # << >>
    <3>1. Len(out) > 0
      BY <1>2, <2>1, EmptySeq
    <3>2. out' # << >> /\ out'[1] = out[1]
      BY <1>1, <1>2, <1>7, <3>1
    <3>3. QED BY <2>1, <3>2 DEF First
  <2>2. CASE out = << >> /\ out' = << >>
    BY <2>2 DEF First
  <2>3. CASE out = << >> /\ out' # << >>
    <3>1. Len(out) = 0 /\ Len(out') > 0
      BY <1>7, <2>3, EmptySeq, LenProperties
    <3>2. out'[1] = more[1] /\ 1 \in 1 .. n
      BY <1>1, <1>7, <3>1
    <3>3. out'[1] = <<g, sent + 1>>
      BY <1>1, <3>2
    <3>4. QED BY <2>3, <3>3 DEF First
  <2>4. QED BY <2>1, <2>2, <2>3
<1>11. QED BY <1>1, <1>8, <1>9, <1>10 DEF sent

\* A group leaves for good only when no more of it is to come.
LEMMA PassesWhenDone ==
  ASSUME HoldInv, NEW g, NEW skipped, NEW tally, NEW last \in BOOLEAN,
         HandsOn(g, skipped, tally, last)
  PROVE  \/ Passes(g, skipped) /\ Done(pending[g], DOMAIN pending \ skipped # {g}, last)
         \/ Stays(g, skipped)
<1>1. Passes(g, skipped) \/ Stays(g, skipped)
  BY HandOnLeaves
<1>2. CASE Done(pending[g], DOMAIN pending \ skipped # {g}, last)
  BY <1>1, <1>2
<1>3. CASE ~Done(pending[g], DOMAIN pending \ skipped # {g}, last)
  <2>1. cursor' = g /\ g \in Nat
    BY <1>3, GroupFacts DEF HandsOn, HandOn
  <2>2. ~Passes(g, skipped)
    BY <2>1 DEF Passes
  <2>3. QED BY <1>1, <2>2
<1>4. QED BY <1>2, <1>3

\* A group handed on is whole when it is passed, or was broken off.
LEMMA HandOnKeepsWhole ==
  ASSUME WholeInv, NEW g, NEW skipped, NEW tally, NEW last \in BOOLEAN,
         HandsOn(g, skipped, tally, last), out' = out \o Leaving(g),
         UNCHANGED <<remote, sub, reader, cut>>, last => reader = "finished",
         lost \subseteq lost', cursor # None => cursor .. g - 1 \subseteq lost'
  PROVE  /\ HeldFits' /\ SentWentOut' /\ WholeUnlessCut' /\ CursorIsNear'
         /\ \A t \in DOMAIN pending' :
              ~pending'[t].complete /\ pending'[t].again # None => t \in cut
<1>0. /\ TrackInv /\ HoldInv /\ HeldFits /\ SentWentOut /\ BrokenIsCut /\ LastIsFinished
      /\ WholeUnlessCut /\ CursorIsNear /\ ReadsOn
  BY DEF WholeInv, TrackInv
<1>1. g \in DOMAIN pending
  BY DEF HandsOn
<1>2. /\ g \in Sequence /\ g \in Nat /\ g # None /\ Sent(pending[g]) \in Nat
      /\ pending[g].have \in Nat /\ Sent(pending[g]) <= pending[g].have
      /\ cursor # None => cursor \in Nat /\ cursor <= g
  <2>1. Len(pending[g].frames) \in Nat /\ pending[g].have \in Nat
    BY <1>0, <1>1, GroupFacts
  <2>2. cursor # None => cursor \in Nat /\ cursor <= g
    BY <1>0, <1>1 DEF HoldInv, TypeOK, AheadOfCursor
  <2>3. QED BY <1>0, <1>1, <2>1, <2>2, GroupFacts DEF Sent
<1>3. /\ \A h, i : IsOut(h, i) => IsOut(h, i)'
      /\ \A i \in Sent(pending[g]) + 1 .. pending[g].have : IsOut(g, i)'
      /\ First' = First \/ (out = << >> /\ First' \in {g, MaxSequence + 1})
  BY <1>0, <1>1, LeavingIsOut
<1>4. /\ \/ Passes(g, skipped) /\ Done(pending[g], DOMAIN pending \ skipped # {g}, last)
         \/ Stays(g, skipped)
      /\ OthersStay(g)
  BY <1>0, PassesWhenDone, HandOnLeaves
<1>5. \A t \in DOMAIN pending' :
        /\ t \in DOMAIN pending
        /\ t # g => pending'[t] = pending[t]
        /\ t = g => Stays(g, skipped)
  BY <1>4 DEF Passes, Stays, OthersStay
<1>6. \A t \in DOMAIN pending' :
        /\ pending'[t].complete = pending[t].complete /\ pending'[t].have = pending[t].have
        /\ pending'[t].again = pending[t].again
  BY <1>5 DEF Stays
<1>7. HeldFits'
  BY <1>0, <1>5, <1>6 DEF HeldFits, Closed, remote
<1>8. \A i \in 1 .. pending[g].have : IsOut(g, i)'
  BY <1>0, <1>1, <1>2, <1>3 DEF SentWentOut
<1>9. SentWentOut'
  <2>1. SUFFICES ASSUME NEW t \in DOMAIN pending', NEW i \in 1 .. Sent(pending'[t])
                 PROVE  IsOut(t, i)'
    BY DEF SentWentOut, Sent, IsOut
  <2>2. CASE t # g
    BY <1>0, <1>3, <1>5, <2>1, <2>2 DEF SentWentOut
  <2>3. CASE t = g
    <3>1. pending'[t].frames = << >> /\ pending'[t].have = pending[g].have
      BY <1>5, <1>6, <2>3 DEF Stays
    <3>2. Sent(pending'[t]) = pending[g].have
      BY <1>2, <3>1, EmptySeq DEF Sent
    <3>3. QED BY <1>8, <2>3, <3>2
  <2>4. QED BY <2>2, <2>3
<1>10. cursor' \in {g, g + 1} /\ (cursor' = g + 1 => Passes(g, skipped))
  BY <1>2, <1>4 DEF Passes, Stays
<1>11. CursorIsNear'
  BY <1>2, <1>10, HoldAssumption DEF CursorIsNear, Sequence
<1>12. Passes(g, skipped) => g \in cut \/ Whole(g)'
  <2>1. SUFFICES ASSUME Passes(g, skipped), g \notin cut
                 PROVE  Whole(g)'
    OBVIOUS
  <2>2. Done(pending[g], DOMAIN pending \ skipped # {g}, last)
    <3>1. ~Stays(g, skipped)
      BY <1>2, <2>1 DEF Passes, Stays
    <3>2. QED BY <1>4, <3>1
  <2>3. pending[g].complete
    <3>1. CASE pending[g].again # None
      BY <1>0, <1>1, <2>1, <3>1 DEF BrokenIsCut
    <3>2. CASE last
      <4>1. sub.group = None
        BY <1>0, <3>2 DEF LastIsFinished
      <4>2. ~pending[g].complete => pending[g].again = 0
        BY <1>0, <1>1, <1>2, <4>1 DEF ReadsOn
      <4>3. QED BY <1>0, <1>1, <2>1, <4>2, HoldAssumption DEF BrokenIsCut
    <3>3. QED BY <2>2, <3>1, <3>2 DEF Done
  <2>4. Closed(g) /\ pending[g].have = size[g]
    BY <1>0, <1>1, <2>3 DEF HeldFits
  <2>5. \A i \in 1 .. size[g] : IsOut(g, i)'
    BY <1>8, <2>4
  <2>6. QED BY <2>4, <2>5 DEF Whole, Closed, IsOut, remote
<1>13. \A h \in Sequence : Whole(h) => Whole(h)'
  <2>1. SUFFICES ASSUME NEW h \in Sequence, Whole(h)
                 PROVE  Whole(h)'
    OBVIOUS
  <2>2. Closed(h) /\ \A i \in 1 .. size[h] : IsOut(h, i)
    BY <2>1 DEF Whole, IsOut
  <2>3. \A i \in 1 .. size[h] : IsOut(h, i)'
    BY <1>3, <2>2
  <2>4. QED BY <2>2, <2>3 DEF Whole, Closed, IsOut, remote
<1>14. WholeUnlessCut'
  <2>1. SUFFICES ASSUME NEW h \in First' .. cursor' - 1
                 PROVE  h \in lost' \cup cut \/ Whole(h)'
    BY DEF WholeUnlessCut, First, Whole, Closed
  <2>0. First' \in Int
    <3>1. out' = << >> => First' = MaxSequence + 1
      BY DEF First
    <3>2. out' # << >> => First' \in Sequence
      <4>1. out' \in Seq(Sequence \X (1 .. MaxFrames))
        BY <1>0, <1>1, LeavingGoesOut
      <4>2. out' # << >> => out'[1] \in Sequence \X (1 .. MaxFrames)
        BY <4>1, EmptySeq, LenProperties
      <4>3. QED BY <4>2 DEF First
    <3>3. QED BY <3>1, <3>2, HoldAssumption DEF Sequence
  <2>2. CASE h = g
    <3>1. cursor' = g + 1
      <4>1. CASE cursor' = g
        <5>1. g \in First' .. g - 1
          BY <2>1, <2>2, <4>1
        <5>2. FALSE
          BY <1>2, <2>0, <5>1
        <5>3. QED BY <5>2
      <4>2. QED BY <1>10, <4>1
    <3>2. QED BY <1>10, <1>12, <2>2, <3>1
  <2>3. CASE h # g
    <3>1. h < g /\ h \in Int
      BY <1>2, <1>10, <2>1, <2>3
    <3>2. First' = First /\ h >= First
      <4>1. First' \notin {g, MaxSequence + 1}
        BY <1>2, <2>1, <3>1, HoldAssumption DEF Sequence
      <4>2. QED BY <1>3, <2>1, <4>1
    <3>3. cursor # None
      <4>1. out = << >> => First = MaxSequence + 1
        BY DEF First
      <4>2. out # << >>
        BY <1>2, <3>1, <3>2, <4>1, HoldAssumption DEF Sequence
      <4>3. QED BY <1>0, <4>2 DEF TrackInv, OutIsBehind
    <3>4. CASE h >= cursor
      <4>1. h \in cursor .. g - 1
        BY <1>2, <3>1, <3>3, <3>4
      <4>2. QED BY <3>3, <4>1
    <3>5. CASE h < cursor
      <4>1. h \in First .. cursor - 1
        BY <1>2, <2>1, <3>1, <3>2, <3>3, <3>5
      <4>2. h \in Sequence
        BY <3>3, <4>1, PassedAreGroups
      <4>3. h \in lost \cup cut \/ Whole(h)
        BY <1>0, <3>3, <4>1 DEF WholeUnlessCut
      <4>4. QED BY <1>13, <4>2, <4>3
    <3>6. QED BY <1>2, <3>1, <3>3, <3>4, <3>5
  <2>4. QED BY <2>2, <2>3
<1>15. \A t \in DOMAIN pending' :
         ~pending'[t].complete /\ pending'[t].again # None => t \in cut
  BY <1>0, <1>5, <1>6 DEF BrokenIsCut
<1>16. QED BY <1>7, <1>9, <1>11, <1>14, <1>15

\* So does the pull's release; what it steps over is noted as lost.
LEMMA ReleaseWhole ==
  ASSUME WholeInv, Release, TrackInv'
  PROVE  WholeInv'
<1>1. /\ Take(pull = "last") /\ pending' # pending
      /\ out' = out \o [i \in DOMAIN pending[Turn].frames |-> <<Turn, pending[Turn].frames[i]>>]
      /\ lost' = IF cursor = None THEN lost ELSE lost \cup (cursor .. Turn - 1)
      /\ UNCHANGED <<remote, sub, reader, pull, cut>>
  BY DEF Release, task
<1>2. PICK last \in BOOLEAN : last = (pull = "last")
  OBVIOUS
<1>3. Take(last) /\ HoldInv
  BY <1>1, <1>2 DEF WholeInv, TrackInv
<1>4. PICK g : g = Turn
  OBVIOUS
<1>5. \E skipped, tally : HandsOn(Turn, skipped, tally, last)
  BY <1>1, <1>3, TakeHandsOnTurn
<1>6. PICK skipped, tally : HandsOn(g, skipped, tally, last)
  BY <1>4, <1>5
<1>7. out' = out \o Leaving(g)
  BY <1>1, <1>4 DEF Leaving
<1>8. /\ last => reader = "finished"
      /\ lost \subseteq lost' /\ (cursor # None => cursor .. g - 1 \subseteq lost')
  BY <1>1, <1>2, <1>4 DEF WholeInv, LastIsFinished
<1>9. /\ HeldFits' /\ SentWentOut' /\ WholeUnlessCut' /\ CursorIsNear'
      /\ \A t \in DOMAIN pending' :
           ~pending'[t].complete /\ pending'[t].again # None => t \in cut
  BY <1>1, <1>6, <1>7, <1>8, HandOnKeepsWhole
<1>10. ReadFits' /\ BrokenIsCut' /\ LastIsFinished'
  BY <1>1, <1>9 DEF WholeInv, ReadFits, BrokenIsCut, LastIsFinished, remote
<1>11. QED BY <1>9, <1>10 DEF WholeInv

\* A take that hands nothing on was about the group at the cursor, if about any: it
\* steps over nothing.
LEMMA ReleaseEndsWhole ==
  ASSUME WholeInv, ReleaseEnds, TrackInv'
  PROVE  WholeInv'
<1>0. /\ HoldInv /\ TrackInv /\ ReadFits /\ BrokenIsCut /\ LastIsFinished /\ HeldFits
  BY DEF WholeInv, TrackInv
<1>1. /\ UNCHANGED <<remote, sub, reader, out, lost, cut>>
      /\ pull' # "last"
      /\ UNCHANGED vars \/ (Take(pull = "last") /\ pending' = pending)
  BY DEF ReleaseEnds, task, past
<1>2. ReadFits' /\ LastIsFinished'
  BY <1>0, <1>1 DEF ReadFits, LastIsFinished, remote
<1>3. PICK last \in BOOLEAN : last = (pull = "last")
  OBVIOUS
<1>4. CASE UNCHANGED <<pending, cursor>>
  BY <1>0, <1>1, <1>2, <1>4, QuietWhole DEF BrokenIsCut
<1>5. CASE pending' = pending /\ \E skipped, tally : HandsOn(Turn, skipped, tally, last)
  <2>1. PICK g : g = Turn
    OBVIOUS
  <2>2. PICK skipped, tally : HandsOn(g, skipped, tally, last)
    BY <1>5, <2>1
  <2>3. g \in DOMAIN pending
    BY <2>2 DEF HandsOn
  <2>4. Stays(g, skipped) /\ pending[g].frames = << >> /\ cursor' = g
    <3>1. Passes(g, skipped) \/ Stays(g, skipped)
      BY <1>0, <2>2, HandOnLeaves
    <3>2. ~Passes(g, skipped)
      BY <1>5, <2>3 DEF Passes
    <3>3. QED BY <1>5, <3>1, <3>2 DEF Stays
  <2>5. Leaving(g) = << >> /\ out \in Seq(Sequence \X (1 .. MaxFrames))
    BY <1>0, <2>4 DEF Leaving, TrackInv, TrackTypes
  <2>6. out' = out \o Leaving(g)
    BY <1>1, <2>5, ConcatEmptySeq
  <2>7. cursor # None => cursor .. g - 1 \subseteq lost
    <3>1. CASE ~pending[g].complete
      <4>1. pending[g].have > 0 /\ Len(pending[g].frames) = 0
        <5>1. pending[g].have \in 1 .. size[g] /\ pending[g].have \in Nat
          BY <1>0, <2>3, <3>1, GroupFacts DEF HeldFits
        <5>2. QED BY <2>4, <5>1, EmptySeq
      <4>2. cursor = g /\ g \in Nat
        BY <1>0, <2>3, <4>1, GroupFacts DEF HoldInv, AheadOfCursor
      <4>3. QED BY <4>2
    <3>2. CASE pending[g].complete
      <4>1. cursor' = g + 1 /\ g \in Nat
        BY <1>0, <2>2, <2>3, <3>2, GroupFacts DEF HandsOn, HandOn, Done
      <4>2. QED BY <2>4, <4>1
    <3>3. QED BY <3>1, <3>2
  <2>8. last => reader = "finished"
    BY <1>0, <1>3 DEF LastIsFinished
  <2>9. /\ HeldFits' /\ SentWentOut' /\ WholeUnlessCut' /\ CursorIsNear'
        /\ \A t \in DOMAIN pending' :
             ~pending'[t].complete /\ pending'[t].again # None => t \in cut
    BY <1>1, <2>2, <2>6, <2>7, <2>8, HandOnKeepsWhole
  <2>10. BrokenIsCut'
    BY <1>0, <1>1, <2>9 DEF BrokenIsCut
  <2>11. QED BY <1>2, <2>9, <2>10 DEF WholeInv
<1>6. UNCHANGED <<pending, cursor>>
      \/ (pending' = pending /\ \E skipped, tally : HandsOn(Turn, skipped, tally, last))
  <2>1. CASE UNCHANGED vars
    BY <2>1 DEF vars
  <2>2. CASE Take(pull = "last") /\ pending' = pending
    <3>1. Take(last)
      BY <1>3, <2>2
    <3>2. QED BY <1>0, <2>2, <3>1, TakeHandsOnTurn
  <2>3. QED BY <1>1, <2>1, <2>2
<1>7. QED BY <1>4, <1>5, <1>6

-----------------------------------------------------------------------------
(* What was passed went out whole.                                         *)

\* Nothing was passed at the start.
LEMMA InitWhole == TrackInit => WholeInv
<1> SUFFICES ASSUME TrackInit PROVE WholeInv
  OBVIOUS
<1>1. TrackInv
  BY InitTracks
<1>2. /\ DOMAIN pending = {} /\ cursor = None /\ sub.group = None
      /\ reader = "reading" /\ pull = "files"
  BY DEF TrackInit, Init, Subscription
<1>3. QED BY <1>1, <1>2 DEF WholeInv, CursorIsNear, HeldFits, SentWentOut, ReadFits,
                             BrokenIsCut, LastIsFinished, WholeUnlessCut

\* Each step keeps to the invariant.
LEMMA StepKeepsWhole == WholeInv /\ [TrackNext]_all => WholeInv'
<1> SUFFICES ASSUME WholeInv, [TrackNext]_all PROVE WholeInv'
  OBVIOUS
<1>1. TrackInv'
  BY StepTracks DEF WholeInv
<1>2. CASE Release \/ ReleaseEnds
  BY <1>1, <1>2, ReleaseWhole, ReleaseEndsWhole
<1>3. CASE Publish \/ SubscriptionFrame \/ SubscriptionEnd
  BY <1>1, <1>3, PublishWhole, SubscriptionFrameWhole, SubscriptionEndWhole
<1>4. CASE Resubscribe \/ Resume \/ Answer
  BY <1>1, <1>4, TakeUpsKeepWhole, AnswerWhole
<1>5. CASE ReceiveGroup \/ Finish \/ Break \/ StartRelease \/ Clock \/ UNCHANGED all
  BY <1>1, <1>5, OthersKeepWhole
<1>6. QED BY <1>2, <1>3, <1>4, <1>5 DEF TrackNext

\* Of the groups from the first that went out to the cursor, each went out from its
\* first frame to its last, unless it was given up on as a hole (take's four
\* reasons) or a broken subscription was in the middle of it: no order of arrival,
\* second copy, fetch, restart or last release makes a group end early unnoticed.
THEOREM PassedGroupsAreWhole == TrackSpec => []WholeUnlessCut
<1>1. WholeInv => WholeUnlessCut
  BY DEF WholeInv
<1>2. QED BY <1>1, InitWhole, StepKeepsWhole, PTL DEF TrackSpec

\* What is held of a group is no more than its publisher has written of it; a group
\* taken for whole is: no frame of it is still to come, and none is missing.
THEOREM WholeGroupsAreWhole == TrackSpec => []HeldFits
<1>1. WholeInv => HeldFits
  BY DEF WholeInv
<1>2. QED BY <1>1, InitWhole, StepKeepsWhole, PTL DEF TrackSpec

-----------------------------------------------------------------------------
(* The budget: the invariant.                                              *)

\* What the groups above group g weigh.
Above(g) == Weigh(pending, {t \in DOMAIN pending : t > g})

\* The relay hands over what was published, from where the subscription began; and
\* a group is only asked for when the cursor is at it.
Near ==
  /\ \A s \in DOMAIN pending : s <= edge
  /\ sub.group # None => sub.from <= sub.group /\ sub.group <= edge
  /\ \A s \in Sequence : asks[s] > 0 => cursor # None /\ s <= cursor

\* The next frame that is read is the first of its group.
AtFirst == reader = "reading" /\ ~(sub.group # None /\ sub.read > 0)

\* Whichever group that is, those above it are under the budget,
RoomToBegin ==
  start = "Backlog" /\ Listens /\ AtFirst =>
    \A g \in Sequence \ DOMAIN pending :
      sub.from <= g /\ (cursor # None => cursor <= g) => Above(g) < Budget

\* and they stay under it while the group is read.
OpenIsUnder ==
  start = "Backlog" =>
    \A s \in DOMAIN pending :
      ~pending[s].complete /\ pending[s].again = None => Above(s) < Budget

BudgetInv ==
  /\ TrackInv /\ BytesExact
  /\ Near /\ RoomToBegin /\ OpenIsUnder
  /\ BudgetHeld

-----------------------------------------------------------------------------
(* What the groups above one weigh.                                        *)

\* Some of the groups weigh no more than all of them.
LEMMA WeighPart ==
  ASSUME NEW f, NEW T, NEW S \in SUBSET T, Framed(f, T)
  PROVE  Weigh(f, S) \in Nat /\ Weigh(f, T) \in Nat /\ Weigh(f, S) <= Weigh(f, T)
<1>1. Framed(f, S) /\ Framed(f, T \ S)
  BY DEF Framed
<1>2. S \cup (T \ S) = T /\ S \cap (T \ S) = {}
  OBVIOUS
<1>3. Weigh(f, S \cup (T \ S)) = Weigh(f, S) + Weigh(f, T \ S)
  BY <1>1, <1>2, WeighBoth
<1>4. Weigh(f, S) \in Nat /\ Weigh(f, T \ S) \in Nat
  BY <1>1, WeighType
<1>5. Weigh(f, T) = Weigh(f, S) + Weigh(f, T \ S)
  BY <1>2, <1>3, Zenon
<1>6. QED BY <1>4, <1>5

\* No groups weigh nothing.
LEMMA WeighNone == ASSUME NEW f PROVE Weigh(f, {}) = 0
<1>1. Places(f, {}) = {}
  BY DEF Places
<1>2. QED BY <1>1, FS_EmptySet DEF Weigh

\* What is above a group is part of what is held.
LEMMA AboveIsPart ==
  ASSUME HoldInv, BytesExact, NEW g
  PROVE  Above(g) \in Nat /\ pending_bytes \in Nat /\ Above(g) <= pending_bytes
<1>1. Framed(pending, DOMAIN pending) /\ pending_bytes = Weigh(pending, DOMAIN pending)
  BY HeldAreFramed, BytesAsWeigh
<1>2. {t \in DOMAIN pending : t > g} \in SUBSET DOMAIN pending
  OBVIOUS
<1>3. QED BY <1>1, <1>2, WeighPart DEF Above

\* An arrival touches its own group at most.
LEMMA ArrivalTouches ==
  ASSUME HoldInv, NEW s \in Sequence, NEW frames \in Seq(Frame),
         NEW decides \in Decodable, NEW complete \in BOOLEAN,
         Arrive(s, frames, decides, complete)
  PROVE  /\ UNCHANGED <<start, cursor>>
         /\ DOMAIN pending \subseteq DOMAIN pending'
         /\ DOMAIN pending' \subseteq DOMAIN pending \cup {s}
         /\ \A t \in DOMAIN pending : t # s => pending'[t] = pending[t]
<1>1. UNCHANGED <<start, cursor>>
  BY DEF Arrive
<1>2. CASE UNCHANGED pending
  BY <1>1, <1>2
<1>3. CASE \E group : Hold(s, group)
  BY <1>1, <1>3 DEF Hold
<1>4. UNCHANGED pending \/ \E group : Hold(s, group)
  BY DEF Arrive, ArriveLetGo, ArriveRepeated, ArriveLate, ArriveMore, ArriveNew
<1>5. QED BY <1>2, <1>3, <1>4

\* It adds no more to the weight than what arrived, and nothing above its group.
LEMMA ArrivalAdds ==
  ASSUME HoldInv, NEW s \in Sequence, NEW frames \in Seq(Frame),
         NEW decides \in Decodable, NEW complete \in BOOLEAN,
         Arrive(s, frames, decides, complete)
  PROVE  /\ pending_bytes' <= pending_bytes + Len(frames)
         /\ \A g \in Sequence : s <= g => Above(g)' = Above(g)
<1>0. Len(frames) \in Nat /\ pending_bytes \in Int
  BY LenProperties DEF HoldInv, TypeOK
<1>1. pending_bytes' <= pending_bytes + Len(frames)
  <2>1. CASE UNCHANGED pending_bytes \/ pending_bytes' = pending_bytes + Len(frames)
    BY <1>0, <2>1
  <2>2. CASE ArriveMore(s, frames, decides, complete)
    <3> DEFINE group == pending[s]
               whole == complete /\ frames # << >>
               seen  == IF whole THEN 0 ELSE group.again
               over  == PassedOver(Len(frames), seen, group.have)
               fresh == SubSeq(frames, over + 1, Len(frames))
    <3>1. s \in DOMAIN pending /\ pending_bytes' = pending_bytes + Len(fresh)
      BY <2>2 DEF ArriveMore
    <3>2. /\ group.have \in Nat /\ group.again \in Nat \cup {None}
          /\ group.again # None => group.again <= group.have
      BY <3>1, GroupFacts
    <3>3. seen \in Nat \cup {None} /\ (seen # None => seen <= group.have)
      BY <3>2
    <3>4. over \in 0 .. Len(frames)
      <4> HIDE DEF seen
      <4>1. QED BY <1>0, <3>2, <3>3, PassedOverBounds
    <3>5. Len(fresh) = Len(frames) - over
      <4> HIDE DEF over
      <4>1. QED BY <3>4, FreshFrames
    <3> HIDE DEF over, fresh
    <3>6. QED BY <1>0, <3>1, <3>4, <3>5
  <2>3. QED BY <2>1, <2>2 DEF Arrive, ArriveLetGo, ArriveRepeated, ArriveLate, ArriveNew
<1>2. ASSUME NEW g \in Sequence, s <= g
      PROVE  Above(g)' = Above(g)
  <2> DEFINE S == {t \in DOMAIN pending : t > g}
  <2>1. ~(s > g)
    BY <1>2, HoldAssumption DEF Sequence
  <2>2. {t \in DOMAIN pending' : t > g} = S /\ \A t \in S : pending'[t].frames = pending[t].frames
    BY <2>1, ArrivalTouches
  <2> HIDE DEF S
  <2>3. Weigh(pending', S) = Weigh(pending, S)
    BY <2>2, WeighSame
  <2>4. Above(g)' = Weigh(pending', {t \in DOMAIN pending' : t > g})
    BY DEF Above, Weigh, Places
  <2>5. QED BY <2>2, <2>3, <2>4 DEF Above, S
<1>3. QED BY <1>1, <1>2

-----------------------------------------------------------------------------
(* Each action and the budget.                                             *)

\* A word was filed, and the hold is not over its budget unless a pull waited for it.
LEMMA FiledIsSeen ==
  ASSUME Listens, Filed, pending_bytes' \in Int
  PROVE  /\ pull' # "waits" /\ pull' # "last"
         /\ pull' = "files" => pull = "waits" \/ pending_bytes' < Budget
  BY HoldAssumption DEF Listens, Filed

\* A step that leaves the hold as it is, and lets no further group begin, keeps to
\* the budget.
LEMMA QuietBudget ==
  ASSUME BudgetInv, TrackInv', UNCHANGED <<start, pending, pending_bytes, cursor>>, Near',
         pull' = "waits" => pull = "waits",
         pull' = "files" => pull \in {"files", "waits"},
         AtFirst' /\ Listens' => AtFirst /\ sub'.from = sub.from
  PROVE  BudgetInv'
<1>0. HoldInv /\ BytesExact /\ pending_bytes \in Int /\ Budget \in Int /\ MaxFrames \in Nat
      /\ BudgetHeld /\ OpenIsUnder /\ RoomToBegin
  BY HoldAssumption DEF BudgetInv, TrackInv, HoldInv, TypeOK
<1>1. BytesExact'
  BY <1>0 DEF BytesExact, Weight
<1>2. \A g \in Sequence : Above(g)' = Above(g)
  BY DEF Above, Weigh, Places
<1>3. OpenIsUnder'
  <2>1. DOMAIN pending \subseteq Sequence
    BY <1>0 DEF HoldInv, TypeOK
  <2>2. QED BY <1>0, <1>2, <2>1 DEF OpenIsUnder
<1>4. RoomToBegin'
  <2>1. Listens' => Listens
    BY DEF Listens
  <2>2. QED BY <1>0, <1>2, <2>1 DEF RoomToBegin
<1>5. BudgetHeld'
  BY <1>0 DEF BudgetHeld, AtOpenGroup
<1>6. QED BY <1>1, <1>3, <1>4, <1>5 DEF BudgetInv

\* The steps that file nothing or a word without frames, and do not take the track
\* up again.
LEMMA OthersKeepBudget ==
  ASSUME BudgetInv, TrackInv',
         \/ Publish \/ ReceiveGroup \/ Finish \/ Break \/ StartRelease \/ Clock
         \/ Resubscribe /\ UNCHANGED <<vars, sub>> /\ reader' = "lost"
         \/ SubscriptionEnd /\ ~(sub.read > 0)
         \/ UNCHANGED all
  PROVE  BudgetInv'
<1>0. /\ HoldInv /\ Near /\ edge \in Nat /\ DOMAIN pending \subseteq Sequence
      /\ sub \in [from : Sequence, came : SUBSET Sequence,
                  group : Sequence \cup {None}, read : Nat]
  <2>1. /\ HoldInv /\ Near /\ edge \in Sequence /\ DOMAIN pending \subseteq Sequence
        /\ sub \in [from : Sequence, came : SUBSET Sequence,
                    group : Sequence \cup {None}, read : Nat]
    BY DEF BudgetInv, TrackInv, TrackTypes, HoldInv, TypeOK
  <2>2. QED BY <2>1, HoldAssumption DEF Sequence
<1>1. CASE Publish \/ StartRelease \/ Clock \/ UNCHANGED all
  <2>1. /\ UNCHANGED <<start, pending, pending_bytes, cursor, asks, sub, reader>>
        /\ edge' = edge \/ edge' = edge + 1
        /\ Listens' => pull' = pull
        /\ pull' # "waits" \/ pull' = pull
    BY <1>1 DEF Publish, StartRelease, Clock, Tick, all, vars, remote, task, host, Listens
  <2>2. edge <= edge' /\ edge' \in Nat
    BY <1>0, <2>1
  <2>3. \A g \in Nat : g <= edge => g <= edge'
    BY <1>0, <2>2
  <2>4. Near'
    <3>1. DOMAIN pending \subseteq Nat /\ (sub.group # None => sub.group \in Nat)
      BY <1>0 DEF Sequence
    <3>2. QED BY <1>0, <2>1, <2>3, <3>1 DEF Near
  <2>5. pull' = "files" => pull \in {"files", "waits"}
    BY <1>1 DEF Publish, StartRelease, Clock, all, host
  <2>6. QED BY <2>1, <2>4, <2>5, QuietBudget DEF AtFirst
<1>2. CASE ReceiveGroup
  <2>1. UNCHANGED <<start, pending, pending_bytes, cursor, asks, edge, reader, pull>>
        /\ sub.group = None
    BY <1>2 DEF ReceiveGroup, vars, remote, host
  <2>2. PICK g \in sub.from .. edge : sub' = [sub EXCEPT !.came = @ \cup {g}, !.group = g, !.read = 0]
    BY <1>2 DEF ReceiveGroup
  <2>3. sub'.group = g /\ sub'.from = sub.from /\ sub.from <= g /\ g <= edge
    BY <1>0, <2>2 DEF Sequence
  <2>4. Near'
    BY <1>0, <2>1, <2>3 DEF Near
  <2>5. QED BY <2>1, <2>3, <2>4, QuietBudget DEF AtFirst
<1>3. CASE SubscriptionEnd /\ ~(sub.read > 0)
  <2>1. /\ UNCHANGED <<start, pending, pending_bytes, cursor, asks, edge, reader, pull>>
        /\ sub'.group = None /\ sub'.from = sub.from
    BY <1>0, <1>3 DEF SubscriptionEnd, vars, remote, host
  <2>2. Near'
    BY <1>0, <2>1 DEF Near
  <2>3. QED BY <1>3, <2>1, <2>2, QuietBudget DEF AtFirst
<1>4. CASE \/ Finish \/ Break
           \/ Resubscribe /\ UNCHANGED <<vars, sub>> /\ reader' = "lost"
  <2>1. /\ UNCHANGED <<start, pending, pending_bytes, cursor, asks, edge, sub>>
        /\ reader' # "reading" /\ Listens
        /\ Filed \/ pull' = pull
    BY <1>4 DEF Finish, Break, Resubscribe, vars, remote, host
  <2>2. Near'
    BY <1>0, <2>1 DEF Near
  <2>3. pending_bytes' \in Int
    BY <1>0, <2>1 DEF HoldInv, TypeOK
  <2>4. /\ pull' = "waits" => pull = "waits"
        /\ pull' = "files" => pull \in {"files", "waits"}
    BY <2>1, <2>3, FiledIsSeen DEF Listens
  <2>5. QED BY <2>1, <2>2, <2>4, QuietBudget DEF AtFirst
<1>5. QED BY <1>1, <1>2, <1>3, <1>4

\* When the track is taken up again, nothing held is above the live edge, where the
\* new subscription begins, and no group is being read.
LEMMA TakenUpKeepsBudget ==
  ASSUME BudgetInv, TrackInv', TakenUpAgain, sub' = Subscription(edge), UNCHANGED edge,
         UNCHANGED asks \/ asks' = [s \in Sequence |-> 0],
         pull \in {"files", "waits"}, pull' # "waits"
  PROVE  BudgetInv'
<1>0. /\ HoldInv /\ BytesExact /\ Near /\ pending_bytes \in Int /\ BudgetHeld
      /\ DOMAIN pending \subseteq Sequence /\ edge \in Sequence
      /\ pending_bytes = Weigh(pending, DOMAIN pending)
  BY BytesAsWeigh DEF BudgetInv, TrackInv, TrackTypes, HoldInv, TypeOK
<1>1. /\ DOMAIN pending' = DOMAIN pending /\ UNCHANGED <<start, cursor, pending_bytes>>
      /\ \A s \in DOMAIN pending :
           pending'[s] = IF pending[s].complete THEN pending[s]
                         ELSE [pending[s] EXCEPT !.again = 0]
  BY DEF TakenUpAgain
<1>2. \A s \in DOMAIN pending :
        /\ pending'[s].frames = pending[s].frames
        /\ pending'[s].complete \/ pending'[s].again = 0
  <2>1. TAKE s \in DOMAIN pending
  <2>2. CASE pending[s].complete
    BY <1>1, <2>2
  <2>3. CASE ~pending[s].complete
    <3>1. pending'[s] = [pending[s] EXCEPT !.again = 0] /\ pending[s] \in Held
      BY <1>0, <1>1, <2>3, GroupFacts
    <3>2. QED BY <3>1 DEF Held
  <2>4. QED BY <2>2, <2>3
<1>3. BytesExact'
  <2>1. Weigh(pending', DOMAIN pending) = Weigh(pending, DOMAIN pending)
    BY <1>2, WeighSame
  <2>2. pending_bytes' = Weigh(pending', DOMAIN pending')
    BY <1>0, <1>1, <2>1
  <2>3. QED BY <2>2, BytesAsWeigh
<1>4. sub'.group = None /\ sub'.from = edge
  BY DEF Subscription
<1>5. Near'
  BY <1>0, <1>1, <1>4 DEF Near
<1>6. OpenIsUnder'
  BY <1>1, <1>2, HoldAssumption DEF OpenIsUnder
<1>7. RoomToBegin'
  <2>1. SUFFICES ASSUME NEW g \in Sequence, edge <= g
                 PROVE  Above(g)' < Budget
    BY <1>4 DEF RoomToBegin
  <2>2. \A t \in DOMAIN pending' : ~(t > g)
    BY <1>0, <1>1, <2>1 DEF Near, Sequence
  <2>3. {t \in DOMAIN pending' : t > g} = {}
    BY <2>2
  <2>4. Above(g)' = Weigh(pending', {})
    BY <2>3 DEF Above, Weigh, Places
  <2>5. Above(g)' = 0
    BY <2>4, WeighNone
  <2>6. QED BY <2>5, HoldAssumption
<1>8. BudgetHeld'
  BY <1>0, <1>1, HoldAssumption DEF BudgetHeld
<1>9. QED BY <1>3, <1>5, <1>6, <1>7, <1>8 DEF BudgetInv

\* An arrival at a hold that is under its budget takes it over by its own frames at
\* most; one at a hold that is not is looked at.
LEMMA ArrivalKeepsBudget ==
  ASSUME BudgetInv, TrackInv', NEW s \in Sequence, NEW frames \in Seq(Frame),
         NEW decides \in Decodable, NEW complete \in BOOLEAN,
         Arrive(s, frames, decides, complete),
         Len(frames) <= MaxFrames, Listens, Filed
  PROVE  /\ BytesExact' /\ BudgetHeld'
         /\ pull' = "files" => pending_bytes' < Budget \/ pull = "waits"
         /\ \A g \in Sequence : Above(g)' \in Nat /\ Above(g)' <= pending_bytes'
<1>0. /\ HoldInv /\ HoldInv' /\ BytesExact /\ pending_bytes \in Int /\ pending_bytes' \in Int
      /\ BudgetHeld /\ Len(frames) \in Nat /\ MaxFrames \in Nat /\ Budget \in Nat
  BY LenProperties, HoldAssumption DEF BudgetInv, TrackInv, HoldInv, TypeOK
<1>1. BytesExact'
  BY <1>0, ArrivalWeighs DEF BytesInv
<1>2. /\ pull' # "waits" /\ (pull' = "files" => pull = "waits" \/ pending_bytes' < Budget)
  BY <1>0, FiledIsSeen
<1>3. pending_bytes' <= pending_bytes + Len(frames) /\ UNCHANGED start
  BY <1>0, ArrivalAdds, ArrivalTouches
<1>4. BudgetHeld'
  <2>1. SUFFICES ASSUME start = "Backlog", pull' = "files"
                 PROVE  pending_bytes' < Budget + MaxFrames
    BY <1>2, <1>3 DEF BudgetHeld
  <2>2. CASE pending_bytes' < Budget
    BY <1>0, <2>2
  <2>3. CASE pull = "waits"
    <3>1. pending_bytes < Budget
      BY <1>0, <2>1, <2>3 DEF BudgetHeld
    <3>2. QED BY <1>0, <1>3, <3>1
  <2>4. QED BY <1>2, <2>1, <2>2, <2>3
<1>5. ASSUME NEW g \in Sequence
      PROVE  Above(g)' \in Nat /\ Above(g)' <= pending_bytes'
  <2>1. Framed(pending', DOMAIN pending')
    BY <1>0 DEF HoldInv, TypeOK, Held, Framed
  <2>2. pending_bytes' = Weigh(pending', DOMAIN pending')
    BY <1>1, BytesAsWeigh
  <2>3. {t \in DOMAIN pending' : t > g} \in SUBSET DOMAIN pending'
    OBVIOUS
  <2>4. Above(g)' = Weigh(pending', {t \in DOMAIN pending' : t > g})
    BY DEF Above, Weigh, Places
  <2>5. QED BY <2>1, <2>2, <2>3, <2>4, WeighPart
<1>6. QED BY <1>1, <1>2, <1>4, <1>5

\* A frame that is read is of a group that was begun when those above it were under
\* the budget, or is the first of one that begins now.
LEMMA SubscriptionFrameBudget ==
  ASSUME BudgetInv, SubscriptionFrame, TrackInv'
  PROVE  BudgetInv'
<1>0. /\ HoldInv /\ PassingIsSettled /\ HeldInOrder /\ ReadsOn /\ ReadIsFiled /\ ReadsOn'
      /\ sub \in [from : Sequence, came : SUBSET Sequence,
                  group : Sequence \cup {None}, read : Nat]
      /\ size \in [Sequence -> 0 .. MaxFrames]
      /\ Near /\ RoomToBegin /\ OpenIsUnder
  BY DEF BudgetInv, TrackInv, TrackTypes
<1>00. PICK s \in Sequence : s = sub.group
  BY <1>0 DEF SubscriptionFrame
<1> DEFINE frames == <<sub.read + 1>>
           says   == IF s \in Keyed THEN "yes" ELSE "no"
<1>1. /\ s # None /\ sub.read < size[s] /\ ReadFrame(s, sub.read + 1, says)
      /\ sub' = [sub EXCEPT !.read = @ + 1]
      /\ UNCHANGED <<edge, reader, asks>>
      /\ reader = "reading" /\ Listens /\ Filed
  BY <1>00 DEF SubscriptionFrame, remote, ReadFrame
<1>2. sub.read \in Nat /\ size[s] \in Nat /\ sub.read + 1 <= MaxFrames /\ MaxFrames \in Nat
  BY <1>0, <1>1, HoldAssumption
<1>3. frames \in Seq(Frame) /\ Len(frames) = 1 /\ says \in Decodable /\ FALSE \in BOOLEAN
      /\ frames # << >> /\ Len(frames) <= MaxFrames
  BY <1>2, TrackAssumption DEF Decodable
<1>4. Arrive(s, frames, says, FALSE)
  BY <1>1 DEF ReadFrame
<1>5. Fits(s, frames, sub.read, FALSE)
  <2>1. \A i \in DOMAIN frames : frames[i] = sub.read + i
    OBVIOUS
  <2>2. s \in DOMAIN pending /\ ~pending[s].complete =>
          sub.read = IF pending[s].again = None THEN pending[s].have ELSE pending[s].again
    BY <1>0, <1>00 DEF ReadsOn
  <2>3. ~HereOrPassed(s) => sub.read = 0
    BY <1>0, <1>1, <1>2, <1>00 DEF ReadIsFiled
  <2> HIDE DEF frames
  <2>4. QED BY <1>2, <1>3, <2>1, <2>2, <2>3 DEF Fits
<1> HIDE DEF frames, says
<1>6. BytesExact' /\ BudgetHeld'
  BY <1>1, <1>3, <1>4, ArrivalKeepsBudget
<1>7. sub'.group = s /\ sub'.read = sub.read + 1 /\ sub'.from = sub.from
  BY <1>0, <1>1, <1>00
<1>8. /\ UNCHANGED <<start, cursor>> /\ DOMAIN pending' \subseteq DOMAIN pending \cup {s}
      /\ Above(s)' = Above(s)
  BY <1>0, <1>3, <1>4, ArrivalTouches, ArrivalAdds, HoldAssumption DEF Sequence
<1>9. Near'
  <2>1. s <= edge /\ sub.from <= s
    BY <1>0, <1>00, <1>1 DEF Near
  <2>2. QED BY <1>0, <1>1, <1>7, <1>8, <2>1 DEF Near
<1>10. RoomToBegin'
  <2>1. ~AtFirst'
    BY <1>1, <1>2, <1>7 DEF AtFirst
  <2>2. QED BY <2>1 DEF RoomToBegin
<1>11. OpenIsUnder'
  <2>1. SUFFICES ASSUME start = "Backlog", NEW t \in DOMAIN pending',
                        ~pending'[t].complete, pending'[t].again = None
                 PROVE  Above(t)' < Budget
    BY <1>8 DEF OpenIsUnder
  <2>2. t = s
    BY <1>0, <1>7, <2>1, HoldAssumption DEF ReadsOn
  <2>3. \/ s \in DOMAIN pending /\ ~pending[s].complete /\ pending[s].again = None
        \/ ~HereOrPassed(s)
    <3>1. \/ /\ s \in DOMAIN pending /\ ~pending[s].complete
             /\ IF pending[s].again = None THEN pending'[s].again = None
                ELSE pending'[s].again = pending[s].again + Len(frames)
          \/ ~HereOrPassed(s)
      BY <1>0, <1>3, <1>4, <1>5, <2>1, <2>2, ArrivalCases
    <3>2. s \in DOMAIN pending => pending[s].again \in Nat \cup {None}
      BY <1>0, GroupFacts
    <3>3. QED BY <1>3, <2>1, <2>2, <3>1, <3>2, HoldAssumption
  <2>4. CASE s \in DOMAIN pending /\ ~pending[s].complete /\ pending[s].again = None
    BY <1>0, <1>8, <2>1, <2>2, <2>4 DEF OpenIsUnder
  <2>5. CASE ~HereOrPassed(s)
    <3>1. AtFirst
      BY <1>0, <1>00, <1>1, <2>5 DEF AtFirst, ReadIsFiled
    <3>2. s \in Sequence \ DOMAIN pending /\ sub.from <= s
      BY <1>0, <1>00, <1>1, <2>5 DEF HereOrPassed, Near
    <3>3. cursor # None => cursor <= s
      BY <1>0, <2>5, HoldAssumption DEF HereOrPassed, HoldInv, TypeOK, Sequence
    <3>4. QED BY <1>0, <1>1, <1>8, <2>1, <2>2, <3>1, <3>2, <3>3 DEF RoomToBegin
  <2>6. QED BY <2>3, <2>4, <2>5
<1>12. QED BY <1>6, <1>9, <1>10, <1>11 DEF BudgetInv

\* What the hold weighs, and so what is above any group, is under the budget after
\* a word without frames.
LEMMA RoomAfterAWord ==
  ASSUME BudgetInv, TrackInv', BytesExact', start' = start, start = "Backlog", Listens, Filed,
         pending_bytes' <= pending_bytes, NEW g \in Sequence
  PROVE  pull' = "files" => Above(g)' < Budget
<1>0. /\ pending_bytes \in Int /\ pending_bytes' \in Int /\ HoldInv' /\ BudgetHeld
      /\ Budget \in Int
  BY HoldAssumption DEF BudgetInv, TrackInv, HoldInv, TypeOK
<1>1. pull' = "files" => pending_bytes' < Budget
  BY <1>0, FiledIsSeen DEF BudgetHeld
<1>2. Above(g)' \in Nat /\ Above(g)' <= pending_bytes'
  <2>1. Framed(pending', DOMAIN pending')
    BY <1>0 DEF HoldInv, TypeOK, Held, Framed
  <2>2. pending_bytes' = Weigh(pending', DOMAIN pending')
    BY BytesAsWeigh
  <2>3. {t \in DOMAIN pending' : t > g} \in SUBSET DOMAIN pending'
    OBVIOUS
  <2>4. Above(g)' = Weigh(pending', {t \in DOMAIN pending' : t > g})
    BY DEF Above, Weigh, Places
  <2>5. QED BY <2>1, <2>2, <2>3, <2>4, WeighPart
<1>3. QED BY <1>0, <1>1, <1>2

\* The end of a group adds nothing, and leaves no group that is being read.
LEMMA SubscriptionEndBudget ==
  ASSUME BudgetInv, SubscriptionEnd, sub.read > 0, TrackInv'
  PROVE  BudgetInv'
<1>0. /\ HoldInv /\ ReadsOn' /\ Near /\ pending_bytes \in Int
      /\ sub \in [from : Sequence, came : SUBSET Sequence,
                  group : Sequence \cup {None}, read : Nat]
      /\ DOMAIN pending' \subseteq Sequence
  BY DEF BudgetInv, TrackInv, TrackTypes, HoldInv, TypeOK
<1>1. PICK s \in Sequence : s = sub.group
  BY <1>0 DEF SubscriptionEnd
<1>2. /\ s # None /\ End(s) /\ Filed /\ Listens
      /\ sub' = [sub EXCEPT !.group = None] /\ UNCHANGED <<edge, asks, reader>>
  BY <1>1 DEF SubscriptionEnd, remote, End
<1>3. /\ Arrive(s, << >>, "unknown", TRUE) /\ << >> \in Seq(Frame) /\ Len(<< >>) = 0
      /\ "unknown" \in Decodable /\ TRUE \in BOOLEAN /\ 0 <= MaxFrames
  <2>1. Arrive(s, << >>, "unknown", TRUE)
    BY <1>2 DEF End
  <2>2. << >> \in Seq(Frame) /\ Len(<< >>) = 0
    OBVIOUS
  <2>3. "unknown" \in Decodable /\ 0 <= MaxFrames
    BY HoldAssumption DEF Decodable
  <2>4. QED BY <2>1, <2>2, <2>3
<1>4. BytesExact' /\ BudgetHeld'
  BY <1>2, <1>3, ArrivalKeepsBudget
<1>5. /\ UNCHANGED <<start, cursor>> /\ DOMAIN pending' \subseteq DOMAIN pending \cup {s}
      /\ pending_bytes' <= pending_bytes + 0
  BY <1>0, <1>3, ArrivalTouches, ArrivalAdds
<1>6. sub'.group = None /\ sub'.from = sub.from
  BY <1>0, <1>2
<1>7. Near'
  <2>1. s <= edge
    BY <1>0, <1>1, <1>2 DEF Near
  <2>2. QED BY <1>0, <1>2, <1>5, <1>6, <2>1 DEF Near
<1>8. OpenIsUnder'
  BY <1>0, <1>6, HoldAssumption DEF OpenIsUnder, ReadsOn, Sequence
<1>9. RoomToBegin'
  <2>1. SUFFICES ASSUME start = "Backlog", Listens', NEW g \in Sequence
                 PROVE  Above(g)' < Budget
    BY <1>5 DEF RoomToBegin
  <2>2. pull' = "files"
    BY <1>2, <2>1 DEF Listens, Filed
  <2>3. pending_bytes' <= pending_bytes
    BY <1>0, <1>5
  <2>4. QED BY <1>2, <1>4, <1>5, <2>1, <2>2, <2>3, RoomAfterAWord
<1>10. QED BY <1>4, <1>7, <1>8, <1>9 DEF BudgetInv

\* A fetch is answered with a group at the cursor or below it, and adds nothing above.
LEMMA AnswerBudget ==
  ASSUME BudgetInv, Answer, TrackInv'
  PROVE  BudgetInv'
<1>0. /\ TrackInv /\ HoldInv /\ BytesExact /\ Near /\ OpenIsUnder /\ RoomToBegin /\ BudgetHeld
      /\ size \in [Sequence -> 0 .. MaxFrames] /\ asks \in [Sequence -> Nat]
      /\ cursor \in Nat \cup {None} /\ DOMAIN pending \subseteq Sequence
      /\ pending_bytes \in Int /\ Budget \in Int
  <2>1. TrackInv /\ HoldInv /\ TrackTypes /\ TypeOK
    BY DEF BudgetInv, TrackInv, HoldInv
  <2>2. BytesExact /\ Near /\ OpenIsUnder /\ RoomToBegin /\ BudgetHeld
    BY DEF BudgetInv
  <2>3. size \in [Sequence -> 0 .. MaxFrames]
    BY <2>1 DEF TrackTypes
  <2>4. /\ asks \in [Sequence -> Nat] /\ cursor \in Nat \cup {None}
        /\ DOMAIN pending \subseteq Sequence /\ pending_bytes \in Int
    BY <2>1 DEF TypeOK
  <2>5. QED BY <2>1, <2>2, <2>3, <2>4, HoldAssumption
<1>1. UNCHANGED <<edge, sub, reader>> /\ Listens /\ Filed
  BY DEF Answer, task, remote
<1>2. pull' # "waits" /\ (pull' = "files" => pull = "waits" \/ pending_bytes' < Budget)
  <2>1. pending_bytes' \in Int
    BY DEF TrackInv, HoldInv, TypeOK
  <2>2. QED BY <1>1, <2>1, FiledIsSeen
<1>3. ASSUME NEW h \in Sequence, Asked(h), asks' = [asks EXCEPT ![h] = @ - 1]
      PROVE  /\ cursor # None /\ h <= cursor
             /\ \A s \in Sequence : asks'[s] > 0 => asks[s] > 0
  BY <1>0, <1>3 DEF Near, Asked
<1>4. ASSUME NEW h \in Sequence, NEW says \in Decodable, h <= edge,
             Push(h, [i \in 1 .. size[h] |-> i], says)
      PROVE  BudgetInv'
  <2> DEFINE n == size[h]
             a == [i \in 1 .. n |-> i]
  <2>1. n \in Nat /\ n <= MaxFrames
    BY <1>0, HoldAssumption
  <2>2. a \in Seq(Frame) /\ Len(a) = n /\ DOMAIN a = 1 .. n /\ \A i \in 1 .. n : a[i] = i
    <3> HIDE DEF n
    <3>1. \A i \in 1 .. n : i \in Frame
      BY <2>1, TrackAssumption, HoldAssumption
    <3>2. QED BY <2>1, <3>1
  <2>3. Arrive(h, a, says, TRUE) /\ Asked(h) /\ asks' = [asks EXCEPT ![h] = @ - 1]
    BY <1>4 DEF Push
  <2> HIDE DEF a, n
  <2>4. Fits(h, a, 0, TRUE)
    BY <2>1, <2>2 DEF Fits
  <2>5. TRUE \in BOOLEAN /\ Len(a) <= MaxFrames
    BY <2>1, <2>2
  <2>6. BytesExact' /\ BudgetHeld' /\ \A g \in Sequence : Above(g)' \in Nat /\ Above(g)' <= pending_bytes'
    BY <1>1, <2>2, <2>3, <2>5, ArrivalKeepsBudget
  <2>7. /\ UNCHANGED <<start, cursor>> /\ DOMAIN pending' \subseteq DOMAIN pending \cup {h}
        /\ DOMAIN pending \subseteq DOMAIN pending'
        /\ \A g \in Sequence : h <= g => Above(g)' = Above(g)
    BY <1>0, <2>2, <2>3, <2>5, ArrivalTouches, ArrivalAdds
  <2>8. cursor # None /\ h <= cursor /\ h \in Nat /\ cursor \in Nat
    <3>1. cursor # None /\ h <= cursor
      BY <1>3, <2>3
    <3>2. QED BY <1>0, <3>1, HoldAssumption DEF Sequence
  <2>9. Near'
    BY <1>0, <1>1, <1>3, <1>4, <2>3, <2>7 DEF Near
  <2>10. OpenIsUnder'
    <3>1. SUFFICES ASSUME start = "Backlog", NEW t \in DOMAIN pending',
                          ~pending'[t].complete, pending'[t].again = None
                   PROVE  Above(t)' < Budget
      BY <2>7 DEF OpenIsUnder
    <3>2. t # h /\ t \in DOMAIN pending /\ pending'[t] = pending[t]
      BY <1>0, <2>2, <2>3, <2>4, <3>1, EndedIsWhole
    <3>3. t \in Sequence /\ t \in Nat /\ cursor <= t
      BY <1>0, <2>8, <3>2, GroupFacts DEF HoldInv, AheadOfCursor
    <3>4. h <= t
      BY <2>8, <3>3
    <3>5. QED BY <1>0, <2>7, <3>1, <3>2, <3>3, <3>4 DEF OpenIsUnder
  <2>11. RoomToBegin'
    <3>1. SUFFICES ASSUME start = "Backlog", Listens', NEW g \in Sequence, cursor <= g
                   PROVE  Above(g)' < Budget
      BY <2>7, <2>8 DEF RoomToBegin
    <3>2. CASE pending_bytes' < Budget
      <4>1. Above(g)' \in Nat /\ Above(g)' <= pending_bytes' /\ pending_bytes' \in Int
        BY <2>6 DEF TrackInv, HoldInv, TypeOK
      <4>2. QED BY <1>0, <3>2, <4>1
    <3>3. CASE pull = "waits"
      <4>1. pending_bytes < Budget
        BY <1>0, <3>1, <3>3 DEF BudgetHeld
      <4>2. Above(g) \in Nat /\ Above(g) <= pending_bytes
        BY <1>0, AboveIsPart
      <4>3. g \in Nat
        BY HoldAssumption DEF Sequence
      <4>4. Above(g)' = Above(g)
        BY <2>7, <2>8, <3>1, <4>3
      <4>5. QED BY <1>0, <4>1, <4>2, <4>4
    <3>4. QED BY <1>2, <3>1, <3>2, <3>3 DEF Listens
  <2>12. QED BY <2>6, <2>9, <2>10, <2>11 DEF BudgetInv
<1>5. ASSUME NEW h \in Sequence, Refused(h)
      PROVE  BudgetInv'
  <2>1. /\ UNCHANGED <<start, pending, pending_bytes, cursor>>
        /\ Asked(h) /\ asks' = [asks EXCEPT ![h] = @ - 1]
    BY <1>5 DEF Refused
  <2>2. Near'
    BY <1>0, <1>1, <1>3, <2>1 DEF Near
  <2>3. AtFirst' => AtFirst
    BY <1>1 DEF AtFirst
  <2>4. QED BY <1>1, <1>2, <2>1, <2>2, <2>3, QuietBudget DEF Listens
<1>6. QED
  <2>1. PICK h \in Sequence :
          \/ /\ h <= edge
             /\ Push(h, [i \in 1 .. size[h] |-> i],
                     IF h \in Keyed /\ size[h] > 0 THEN "yes" ELSE "no")
          \/ Refused(h)
    BY DEF Answer
  <2>2. (IF h \in Keyed /\ size[h] > 0 THEN "yes" ELSE "no") \in Decodable
    BY DEF Decodable
  <2>3. QED BY <1>4, <1>5, <2>1, <2>2

\* Taken up again, by the task that reads the track or by a new session.
LEMMA TakeUpsKeepBudget ==
  ASSUME BudgetInv, Resubscribe \/ Resume, TrackInv'
  PROVE  BudgetInv'
<1>1. CASE Resume
  <2>1. /\ TakenUpAgain /\ sub' = Subscription(edge) /\ UNCHANGED edge
        /\ asks' = [s \in Sequence |-> 0] /\ pull \in {"files", "waits"} /\ pull' # "waits"
    BY <1>1 DEF Resume, Listens, remote
  <2>2. QED BY <2>1, TakenUpKeepsBudget
<1>2. CASE Resubscribe /\ UNCHANGED <<vars, sub>> /\ reader' = "lost"
  BY <1>2, OthersKeepBudget
<1>3. CASE Resubscribe /\ Restart /\ sub' = Subscription(edge)
  <2>1. /\ TakenUpAgain /\ UNCHANGED <<asks, edge>> /\ pull \in {"files", "waits"} /\ Filed
    BY <1>3 DEF Resubscribe, Listens, Restart, remote
  <2>2. pull' # "waits"
    BY <2>1 DEF Filed
  <2>3. QED BY <1>3, <2>1, <2>2, TakenUpKeepsBudget
<1>4. QED BY <1>1, <1>2, <1>3 DEF Resubscribe

\* A take asks for no group but the one the cursor is at, and adds none.
LEMMA TakeKeepsNear ==
  ASSUME HoldInv, Near, NEW last \in BOOLEAN, Take(last), UNCHANGED <<edge, sub>>
  PROVE  Near' /\ UNCHANGED start
<1>0. cursor \in Nat \cup {None} /\ asks \in [Sequence -> Nat]
  BY DEF HoldInv, TypeOK
<1>1. CASE TakeEmpty
  BY <1>1 DEF TakeEmpty, Near
<1>2. CASE TakeWaits(last)
  <2>1. /\ UNCHANGED <<start, pending, cursor>> /\ cursor # None
        /\ \/ UNCHANGED asks
           \/ asks' = [asks EXCEPT ![cursor] = @ + 1]
    BY <1>2 DEF TakeWaits, AtHole
  <2>2. \A s \in Sequence : s # cursor => asks'[s] = asks[s]
    BY <1>0, <2>1
  <2>3. \A s \in Sequence : s = cursor => s <= cursor
    BY HoldAssumption DEF Sequence
  <2>4. QED BY <2>1, <2>2, <2>3 DEF Near
<1>3. ASSUME NEW g, NEW skipped, NEW tally, HandsOn(g, skipped, tally, last)
      PROVE  Near' /\ UNCHANGED start
  <2>1. g \in DOMAIN pending /\ UNCHANGED <<start, asks>>
    BY <1>3 DEF HandsOn, HandOn
  <2>2. (cursor' = g \/ cursor' = g + 1) /\ DOMAIN pending' \subseteq DOMAIN pending
    <3>1. Passes(g, skipped) \/ Stays(g, skipped)
      BY <1>3, HandOnLeaves
    <3>2. QED BY <3>1 DEF Passes, Stays
  <2>3. g \in Nat /\ g \in Int /\ (cursor # None => g >= cursor)
    BY <2>1, GroupFacts DEF HoldInv, AheadOfCursor
  <2>4. cursor # None => cursor' # None /\ \A s \in Sequence : s <= cursor => s <= cursor'
    BY <1>0, <2>2, <2>3, HoldAssumption DEF Sequence
  <2>5. QED BY <2>1, <2>2, <2>4 DEF Near
<1>4. CASE TakeLiveJoin(last)
  BY <1>3, <1>4, LiveJoinHandsOn
<1>5. CASE TakeLiveEnd(last) \/ TakeBacklogJoin(last)
  BY <1>3, <1>5, JoinHandsOn
<1>6. CASE TakeAtCursor(last)
  BY <1>3, <1>6, AtCursorHandsOn
<1>7. CASE TakeStepsOver(last)
  BY <1>3, <1>7, StepsOverHandsOn
<1>8. QED BY <1>1, <1>2, <1>4, <1>5, <1>6, <1>7 DEF Take

\* What a group that is being read has above it does not grow as the groups below it
\* go out.
LEMMA HandOnKeepsUnder ==
  ASSUME HoldInv, OpenIsUnder, NEW g, NEW skipped, NEW tally, NEW last \in BOOLEAN,
         HandsOn(g, skipped, tally, last), UNCHANGED start
  PROVE  OpenIsUnder'
<1> SUFFICES ASSUME start = "Backlog", NEW t \in DOMAIN pending',
                    ~pending'[t].complete, pending'[t].again = None
             PROVE  Above(t)' < Budget
  BY DEF OpenIsUnder
<1>1. Passes(g, skipped) \/ Stays(g, skipped)
  BY HandOnLeaves
<1>2. OthersStay(g)
  BY HandOnLeaves
<1>3. g \in DOMAIN pending /\ \A s \in DOMAIN pending \ skipped : g <= s
  BY DEF HandsOn, Oldest
<1>4. DOMAIN pending' \subseteq DOMAIN pending \ skipped
  BY <1>1 DEF Passes, Stays
<1>5. t \in DOMAIN pending /\ t \in Nat /\ g \in Nat /\ g <= t
  BY <1>3, <1>4, GroupFacts
<1>6. ~pending[t].complete /\ pending[t].again = None
  BY <1>1, <1>2, <1>3, <1>5 DEF Passes, Stays, OthersStay
<1>7. Above(t) < Budget
  BY <1>5, <1>6 DEF OpenIsUnder
<1> DEFINE S == {u \in DOMAIN pending' : u > t}
           T == {u \in DOMAIN pending : u > t}
<1>8. \A u \in S : pending'[u].frames = pending[u].frames
  <2>1. TAKE u \in S
  <2>2. u \in Nat
    BY <1>4, GroupFacts
  <2>3. u # g
    BY <1>5, <2>2
  <2>4. QED BY <1>2, <2>3 DEF OthersStay
<1>9. S \in SUBSET T
  BY <1>4
<1>10. Framed(pending, T)
  BY HeldAreFramed DEF Framed
<1>11. Above(t)' = Weigh(pending', S) /\ Above(t) = Weigh(pending, T)
  BY DEF Above, Weigh, Places
<1> HIDE DEF S, T
<1>12. Weigh(pending', S) = Weigh(pending, S)
  BY <1>8, WeighSame
<1>13. Weigh(pending, S) \in Nat /\ Weigh(pending, T) \in Nat
       /\ Weigh(pending, S) <= Weigh(pending, T)
  BY <1>9, <1>10, WeighPart
<1>14. QED BY <1>7, <1>11, <1>12, <1>13, HoldAssumption

\* A take that hands frames on.
LEMMA ReleaseBudget ==
  ASSUME BudgetInv, Release, TrackInv'
  PROVE  BudgetInv'
<1>0. HoldInv /\ BytesExact /\ Near /\ OpenIsUnder /\ HoldInv'
  BY DEF BudgetInv, TrackInv
<1>1. PICK last \in BOOLEAN : last = (pull = "last")
  OBVIOUS
<1>2. Take(last) /\ UNCHANGED <<edge, sub, pull>> /\ Releases /\ pending' # pending
  BY <1>1 DEF Release, remote, task
<1>3. BytesExact'
  BY <1>0, <1>2, TakeWeighs DEF BytesInv
<1>4. Near' /\ UNCHANGED start
  BY <1>0, <1>2, TakeKeepsNear
<1>5. OpenIsUnder'
  <2>1. PICK skipped, tally : HandsOn(Turn, skipped, tally, last)
    BY <1>0, <1>2, TakeHandsOnTurn
  <2>2. PICK g : g = Turn
    OBVIOUS
  <2>3. QED BY <1>0, <1>4, <2>1, <2>2, HandOnKeepsUnder
<1>6. pull' \notin {"files", "waits"}
  BY <1>2 DEF Releases
<1>7. RoomToBegin' /\ BudgetHeld'
  BY <1>6 DEF RoomToBegin, Listens, BudgetHeld
<1>8. QED BY <1>3, <1>4, <1>5, <1>7 DEF BudgetInv

\* A group that stays with nothing of it left to hand on was not done; and if a take
\* is at it, it and the groups above it are all there is.
LEMMA StaysOpen ==
  ASSUME HoldInv, BytesExact, OpenIsUnder, NEW g, NEW skipped, NEW tally, NEW last \in BOOLEAN,
         HandsOn(g, skipped, tally, last), pending' = pending
  PROVE  /\ cursor' = g /\ g \in DOMAIN pending /\ ~pending[g].complete
         /\ start = "Backlog" => pending_bytes < Budget
<1> DEFINE left == DOMAIN pending \ skipped
<1>1. g \in DOMAIN pending /\ g \notin skipped /\ Oldest(g, left)
  BY DEF HandsOn
<1>2. Passes(g, skipped) \/ Stays(g, skipped)
  BY HandOnLeaves
<1>3. Stays(g, skipped)
  BY <1>1, <1>2 DEF Passes
<1>4. left = DOMAIN pending
  BY <1>3 DEF Stays
<1>5. ~Done(pending[g], left # {g}, last)
  <2>1. SUFFICES ASSUME Done(pending[g], left # {g}, last) PROVE FALSE
    OBVIOUS
  <2>2. pending' = Restrict(pending, left \ {g})
    BY <2>1 DEF HandsOn, HandOn
  <2>3. DOMAIN pending' = left \ {g}
    BY <2>2 DEF Restrict
  <2>4. QED BY <1>1, <2>3
<1>6. ~pending[g].complete /\ (pending[g].again = None \/ DOMAIN pending = {g})
  BY <1>4, <1>5 DEF Done
<1>7. /\ pending_bytes = Weigh(pending, DOMAIN pending \ {g}) + Len(pending[g].frames)
      /\ Weigh(pending, DOMAIN pending \ {g}) \in Nat
  <2>1. Framed(pending, DOMAIN pending) /\ pending_bytes = Weigh(pending, DOMAIN pending)
    BY HeldAreFramed, BytesAsWeigh
  <2>2. QED BY <1>1, <2>1, WeighApart
<1>8. Len(pending[g].frames) = 0
  BY <1>3 DEF Stays
<1>9. pending_bytes = Weigh(pending, DOMAIN pending \ {g})
  BY <1>7, <1>8
<1>10. ASSUME start = "Backlog"
       PROVE  pending_bytes < Budget
  <2>1. CASE DOMAIN pending = {g}
    <3>1. DOMAIN pending \ {g} = {}
      BY <2>1
    <3>2. pending_bytes = 0
      BY <1>9, <3>1, WeighNone
    <3>3. QED BY <3>2, HoldAssumption
  <2>2. CASE pending[g].again = None
    <3>1. \A t \in DOMAIN pending : t \in Nat /\ g <= t
      BY <1>1, <1>4, GroupFacts DEF Oldest
    <3>2. DOMAIN pending \ {g} = {t \in DOMAIN pending : t > g}
      BY <1>1, <3>1
    <3>3. pending_bytes = Above(g)
      BY <1>9, <3>2 DEF Above
    <3>4. QED BY <1>1, <1>6, <1>10, <2>2, <3>3 DEF OpenIsUnder
  <2>3. QED BY <1>6, <2>1, <2>2
<1>11. QED BY <1>1, <1>3, <1>6, <1>10 DEF Stays

\* A take that hands nothing on found the hold under its budget, or at the group the
\* cursor is at.
LEMMA EndsUnder ==
  ASSUME HoldInv, BytesExact, OpenIsUnder, NEW last \in BOOLEAN,
         \/ Unjoined(last) /\ UNCHANGED vars
         \/ Take(last) /\ pending' = pending,
         HoldInv', BytesExact'
  PROVE  /\ start = "Backlog" => pending_bytes' < Budget
         /\ cursor' # None => pending_bytes' < Budget \/ AtOpenGroup'
         /\ pending' = pending
<1>0. /\ pending_bytes \in Int /\ Budget \in Int /\ 0 < Budget /\ start \in {"Live", "Backlog"}
      /\ pending_bytes = Weigh(pending, DOMAIN pending)
      /\ pending_bytes' = Weigh(pending', DOMAIN pending')
  BY BytesAsWeigh, HoldAssumption DEF HoldInv, TypeOK
<1>1. pending' = pending
  BY DEF vars
<1>2. pending_bytes' = pending_bytes
  <2>1. Weigh(pending', DOMAIN pending') = Weigh(pending, DOMAIN pending)
    BY <1>1
  <2>2. QED BY <1>0, <2>1
<1>3. DOMAIN pending = {} => pending_bytes = 0
  BY <1>0, WeighNone
<1>4. CASE Unjoined(last) /\ UNCHANGED vars
  <2>1. cursor = None /\ cursor' = None
    BY <1>4 DEF Unjoined, vars
  <2>2. start = "Backlog" => DOMAIN pending = {} \/ pending_bytes < Budget
    BY <1>0, <1>4 DEF Unjoined, Settled
  <2>3. QED BY <1>0, <1>1, <1>2, <1>3, <2>1, <2>2
<1>5. CASE TakeEmpty
  BY <1>0, <1>1, <1>2, <1>3, <1>5 DEF TakeEmpty
<1>6. CASE TakeWaits(last)
  <2>1. Reason(last) = "none"
    BY <1>6 DEF TakeWaits
  <2>2. pending_bytes < Budget
    BY <1>0, <2>1 DEF Reason
  <2>3. QED BY <1>1, <1>2, <2>2
<1>7. ASSUME NEW g, NEW skipped, NEW tally, HandsOn(g, skipped, tally, last)
      PROVE  /\ start = "Backlog" => pending_bytes' < Budget
             /\ cursor' # None => pending_bytes' < Budget \/ AtOpenGroup'
             /\ pending' = pending
  <2>1. /\ cursor' = g /\ g \in DOMAIN pending /\ ~pending[g].complete
        /\ start = "Backlog" => pending_bytes < Budget
    BY <1>1, <1>7, StaysOpen
  <2>2. AtOpenGroup'
    BY <1>1, <2>1, GroupFacts DEF AtOpenGroup
  <2>3. QED BY <1>1, <1>2, <2>1, <2>2
<1>8. CASE Take(last)
  <2>1. CASE TakeLiveJoin(last)
    BY <1>7, <2>1, LiveJoinHandsOn
  <2>2. CASE TakeLiveEnd(last) \/ TakeBacklogJoin(last)
    BY <1>7, <2>2, JoinHandsOn
  <2>3. CASE TakeAtCursor(last)
    BY <1>7, <2>3, AtCursorHandsOn
  <2>4. CASE TakeStepsOver(last)
    BY <1>7, <2>4, StepsOverHandsOn
  <2>5. QED BY <1>5, <1>6, <1>8, <2>1, <2>2, <2>3, <2>4 DEF Take
<1>9. QED BY <1>4, <1>8

\* A take that hands nothing on.
LEMMA ReleaseEndsBudget ==
  ASSUME BudgetInv, ReleaseEnds, TrackInv'
  PROVE  BudgetInv'
<1>0. HoldInv /\ BytesExact /\ Near /\ OpenIsUnder /\ HoldInv'
  BY DEF BudgetInv, TrackInv
<1>1. PICK last \in BOOLEAN : last = (pull = "last")
  OBVIOUS
<1>2. /\ \/ Unjoined(last) /\ UNCHANGED vars
         \/ Take(last) /\ pending' = pending
      /\ UNCHANGED <<edge, sub>>
  BY <1>1 DEF ReleaseEnds, remote, task
<1>3. BytesExact' /\ Near' /\ UNCHANGED start
  <2>1. CASE UNCHANGED vars
    BY <1>0, <1>2, <2>1 DEF vars, BytesExact, Weight, Near
  <2>2. CASE Take(last)
    BY <1>0, <1>2, <2>2, TakeWeighs, TakeKeepsNear DEF BytesInv
  <2>3. QED BY <1>2, <2>1, <2>2
<1>4. /\ start = "Backlog" => pending_bytes' < Budget
      /\ cursor' # None => pending_bytes' < Budget \/ AtOpenGroup'
      /\ pending' = pending
  BY <1>0, <1>2, <1>3, EndsUnder
<1>5. \A g : Above(g)' = Above(g)
  BY <1>4 DEF Above, Weigh, Places
<1>6. OpenIsUnder'
  BY <1>0, <1>3, <1>4, <1>5 DEF OpenIsUnder
<1>7. pending_bytes' \in Int /\ Budget \in Int /\ MaxFrames \in Nat
  BY <1>0, HoldAssumption DEF HoldInv, TypeOK
<1>8. RoomToBegin'
  <2>1. SUFFICES ASSUME start = "Backlog", NEW g \in Sequence
                 PROVE  Above(g)' < Budget
    BY <1>3 DEF RoomToBegin
  <2>2. Above(g)' \in Nat /\ Above(g)' <= pending_bytes'
    <3>1. Above(g) \in Nat /\ Above(g) <= pending_bytes
      BY <1>0, AboveIsPart
    <3>2. pending_bytes' = pending_bytes
      <4>1. Weigh(pending', DOMAIN pending') = Weigh(pending, DOMAIN pending)
        BY <1>4
      <4>2. QED BY <1>0, <1>3, <4>1, BytesAsWeigh
    <3>3. QED BY <1>5, <3>1, <3>2
  <2>3. QED BY <1>4, <1>7, <2>1, <2>2
<1>9. BudgetHeld'
  BY <1>3, <1>4, <1>7 DEF BudgetHeld
<1>10. QED BY <1>3, <1>6, <1>8, <1>9 DEF BudgetInv

-----------------------------------------------------------------------------
(* The hold keeps to its budget.                                           *)

\* Nothing is held at the start.
LEMMA InitBudget == TrackInit => BudgetInv
<1> SUFFICES ASSUME TrackInit PROVE BudgetInv
  OBVIOUS
<1>1. TrackInv
  BY InitTracks
<1>2. Init /\ DOMAIN pending = {} /\ pending_bytes = 0 /\ cursor = None /\ sub.group = None
      /\ pull = "files" /\ asks = [s \in Sequence |-> 0]
  BY DEF TrackInit, Init, Subscription
<1>3. BytesExact
  BY <1>2, InitWeighs DEF BytesInv
<1>4. Near /\ OpenIsUnder
  BY <1>2 DEF Near, OpenIsUnder
<1>5. \A g : Above(g) = 0
  <2>1. TAKE g
  <2>2. {t \in DOMAIN pending : t > g} = {}
    BY <1>2
  <2>3. QED BY <2>2, WeighNone DEF Above
<1>6. RoomToBegin /\ BudgetHeld
  BY <1>2, <1>5, HoldAssumption DEF RoomToBegin, BudgetHeld
<1>7. QED BY <1>1, <1>3, <1>4, <1>6 DEF BudgetInv

\* Each step keeps to the invariant.
LEMMA StepKeepsBudget == BudgetInv /\ [TrackNext]_all => BudgetInv'
<1> SUFFICES ASSUME BudgetInv, [TrackNext]_all PROVE BudgetInv'
  OBVIOUS
<1>1. TrackInv'
  BY StepTracks DEF BudgetInv
<1>2. CASE Release \/ ReleaseEnds
  BY <1>1, <1>2, ReleaseBudget, ReleaseEndsBudget
<1>3. CASE SubscriptionFrame
  BY <1>1, <1>3, SubscriptionFrameBudget
<1>4. CASE SubscriptionEnd
  BY <1>1, <1>4, SubscriptionEndBudget, OthersKeepBudget
<1>5. CASE Resubscribe \/ Resume \/ Answer
  BY <1>1, <1>5, TakeUpsKeepBudget, AnswerBudget
<1>6. CASE Publish \/ ReceiveGroup \/ Finish \/ Break \/ StartRelease \/ Clock \/ UNCHANGED all
  BY <1>1, <1>6, OthersKeepBudget
<1>7. QED BY <1>2, <1>3, <1>4, <1>5, <1>6 DEF TrackNext

\* A pull of a track read from its backlog never waits with as much held as the
\* budget, and never files more than one word over it; one that joined live waits
\* over the budget only while the group at the cursor is being read: however groups
\* are ordered, withheld, fetched, broken off and taken up again.
THEOREM BudgetIsHeldTo == TrackSpec => []BudgetHeld
<1>1. BudgetInv => BudgetHeld
  BY DEF BudgetInv
<1>2. QED BY <1>1, InitBudget, StepKeepsBudget, PTL DEF TrackSpec
=============================================================================
