------------------------------ MODULE TrackProofs ------------------------------
(***************************************************************************)
(* Proof that the frames of a track leave in decode order (Track), for any *)
(* values of its constants: however the relay orders, withholds and        *)
(* repeats groups, streams break and sessions are lost, each step of Track *)
(* is a step of FrameOrder or changes nothing that FrameOrder sees.        *)
(***************************************************************************)
EXTENDS Track, HoldQueueHoles

-----------------------------------------------------------------------------
(* The invariant.                                                          *)

\* The publisher, the subscription and what went out keep to their types.
TrackTypes ==
  /\ edge \in Sequence
  /\ size \in [Sequence -> 0 .. MaxFrames]
  /\ sub \in [from : Sequence, came : SUBSET Sequence,
              group : Sequence \cup {None}, read : Nat]
  /\ out \in Seq(Sequence \X (1 .. MaxFrames))

\* How many frames of a held group have gone out.
Sent(group) == group.have - Len(group.frames)

\* The frames of a held group follow on those that have gone out.
Ordered(group) ==
  /\ group.have <= MaxFrames
  /\ \A i \in DOMAIN group.frames : group.frames[i] = Sent(group) + i

HeldInOrder == \A s \in DOMAIN pending : Ordered(pending[s])

\* The subscription is as far into the group it reads as the hold takes it to be;
\* any other group that is not whole was broken off, and begins again if it comes.
ReadsOn ==
  \A s \in DOMAIN pending :
    ~pending[s].complete =>
      IF s # sub.group THEN pending[s].again = 0
      ELSE IF pending[s].again = None THEN sub.read = pending[s].have /\ sub.read > 0
      ELSE sub.read = pending[s].again

\* A group is here, or it has been passed.
HereOrPassed(s) == s \in DOMAIN pending \/ (cursor # None /\ s < cursor)

\* A group some of which was read has been filed.
ReadIsFiled == sub.group # None /\ sub.read > 0 => HereOrPassed(sub.group)

Newest == out[Len(out)]

\* The last frame that went out is of a group the cursor has passed, or is at
\* and that has handed on that frame last.
OutIsBehind ==
  out # << >> =>
    /\ cursor # None /\ Newest[1] <= cursor
    /\ Newest[1] = cursor => /\ cursor \in DOMAIN pending
                             /\ Newest[2] = Sent(pending[cursor])

\* A held group some of whose frames have gone out was the last to go out.
SentIsOut ==
  \A s \in DOMAIN pending :
    Sent(pending[s]) > 0 => out # << >> /\ Newest = <<s, Sent(pending[s])>>

TrackInv ==
  /\ HoldInv /\ PassingIsSettled
  /\ TrackTypes
  /\ HeldInOrder /\ ReadsOn /\ ReadIsFiled
  /\ OutIsBehind /\ SentIsOut

-----------------------------------------------------------------------------
(* What an arrival does to the frames that are held.                       *)

\* What a held group is, and how far it is.
LEMMA GroupFacts ==
  ASSUME HoldInv, NEW s \in DOMAIN pending
  PROVE  /\ s \in Nat /\ s # None /\ s \in Sequence
         /\ pending[s] \in Held
         /\ pending[s].frames \in Seq(Frame) /\ Len(pending[s].frames) \in Nat
         /\ DOMAIN pending[s].frames = 1 .. Len(pending[s].frames)
         /\ pending[s].have \in Nat /\ pending[s].again \in Nat \cup {None}
         /\ Len(pending[s].frames) <= pending[s].have
         /\ Sent(pending[s]) \in Nat
         /\ pending[s].again # None => pending[s].again <= pending[s].have
<1>1. s \in Nat /\ s # None /\ s \in Sequence /\ pending[s] \in Held
  BY HoldAssumption DEF HoldInv, TypeOK, Sequence
<1>2. /\ pending[s].frames \in Seq(Frame) /\ pending[s].have \in Nat
      /\ pending[s].again \in Nat \cup {None}
  BY <1>1 DEF Held
<1>3. /\ Len(pending[s].frames) \in Nat
      /\ DOMAIN pending[s].frames = 1 .. Len(pending[s].frames)
  BY <1>2, LenProperties
<1>4. /\ Len(pending[s].frames) <= pending[s].have
      /\ pending[s].again # None => pending[s].again <= pending[s].have
  BY DEF HoldInv, AheadOfCursor
<1>5. QED BY <1>1, <1>2, <1>3, <1>4 DEF Sent

\* The frames that arrive are those of group s from the one after `base` on, and
\* `base` is where a reader of the group must be: at what it has seen of a second
\* copy, at what is held, or at the first of a group that is not here.
Fits(s, frames, base, complete) ==
  /\ base \in Nat /\ base + Len(frames) <= MaxFrames
  /\ \A i \in DOMAIN frames : frames[i] = base + i
  /\ frames # << >> =>
       /\ s \in DOMAIN pending /\ ~pending[s].complete =>
            base = IF complete THEN 0
                   ELSE IF pending[s].again = None THEN pending[s].have
                   ELSE pending[s].again
       /\ ~HereOrPassed(s) => base = 0

\* The part of a sequence from one place on.
LEMMA TailOf ==
  ASSUME NEW frames \in Seq(Frame), NEW over \in 0 .. Len(frames),
         NEW i \in 1 .. Len(frames) - over
  PROVE  SubSeq(frames, over + 1, Len(frames))[i] = frames[over + i]
<1>1. Len(frames) \in Nat
  BY LenProperties
<1>2. QED BY <1>1, SubSeqProperties

\* Where a second copy's new frames begin: at the end of those that are here.
LEMMA PassedOverReaches ==
  ASSUME NEW n \in Nat, NEW have \in Nat, NEW seen \in Nat, seen <= have, None \notin Int
  PROVE  /\ PassedOver(n, seen, have) \in 0 .. n
         /\ PassedOver(n, seen, have) < n => seen + PassedOver(n, seen, have) = have
<1> DEFINE rest == have - seen
<1>1. rest \in Nat /\ rest \in Int /\ n \in Int /\ seen # None
  OBVIOUS
<1>2. PassedOver(n, seen, have) = Min({n, rest})
  BY <1>1 DEF PassedOver
<1> HIDE DEF rest
<1>3. Min({n, rest}) \in {n, rest} /\ Min({n, rest}) <= n /\ Min({n, rest}) <= rest
  BY <1>1, MinOfTwo
<1>4. QED BY <1>1, <1>2, <1>3 DEF rest

\* More of a group that fits leaves it in order; and the reader of it is as far as
\* it was, and as many frames further as came.
LEMMA MoreInOrder ==
  ASSUME HoldInv, HeldInOrder, NEW s \in Sequence, NEW frames \in Seq(Frame),
         NEW decides \in Decodable, NEW complete \in BOOLEAN, NEW base,
         ArriveMore(s, frames, decides, complete), Fits(s, frames, base, complete)
  PROVE  /\ s \in DOMAIN pending /\ ~pending[s].complete
         /\ DOMAIN pending' = DOMAIN pending
         /\ \A t \in DOMAIN pending : t # s => pending'[t] = pending[t]
         /\ pending'[s].complete = complete
         /\ Sent(pending'[s]) = Sent(pending[s])
         /\ Ordered(pending'[s])
         /\ ~complete => IF pending[s].again = None
                         THEN /\ pending'[s].again = None
                              /\ pending'[s].have = pending[s].have + Len(frames)
                         ELSE pending'[s].again = pending[s].again + Len(frames)
<1> DEFINE group == pending[s]
           n     == Len(frames)
           whole == complete /\ frames # << >>
           seen  == IF whole THEN 0 ELSE group.again
           over  == PassedOver(n, seen, group.have)
           fresh == SubSeq(frames, over + 1, n)
           held  == Len(group.frames)
<1>1. s \in DOMAIN pending /\ ~group.complete
  BY DEF ArriveMore
<1>2. /\ group.frames \in Seq(Frame) /\ held \in Nat /\ group.have \in Nat
      /\ DOMAIN group.frames = 1 .. held
      /\ group.again \in Nat \cup {None} /\ held <= group.have
      /\ group.again # None => group.again <= group.have
      /\ n \in Nat /\ DOMAIN frames = 1 .. n
  BY <1>1, GroupFacts, LenProperties
<1>3. /\ seen \in Nat \cup {None} /\ (seen # None => seen <= group.have)
  BY <1>2
<1>4. /\ base \in Nat /\ base + n <= MaxFrames
      /\ \A i \in 1 .. n : frames[i] = base + i
      /\ frames # << >> => base = IF seen = None THEN group.have ELSE seen
  BY <1>1, <1>2, HoldAssumption DEF Fits
<1>5. n > 0 => frames # << >>
  OBVIOUS
<1> HIDE DEF seen
<1>6. /\ over \in 0 .. n
      /\ over < n => base + over = group.have
      /\ seen = None => over = 0
  <2>1. CASE seen = None
    <3>1. over = 0
      BY <2>1 DEF PassedOver
    <3>2. QED BY <1>2, <1>4, <1>5, <2>1, <3>1
  <2>2. CASE seen # None
    <3>1. seen \in Nat /\ seen <= group.have /\ None \notin Int
      BY <1>3, <2>2, HoldAssumption
    <3>2. over \in 0 .. n /\ (over < n => seen + over = group.have)
      BY <1>2, <3>1, PassedOverReaches
    <3> HIDE DEF over
    <3>3. over < n => base = seen
      BY <1>2, <1>4, <1>5, <2>2, <3>2
    <3>4. QED BY <2>2, <3>2, <3>3
  <2>3. QED BY <2>1, <2>2
<1> HIDE DEF over
<1>7. /\ fresh \in Seq(Frame) /\ Len(fresh) = n - over
      /\ \A i \in 1 .. n - over : fresh[i] = frames[over + i]
  BY <1>6, FreshFrames, TailOf
<1> HIDE DEF fresh
<1>8. \A i \in 1 .. n - over : fresh[i] = group.have + i
  <2>1. TAKE i \in 1 .. n - over
  <2>2. fresh[i] = frames[over + i] /\ over + i \in 1 .. n /\ over < n
    <3>1. n \in Nat /\ over \in 0 .. n
      BY <1>2, <1>6
    <3>2. over + i \in 1 .. n /\ over < n
      BY <3>1
    <3>3. QED BY <1>7, <3>2
  <2>3. frames[over + i] = base + (over + i)
    BY <1>4, <2>2
  <2>4. base + over = group.have
    BY <1>6, <2>2
  <2>5. base + (over + i) = (base + over) + i
    BY <1>2, <1>4, <1>6
  <2>6. QED BY <2>2, <2>3, <2>4, <2>5
<1>9. /\ pending' = [t \in DOMAIN pending \cup {s} |->
                       IF t = s THEN pending'[s] ELSE pending[t]]
      /\ pending'[s].frames = group.frames \o fresh
      /\ pending'[s].have = group.have + Len(fresh)
      /\ pending'[s].complete = complete
      /\ pending'[s].again = IF whole \/ seen = None THEN group.again ELSE seen + n
  BY DEF ArriveMore, Hold, fresh, over, seen
<1>10. /\ DOMAIN pending' = DOMAIN pending
       /\ \A t \in DOMAIN pending : t # s => pending'[t] = pending[t]
  BY <1>1, <1>9
<1> DEFINE more == pending'[s]
<1>11. /\ Len(more.frames) = held + (n - over) /\ DOMAIN more.frames = 1 .. held + (n - over)
       /\ more.have = group.have + (n - over)
       /\ \A i \in 1 .. held : more.frames[i] = group.frames[i]
       /\ \A i \in 1 .. n - over : more.frames[held + i] = fresh[i]
  <2>1. /\ group.frames \o fresh \in Seq(Frame)
        /\ Len(group.frames \o fresh) = held + (n - over)
        /\ DOMAIN (group.frames \o fresh) = 1 .. held + (n - over)
        /\ \A i \in 1 .. held : (group.frames \o fresh)[i] = group.frames[i]
        /\ \A i \in 1 .. n - over : (group.frames \o fresh)[held + i] = fresh[i]
    <3> DEFINE both == group.frames \o fresh
    <3>1. Len(fresh) \in Nat /\ n - over \in Nat
      BY <1>2, <1>6, <1>7
    <3>2. /\ both \in Seq(Frame) /\ Len(both) = held + Len(fresh)
          /\ \A i \in 1 .. held + Len(fresh) :
               both[i] = IF i <= held THEN group.frames[i] ELSE fresh[i - held]
      BY <1>2, <1>7, ConcatProperties
    <3>3. DOMAIN both = 1 .. Len(both)
      BY <3>2, LenProperties
    <3> HIDE DEF both, held
    <3>4. \A i \in 1 .. held : both[i] = group.frames[i]
      BY <1>2, <3>1, <3>2
    <3>5. \A i \in 1 .. n - over : both[held + i] = fresh[i]
      BY <1>2, <1>7, <3>1, <3>2
    <3>6. QED BY <1>7, <3>2, <3>3, <3>4, <3>5 DEF both
  <2>2. QED BY <1>7, <1>9, <2>1
<1>12. Sent(more) = Sent(group)
  BY <1>2, <1>6, <1>11 DEF Sent
<1>13. Ordered(more)
  <2>1. more.have <= MaxFrames
    <3>1. group.have <= MaxFrames /\ MaxFrames \in Nat
      BY <1>1, HoldAssumption DEF HeldInOrder, Ordered
    <3>2. QED BY <1>2, <1>4, <1>6, <1>11, <3>1
  <2>2. \A i \in 1 .. held : group.frames[i] = Sent(group) + i
    BY <1>1, <1>2 DEF HeldInOrder, Ordered
  <2>3. Sent(group) = group.have - held
    BY DEF Sent
  <2>4. ASSUME NEW i \in 1 .. held + (n - over)
        PROVE  more.frames[i] = Sent(more) + i
    <3>1. CASE i <= held
      BY <1>2, <1>11, <1>12, <2>2, <3>1
    <3>2. CASE i > held
      <4>1. i - held \in 1 .. n - over /\ held + (i - held) = i
        BY <1>2, <1>6, <3>2
      <4>2. more.frames[i] = group.have + (i - held)
        BY <1>8, <1>11, <4>1
      <4>3. QED BY <1>2, <1>12, <2>3, <4>2
    <3>3. QED BY <1>2, <1>6, <3>1, <3>2
  <2>5. QED BY <1>11, <2>1, <2>4 DEF Ordered
<1>14. ~complete => IF group.again = None
                    THEN more.again = None /\ more.have = group.have + n
                    ELSE more.again = group.again + n
  BY <1>2, <1>6, <1>9, <1>11 DEF seen
<1>15. QED BY <1>1, <1>9, <1>10, <1>12, <1>13, <1>14

\* What any arrival that fits does to the hold.
LEMMA ArrivalCases ==
  ASSUME HoldInv, PassingIsSettled, HeldInOrder, NEW s \in Sequence, NEW frames \in Seq(Frame),
         NEW decides \in Decodable, NEW complete \in BOOLEAN, NEW base,
         Arrive(s, frames, decides, complete), Fits(s, frames, base, complete)
  PROVE  /\ UNCHANGED cursor
         /\ \A t \in DOMAIN pending : /\ t \in DOMAIN pending'
                                      /\ Sent(pending'[t]) = Sent(pending[t])
                                      /\ t # s => pending'[t] = pending[t]
         /\ \A t \in DOMAIN pending' \ DOMAIN pending : t = s /\ Sent(pending'[t]) = 0
         /\ HeldInOrder'
         /\ HereOrPassed(s)'
         /\ s \in DOMAIN pending' =>
              \/ pending'[s].complete
              \/ /\ ~complete /\ s \in DOMAIN pending /\ ~pending[s].complete
                 /\ IF pending[s].again = None
                    THEN /\ pending'[s].again = None
                         /\ pending'[s].have = pending[s].have + Len(frames)
                    ELSE pending'[s].again = pending[s].again + Len(frames)
              \/ /\ ~complete /\ ~HereOrPassed(s)
                 /\ pending'[s].again = None /\ pending'[s].have = Len(frames)
<1>0. UNCHANGED cursor /\ s \in Nat
  BY DEF Arrive, Sequence
<1>1. CASE ArriveLetGo(s, complete) \/ ArriveRepeated(s, complete) \/ ArriveLate(s, complete)
  <2>1. UNCHANGED pending
    BY <1>1 DEF ArriveLetGo, ArriveRepeated, ArriveLate
  <2>2. HereOrPassed(s) /\ (s \in DOMAIN pending => pending[s].complete)
    <3>1. CASE ArriveLetGo(s, complete)
      <4>1. \/ cursor # None /\ s < cursor
            \/ s \in DOMAIN pending /\ pending[s].complete
        BY <3>1 DEF ArriveLetGo, PassingIsSettled
      <4>2. s \in DOMAIN pending /\ cursor # None => s >= cursor /\ cursor \in Nat
        BY DEF HoldInv, TypeOK, AheadOfCursor
      <4>3. QED BY <1>0, <4>1, <4>2 DEF HereOrPassed
    <3>2. CASE ArriveRepeated(s, complete)
      BY <3>2 DEF ArriveRepeated, HereOrPassed
    <3>3. CASE ArriveLate(s, complete)
      BY <3>3 DEF ArriveLate, HereOrPassed
    <3>4. QED BY <1>1, <3>1, <3>2, <3>3
  <2>3. HereOrPassed(s)' /\ HeldInOrder'
    BY <1>0, <2>1, <2>2 DEF HereOrPassed, HeldInOrder
  <2>4. QED BY <1>0, <2>1, <2>2, <2>3
<1>2. CASE ArriveMore(s, frames, decides, complete)
  <2>1. /\ s \in DOMAIN pending /\ ~pending[s].complete
        /\ DOMAIN pending' = DOMAIN pending
        /\ \A t \in DOMAIN pending : t # s => pending'[t] = pending[t]
        /\ pending'[s].complete = complete
        /\ Sent(pending'[s]) = Sent(pending[s])
        /\ Ordered(pending'[s])
        /\ ~complete => IF pending[s].again = None
                        THEN /\ pending'[s].again = None
                             /\ pending'[s].have = pending[s].have + Len(frames)
                        ELSE pending'[s].again = pending[s].again + Len(frames)
    BY <1>2, MoreInOrder
  <2>2. HeldInOrder'
    <3>1. SUFFICES ASSUME NEW t \in DOMAIN pending'
                   PROVE  Ordered(pending'[t])
      BY DEF HeldInOrder, Ordered, Sent
    <3>2. CASE t = s
      BY <2>1, <3>2
    <3>3. CASE t # s
      <4>1. pending'[t] = pending[t] /\ t \in DOMAIN pending
        BY <2>1, <3>3
      <4>2. Ordered(pending[t])
        BY <4>1 DEF HeldInOrder
      <4>3. QED BY <4>1, <4>2
    <3>4. QED BY <3>2, <3>3
  <2>3. HereOrPassed(s)'
    BY <2>1 DEF HereOrPassed
  <2>4. \A t \in DOMAIN pending : /\ t \in DOMAIN pending'
                                  /\ Sent(pending'[t]) = Sent(pending[t])
                                  /\ t # s => pending'[t] = pending[t]
    <3>1. TAKE t \in DOMAIN pending
    <3>2. CASE t = s
      BY <2>1, <3>2
    <3>3. CASE t # s
      BY <2>1, <3>3
    <3>4. QED BY <3>2, <3>3
  <2>5. QED BY <1>0, <2>1, <2>2, <2>3, <2>4
<1>3. CASE ArriveNew(s, frames, decides, complete)
  <2>1. /\ s \notin DOMAIN pending /\ DOMAIN pending' = DOMAIN pending \cup {s}
        /\ \A t \in DOMAIN pending : pending'[t] = pending[t]
        /\ pending'[s].frames = frames /\ pending'[s].have = Len(frames)
        /\ pending'[s].complete = complete /\ pending'[s].again = None
    BY <1>3 DEF ArriveNew, Hold
  <2>2. ~HereOrPassed(s)
    <3>1. cursor # None => s >= cursor /\ cursor \in Nat
      BY <1>3 DEF ArriveNew, HoldInv, TypeOK
    <3>2. QED BY <1>0, <2>1, <3>1 DEF HereOrPassed
  <2>3. Len(frames) \in Nat /\ DOMAIN frames = 1 .. Len(frames)
    BY LenProperties
  <2>4. Sent(pending'[s]) = 0
    BY <2>1, <2>3 DEF Sent
  <2>5. Ordered(pending'[s])
    <3>1. Len(frames) <= MaxFrames /\ \A i \in DOMAIN frames : frames[i] = 0 + i
      <4>1. CASE frames = << >>
        BY <4>1, HoldAssumption
      <4>2. CASE frames # << >>
        BY <2>2, <2>3, <4>2 DEF Fits
      <4>3. QED BY <4>1, <4>2
    <3>2. QED BY <2>1, <2>4, <3>1 DEF Ordered
  <2>6. HeldInOrder'
    <3>1. SUFFICES ASSUME NEW t \in DOMAIN pending'
                   PROVE  Ordered(pending'[t])
      BY DEF HeldInOrder, Ordered, Sent
    <3>2. CASE t = s
      BY <2>5, <3>2
    <3>3. CASE t # s
      <4>1. pending'[t] = pending[t] /\ t \in DOMAIN pending
        BY <2>1, <3>3
      <4>2. Ordered(pending[t])
        BY <4>1 DEF HeldInOrder
      <4>3. QED BY <4>1, <4>2
    <3>4. QED BY <3>2, <3>3
  <2>7. HereOrPassed(s)'
    BY <2>1 DEF HereOrPassed
  <2>8. QED BY <1>0, <2>1, <2>2, <2>4, <2>6, <2>7
<1>4. QED BY <1>1, <1>2, <1>3 DEF Arrive

\* No arrival disturbs what went out, or the order of what is held.
LEMMA ArrivalKeepsOrder ==
  ASSUME TrackInv, NEW s \in Sequence, NEW frames \in Seq(Frame),
         NEW decides \in Decodable, NEW complete \in BOOLEAN, NEW base,
         Arrive(s, frames, decides, complete), Fits(s, frames, base, complete),
         asks' \in [Sequence -> Nat], UNCHANGED out
  PROVE  /\ HoldInv' /\ PassingIsSettled' /\ HeldInOrder'
         /\ OutIsBehind' /\ SentIsOut'
<1>0. HoldInv /\ PassingIsSettled /\ HeldInOrder /\ OutIsBehind /\ SentIsOut
  BY DEF TrackInv
<1>1. HoldInv'
  BY <1>0, ArriveTypes, ArriveOrder DEF HoldInv
<1>2. PassingIsSettled'
  BY <1>0, ArrivalKeepsPassing DEF PassInv
<1>3. /\ UNCHANGED cursor /\ HeldInOrder'
      /\ \A t \in DOMAIN pending : /\ t \in DOMAIN pending'
                                   /\ Sent(pending'[t]) = Sent(pending[t])
      /\ \A t \in DOMAIN pending' \ DOMAIN pending : Sent(pending'[t]) = 0
  BY <1>0, ArrivalCases
<1>4. OutIsBehind'
  BY <1>0, <1>3 DEF OutIsBehind, Newest, Sent
<1>5. SentIsOut'
  <2>1. SUFFICES ASSUME NEW t \in DOMAIN pending', Sent(pending'[t]) > 0
                 PROVE  out # << >> /\ Newest = <<t, Sent(pending'[t])>>
    BY DEF SentIsOut, Newest, Sent
  <2>2. t \in DOMAIN pending
    BY <1>3, <2>1
  <2>3. QED BY <1>0, <1>3, <2>1, <2>2 DEF SentIsOut
<1>6. QED BY <1>1, <1>2, <1>3, <1>4, <1>5

-----------------------------------------------------------------------------
(* Each action of the track that hands nothing on.                         *)

\* What the hold holds and what went out stay in order while neither changes.
LEMMA SameKeepsOrder ==
  ASSUME TrackInv, UNCHANGED <<pending, cursor, out>>
  PROVE  HeldInOrder' /\ OutIsBehind' /\ SentIsOut'
BY DEF TrackInv, HeldInOrder, OutIsBehind, SentIsOut, Newest, Sent, Ordered

\* A step that leaves the hold alone keeps what is said of it.
LEMMA QuietKeepsOrder ==
  ASSUME TrackInv, UNCHANGED <<vars, out>>
  PROVE  HoldInv' /\ PassingIsSettled' /\ HeldInOrder' /\ OutIsBehind' /\ SentIsOut'
<1>1. HoldInv'
  BY OthersKeep DEF TrackInv
<1>2. UNCHANGED <<pending, cursor, passing, out>>
  BY DEF vars
<1>3. PassingIsSettled'
  BY <1>2 DEF TrackInv, PassingIsSettled
<1>4. QED BY <1>1, <1>2, <1>3, SameKeepsOrder

\* Such a step keeps the invariant if it does not touch the subscription either.
LEMMA QuietKeeps ==
  ASSUME TrackInv, UNCHANGED <<vars, out>>, UNCHANGED sub,
         edge' \in Sequence, size' \in [Sequence -> 0 .. MaxFrames]
  PROVE  TrackInv'
<1>1. HoldInv' /\ PassingIsSettled' /\ HeldInOrder' /\ OutIsBehind' /\ SentIsOut'
  BY QuietKeepsOrder
<1>2. UNCHANGED <<pending, cursor>>
  BY DEF vars
<1>3. TrackTypes'
  BY DEF TrackInv, TrackTypes
<1>4. ReadsOn' /\ ReadIsFiled'
  BY <1>2 DEF TrackInv, ReadsOn, ReadIsFiled, HereOrPassed
<1>5. QED BY <1>1, <1>3, <1>4 DEF TrackInv

\* The publisher only ever writes to its newest group.
LEMMA PublishKeeps ==
  ASSUME TrackInv, Publish
  PROVE  TrackInv'
<1>1. UNCHANGED <<vars, out>> /\ UNCHANGED sub
  BY DEF Publish, task, past
<1>2. edge \in Sequence /\ size \in [Sequence -> 0 .. MaxFrames]
  BY DEF TrackInv, TrackTypes
<1>3. CASE size[edge] < MaxFrames /\ size' = [size EXCEPT ![edge] = @ + 1] /\ UNCHANGED edge
  <2>1. size[edge] + 1 \in 0 .. MaxFrames
    BY <1>2, <1>3, HoldAssumption
  <2>2. size' \in [Sequence -> 0 .. MaxFrames]
    BY <1>2, <1>3, <2>1
  <2>3. QED BY <1>1, <1>2, <1>3, <2>2, QuietKeeps
<1>4. CASE edge < MaxSequence /\ edge' = edge + 1 /\ UNCHANGED size
  <2>1. edge' \in Sequence
    BY <1>2, <1>4, HoldAssumption DEF Sequence
  <2>2. QED BY <1>1, <1>2, <1>4, <2>1, QuietKeeps
<1>5. CASE UNCHANGED <<edge, size>>
  BY <1>1, <1>2, <1>5, QuietKeeps
<1>6. QED BY <1>3, <1>4, <1>5 DEF Publish

\* A group a stream hands over is read from its first frame; if part of it is held
\* it was broken off, and comes again.
LEMMA ReceiveGroupKeeps ==
  ASSUME TrackInv, ReceiveGroup
  PROVE  TrackInv'
<1>1. UNCHANGED <<vars, out>> /\ UNCHANGED <<edge, size>> /\ sub.group = None
  BY DEF ReceiveGroup, remote, past
<1>2. PICK g \in sub.from .. edge : sub' = [sub EXCEPT !.came = @ \cup {g}, !.group = g, !.read = 0]
  BY DEF ReceiveGroup
<1>3. HoldInv' /\ PassingIsSettled' /\ HeldInOrder' /\ OutIsBehind' /\ SentIsOut'
  BY <1>1, QuietKeepsOrder
<1>4. sub \in [from : Sequence, came : SUBSET Sequence,
               group : Sequence \cup {None}, read : Nat] /\ edge \in Sequence
  BY DEF TrackInv, TrackTypes
<1>5. g \in Sequence
  BY <1>4, HoldAssumption DEF Sequence
<1>6. /\ sub' \in [from : Sequence, came : SUBSET Sequence,
                   group : Sequence \cup {None}, read : Nat]
      /\ sub'.group = g /\ sub'.read = 0
  BY <1>2, <1>4, <1>5
<1>7. TrackTypes'
  BY <1>1, <1>6 DEF TrackInv, TrackTypes
<1>8. UNCHANGED <<pending, cursor>> /\ HoldInv
  BY <1>1 DEF vars, TrackInv
<1>9. \A s \in DOMAIN pending : ~pending[s].complete => pending[s].again = 0
  BY <1>1, <1>8, GroupFacts DEF TrackInv, ReadsOn
<1>10. ReadsOn'
  BY <1>6, <1>8, <1>9, HoldAssumption DEF ReadsOn
<1>11. ReadIsFiled'
  BY <1>6 DEF ReadIsFiled
<1>12. QED BY <1>3, <1>7, <1>10, <1>11 DEF TrackInv

\* One more frame of the group being read is the next one its reader can take.
LEMMA SubscriptionFrameKeeps ==
  ASSUME TrackInv, SubscriptionFrame
  PROVE  TrackInv'
<1>0. /\ HoldInv /\ PassingIsSettled /\ HeldInOrder /\ ReadsOn /\ ReadIsFiled
      /\ sub \in [from : Sequence, came : SUBSET Sequence,
                  group : Sequence \cup {None}, read : Nat]
      /\ size \in [Sequence -> 0 .. MaxFrames]
  BY DEF TrackInv, TrackTypes
<1>00. PICK s \in Sequence : s = sub.group
  BY <1>0 DEF SubscriptionFrame
<1> DEFINE frames == <<sub.read + 1>>
           says   == IF s \in Keyed THEN "yes" ELSE "no"
<1>1. /\ s # None /\ sub.read < size[s] /\ ReadFrame(s, sub.read + 1, says)
      /\ sub' = [sub EXCEPT !.read = @ + 1]
      /\ UNCHANGED <<edge, size, out>>
  BY <1>00 DEF SubscriptionFrame, remote, past
<1>2. s \in Sequence /\ sub.read \in Nat /\ sub.read + 1 <= MaxFrames
  BY <1>0, <1>1, HoldAssumption
<1>3. frames \in Seq(Frame) /\ Len(frames) = 1 /\ says \in Decodable
  BY <1>2, TrackAssumption DEF Decodable
<1>4. Arrive(s, frames, says, FALSE) /\ asks' \in [Sequence -> Nat]
  BY <1>0, <1>1 DEF ReadFrame, HoldInv, TypeOK
<1>5. Fits(s, frames, sub.read, FALSE)
  <2>1. \A i \in DOMAIN frames : frames[i] = sub.read + i
    OBVIOUS
  <2>2. s \in DOMAIN pending /\ ~pending[s].complete =>
          sub.read = IF pending[s].again = None THEN pending[s].have ELSE pending[s].again
    BY <1>0, <1>00 DEF ReadsOn
  <2>3. ~HereOrPassed(s) => sub.read = 0
    BY <1>0, <1>1, <1>2, <1>00 DEF ReadIsFiled
  <2> HIDE DEF frames
  <2>4. QED BY <1>2, <1>3, <2>1, <2>2, <2>3 DEF Fits
<1> HIDE DEF frames, says
<1>6. HoldInv' /\ PassingIsSettled' /\ HeldInOrder' /\ OutIsBehind' /\ SentIsOut'
  BY <1>1, <1>2, <1>3, <1>4, <1>5, ArrivalKeepsOrder
<1>7. /\ sub' \in [from : Sequence, came : SUBSET Sequence,
                   group : Sequence \cup {None}, read : Nat]
      /\ sub'.group = s /\ sub'.read = sub.read + 1
  BY <1>0, <1>1, <1>00
<1>8. TrackTypes'
  BY <1>1, <1>7 DEF TrackInv, TrackTypes
<1>9. /\ HereOrPassed(s)'
      /\ \A t \in DOMAIN pending : t # s => pending'[t] = pending[t]
      /\ \A t \in DOMAIN pending' \ DOMAIN pending : t = s
      /\ s \in DOMAIN pending' =>
           \/ pending'[s].complete
           \/ /\ s \in DOMAIN pending /\ ~pending[s].complete
              /\ IF pending[s].again = None
                 THEN /\ pending'[s].again = None
                      /\ pending'[s].have = pending[s].have + 1
                 ELSE pending'[s].again = pending[s].again + 1
           \/ /\ ~HereOrPassed(s)
              /\ pending'[s].again = None /\ pending'[s].have = 1
  <2>1. FALSE \in BOOLEAN
    OBVIOUS
  <2>2. /\ \A t \in DOMAIN pending : t # s => pending'[t] = pending[t]
        /\ \A t \in DOMAIN pending' \ DOMAIN pending : t = s
        /\ HereOrPassed(s)'
        /\ s \in DOMAIN pending' =>
             \/ pending'[s].complete
             \/ /\ ~FALSE /\ s \in DOMAIN pending /\ ~pending[s].complete
                /\ IF pending[s].again = None
                   THEN /\ pending'[s].again = None
                        /\ pending'[s].have = pending[s].have + Len(frames)
                   ELSE pending'[s].again = pending[s].again + Len(frames)
             \/ /\ ~FALSE /\ ~HereOrPassed(s)
                /\ pending'[s].again = None /\ pending'[s].have = Len(frames)
    BY <1>0, <1>2, <1>3, <1>4, <1>5, <2>1, ArrivalCases
  <2>3. QED BY <1>3, <2>2
<1>10. ReadsOn'
  <2>1. SUFFICES ASSUME NEW t \in DOMAIN pending', ~pending'[t].complete
                 PROVE  IF t # sub'.group THEN pending'[t].again = 0
                        ELSE IF pending'[t].again = None
                        THEN sub'.read = pending'[t].have /\ sub'.read > 0
                        ELSE sub'.read = pending'[t].again
    BY DEF ReadsOn
  <2>2. CASE t # s
    BY <1>0, <1>7, <1>9, <1>00, <2>1, <2>2 DEF ReadsOn
  <2>3. CASE t = s /\ s \in DOMAIN pending /\ ~pending[s].complete
             /\ pending[s].again = None /\ pending'[s].again = None
             /\ pending'[s].have = pending[s].have + 1
    BY <1>0, <1>2, <1>7, <1>00, <2>3 DEF ReadsOn
  <2>4. CASE t = s /\ s \in DOMAIN pending /\ ~pending[s].complete
             /\ pending[s].again # None /\ pending'[s].again = pending[s].again + 1
    <3>1. sub.read = pending[s].again
      BY <1>0, <1>00, <2>4 DEF ReadsOn
    <3>2. pending'[s].again # None
      BY <1>2, <2>4, <3>1, HoldAssumption
    <3>3. QED BY <1>7, <2>4, <3>1, <3>2
  <2>5. CASE t = s /\ ~HereOrPassed(s) /\ pending'[s].again = None /\ pending'[s].have = 1
    <3>1. sub.read = 0
      BY <1>0, <1>1, <1>2, <1>00, <2>5 DEF ReadIsFiled
    <3>2. QED BY <1>7, <2>5, <3>1
  <2>6. QED BY <1>9, <2>1, <2>2, <2>3, <2>4, <2>5
<1>11. ReadIsFiled'
  BY <1>7, <1>9 DEF ReadIsFiled, HereOrPassed
<1>12. QED BY <1>6, <1>8, <1>10, <1>11 DEF TrackInv

\* An arrival that ends its group leaves it whole, if it leaves it held.
LEMMA EndedIsWhole ==
  ASSUME TrackInv, NEW s \in Sequence, NEW frames \in Seq(Frame), NEW decides \in Decodable,
         Arrive(s, frames, decides, TRUE), Fits(s, frames, 0, TRUE)
  PROVE  /\ s \in DOMAIN pending' => pending'[s].complete
         /\ \A t \in DOMAIN pending' : t # s => t \in DOMAIN pending /\ pending'[t] = pending[t]
         /\ \A t \in Nat : HereOrPassed(t) => HereOrPassed(t)'
<1>1. HoldInv /\ PassingIsSettled /\ HeldInOrder
  BY DEF TrackInv
<1>2. /\ UNCHANGED cursor
      /\ \A t \in DOMAIN pending : t \in DOMAIN pending' /\ (t # s => pending'[t] = pending[t])
      /\ \A t \in DOMAIN pending' \ DOMAIN pending : t = s
      /\ s \in DOMAIN pending' =>
           \/ pending'[s].complete
           \/ /\ ~TRUE /\ s \in DOMAIN pending /\ ~pending[s].complete
              /\ IF pending[s].again = None
                 THEN /\ pending'[s].again = None
                      /\ pending'[s].have = pending[s].have + Len(frames)
                 ELSE pending'[s].again = pending[s].again + Len(frames)
           \/ /\ ~TRUE /\ ~HereOrPassed(s)
              /\ pending'[s].again = None /\ pending'[s].have = Len(frames)
  <2>1. TRUE \in BOOLEAN /\ 0 \in Nat
    OBVIOUS
  <2>2. QED BY <1>1, <2>1, ArrivalCases
<1>3. QED BY <1>2 DEF HereOrPassed

\* The end of the group being read leaves nothing broken off: if the group is held
\* it is whole, or no frame of it was read and it had been broken off before.
LEMMA SubscriptionEndKeeps ==
  ASSUME TrackInv, SubscriptionEnd
  PROVE  TrackInv'
<1>0. /\ HoldInv /\ ReadsOn
      /\ sub \in [from : Sequence, came : SUBSET Sequence,
                  group : Sequence \cup {None}, read : Nat]
  BY DEF TrackInv, TrackTypes
<1>1. PICK s \in Sequence : s = sub.group
  BY <1>0 DEF SubscriptionEnd
<1>2. /\ IF sub.read > 0 THEN End(s) ELSE UNCHANGED vars
      /\ sub' = [sub EXCEPT !.group = None]
      /\ UNCHANGED <<edge, size, out>>
  BY <1>1 DEF SubscriptionEnd, remote, past
<1>3. /\ sub' \in [from : Sequence, came : SUBSET Sequence,
                   group : Sequence \cup {None}, read : Nat]
      /\ sub'.group = None
  BY <1>0, <1>2
<1>4. TrackTypes' /\ ReadIsFiled'
  BY <1>2, <1>3 DEF TrackInv, TrackTypes, ReadIsFiled
<1>5. CASE sub.read > 0
  <2>1. Arrive(s, << >>, "unknown", TRUE) /\ asks' \in [Sequence -> Nat]
    BY <1>0, <1>2, <1>5 DEF End, HoldInv, TypeOK
  <2>2. << >> \in Seq(Frame) /\ "unknown" \in Decodable /\ TRUE \in BOOLEAN
    BY DEF Decodable
  <2>3. Fits(s, << >>, 0, TRUE)
    BY HoldAssumption DEF Fits
  <2>4. HoldInv' /\ PassingIsSettled' /\ HeldInOrder' /\ OutIsBehind' /\ SentIsOut'
    BY <1>2, <2>1, <2>2, <2>3, ArrivalKeepsOrder
  <2>5. /\ s \in DOMAIN pending' => pending'[s].complete
        /\ \A t \in DOMAIN pending' :
             t # s => t \in DOMAIN pending /\ pending'[t] = pending[t]
    BY <2>1, <2>2, <2>3, EndedIsWhole
  <2>6. ReadsOn'
    <3>1. SUFFICES ASSUME NEW t \in DOMAIN pending', ~pending'[t].complete
                   PROVE  t # None /\ pending'[t].again = 0
      BY <1>3 DEF ReadsOn
    <3>2. t # s /\ t \in DOMAIN pending /\ pending'[t] = pending[t]
      BY <2>5, <3>1
    <3>3. QED BY <1>0, <1>1, <3>1, <3>2, GroupFacts DEF ReadsOn
  <2>7. QED BY <1>4, <2>4, <2>6 DEF TrackInv
<1>6. CASE ~(sub.read > 0)
  <2>1. UNCHANGED <<vars, out>>
    BY <1>2, <1>6
  <2>2. HoldInv' /\ PassingIsSettled' /\ HeldInOrder' /\ OutIsBehind' /\ SentIsOut'
    BY <2>1, QuietKeepsOrder
  <2>3. sub.read = 0 /\ UNCHANGED pending
    BY <1>0, <1>6, <2>1 DEF vars
  <2>4. ReadsOn'
    <3>1. SUFFICES ASSUME NEW t \in DOMAIN pending', ~pending'[t].complete
                   PROVE  t # None /\ pending'[t].again = 0
      BY <1>3 DEF ReadsOn
    <3>2. t \in DOMAIN pending /\ ~pending[t].complete /\ pending'[t] = pending[t]
      BY <2>3, <3>1
    <3>3. QED BY <1>0, <2>3, <3>2, GroupFacts DEF ReadsOn
  <2>5. QED BY <1>4, <2>2, <2>4 DEF TrackInv
<1>7. QED BY <1>5, <1>6

\* A fetch's answer is a whole group, and a refusal changes nothing that is held.
LEMMA AnswerKeeps ==
  ASSUME TrackInv, Answer
  PROVE  TrackInv'
<1>0. /\ HoldInv /\ ReadsOn /\ ReadIsFiled
      /\ size \in [Sequence -> 0 .. MaxFrames] /\ sub.group \in Sequence \cup {None}
  BY DEF TrackInv, TrackTypes
<1>1. UNCHANGED <<edge, size, sub, out>>
  BY DEF Answer, remote, task, past
<1>2. TrackTypes'
  BY <1>1 DEF TrackInv, TrackTypes
<1>3. ASSUME NEW g \in Sequence, NEW says \in Decodable,
             Push(g, [i \in 1 .. size[g] |-> i], says)
      PROVE  TrackInv'
  <2> DEFINE n == size[g]
             a == [i \in 1 .. n |-> i]
  <2>1. n \in Nat /\ n <= MaxFrames
    BY <1>0, HoldAssumption
  <2>2. a \in Seq(Frame) /\ Len(a) = n /\ DOMAIN a = 1 .. n /\ \A i \in 1 .. n : a[i] = i
    <3> HIDE DEF n
    <3>1. \A i \in 1 .. n : i \in Frame
      BY <2>1, TrackAssumption, HoldAssumption
    <3>2. QED BY <2>1, <3>1
  <2>3. Arrive(g, a, says, TRUE) /\ asks' = [asks EXCEPT ![g] = @ - 1] /\ asks[g] > 0
    BY <1>3 DEF Push, Asked
  <2> HIDE DEF a, n
  <2>4. Fits(g, a, 0, TRUE)
    BY <2>1, <2>2 DEF Fits
  <2>5. asks' \in [Sequence -> Nat]
    BY <1>0, <2>3 DEF HoldInv, TypeOK
  <2>6. HoldInv' /\ PassingIsSettled' /\ HeldInOrder' /\ OutIsBehind' /\ SentIsOut'
    <3>1. TRUE \in BOOLEAN
      OBVIOUS
    <3>2. QED BY <1>1, <2>2, <2>3, <2>4, <2>5, <3>1, ArrivalKeepsOrder
  <2>7. /\ g \in DOMAIN pending' => pending'[g].complete
        /\ \A t \in DOMAIN pending' :
             t # g => t \in DOMAIN pending /\ pending'[t] = pending[t]
        /\ \A t \in Nat : HereOrPassed(t) => HereOrPassed(t)'
    BY <2>2, <2>3, <2>4, EndedIsWhole
  <2>8. ReadsOn'
    BY <1>0, <1>1, <2>7 DEF ReadsOn
  <2>9. ReadIsFiled'
    <3>1. SUFFICES ASSUME sub.group # None, sub.read > 0
                   PROVE  HereOrPassed(sub.group)'
      BY <1>1 DEF ReadIsFiled
    <3>2. PICK t \in Sequence : t = sub.group
      BY <1>0, <3>1
    <3>3. t \in Nat /\ HereOrPassed(t)
      BY <1>0, <3>1, <3>2 DEF ReadIsFiled, Sequence
    <3>4. HereOrPassed(t)'
      BY <2>7, <3>3
    <3>5. QED BY <1>1, <3>2, <3>4 DEF HereOrPassed
  <2>10. QED BY <1>2, <2>6, <2>8, <2>9 DEF TrackInv
<1>4. ASSUME NEW g \in Sequence, Refused(g)
      PROVE  TrackInv'
  <2>1. HoldInv'
    BY <1>0, <1>4, OthersKeep
  <2>2. UNCHANGED <<pending, cursor, passing>>
    BY <1>4 DEF Refused
  <2>3. PassingIsSettled'
    BY <2>2 DEF TrackInv, PassingIsSettled
  <2>4. HeldInOrder' /\ OutIsBehind' /\ SentIsOut'
    BY <1>1, <2>2, SameKeepsOrder
  <2>5. ReadsOn' /\ ReadIsFiled'
    BY <1>0, <1>1, <2>2 DEF ReadsOn, ReadIsFiled, HereOrPassed
  <2>6. QED BY <1>2, <2>1, <2>3, <2>4, <2>5 DEF TrackInv
<1>5. QED
  <2>1. PICK g \in Sequence :
          \/ Push(g, [i \in 1 .. size[g] |-> i],
                  IF g \in Keyed /\ size[g] > 0 THEN "yes" ELSE "no")
          \/ Refused(g)
    BY DEF Answer
  <2>2. (IF g \in Keyed /\ size[g] > 0 THEN "yes" ELSE "no") \in Decodable
    BY DEF Decodable
  <2>3. QED BY <1>3, <1>4, <2>1, <2>2

\* When the track is taken up again every group that is not whole may come again,
\* and none is being read.
LEMMA TakenUpKeepsTrack ==
  ASSUME TrackInv, TakenUpAgain, fetching' \in Nat \cup {None}, asks' \in [Sequence -> Nat],
         sub' = Subscription(edge), UNCHANGED <<edge, size, out>>
  PROVE  TrackInv'
<1>0. HoldInv /\ edge \in Sequence
  BY DEF TrackInv, TrackTypes
<1>1. HoldInv'
  BY <1>0, TakenUpKeeps
<1>2. /\ DOMAIN pending' = DOMAIN pending /\ UNCHANGED cursor /\ passing' = {}
      /\ \A s \in DOMAIN pending :
           pending'[s] = IF pending[s].complete THEN pending[s]
                         ELSE [pending[s] EXCEPT !.again = 0]
  BY DEF TakenUpAgain
<1>3. \A s \in DOMAIN pending :
        /\ pending'[s].frames = pending[s].frames /\ pending'[s].have = pending[s].have
        /\ pending'[s].complete \/ pending'[s].again = 0
  <2>1. TAKE s \in DOMAIN pending
  <2>2. CASE pending[s].complete
    BY <1>2, <2>2
  <2>3. CASE ~pending[s].complete
    <3>1. pending'[s] = [pending[s] EXCEPT !.again = 0] /\ pending[s] \in Held
      BY <1>0, <1>2, <2>3, GroupFacts
    <3>2. QED BY <3>1 DEF Held
  <2>4. QED BY <2>2, <2>3
<1>4. PassingIsSettled'
  BY <1>2 DEF PassingIsSettled
<1>5. \A s \in DOMAIN pending : Sent(pending'[s]) = Sent(pending[s])
  BY <1>3 DEF Sent
<1>6. HeldInOrder'
  <2>1. SUFFICES ASSUME NEW s \in DOMAIN pending
                 PROVE  Ordered(pending'[s])
    BY <1>2 DEF HeldInOrder, Ordered, Sent
  <2>2. Ordered(pending[s])
    BY DEF TrackInv, HeldInOrder
  <2>3. QED BY <1>3, <1>5, <2>2 DEF Ordered
<1>7. OutIsBehind'
  BY <1>2, <1>5 DEF TrackInv, OutIsBehind, Newest, Sent
<1>8. SentIsOut'
  <2>1. SUFFICES ASSUME NEW s \in DOMAIN pending, Sent(pending'[s]) > 0
                 PROVE  out # << >> /\ Newest = <<s, Sent(pending'[s])>>
    BY <1>2 DEF SentIsOut, Newest, Sent
  <2>2. QED BY <1>5, <2>1 DEF TrackInv, SentIsOut
<1>9. /\ sub' \in [from : Sequence, came : SUBSET Sequence,
                   group : Sequence \cup {None}, read : Nat]
      /\ sub'.group = None
  BY <1>0 DEF Subscription
<1>10. TrackTypes' /\ ReadIsFiled'
  BY <1>9 DEF TrackInv, TrackTypes, ReadIsFiled
<1>11. ReadsOn'
  BY <1>0, <1>2, <1>3, <1>9, GroupFacts DEF ReadsOn
<1>12. QED BY <1>1, <1>4, <1>6, <1>7, <1>8, <1>10, <1>11 DEF TrackInv

\* A task that subscribes again takes the track up again, if it can.
LEMMA ResubscribeKeeps ==
  ASSUME TrackInv, Resubscribe
  PROVE  TrackInv'
<1>1. UNCHANGED <<edge, size, out>>
  BY DEF Resubscribe, remote, past
<1>2. CASE Restart /\ sub' = Subscription(edge)
  <2>1. TakenUpAgain /\ fetching' \in Nat \cup {None} /\ asks' \in [Sequence -> Nat]
    BY <1>2 DEF Restart, TrackInv, HoldInv, TypeOK
  <2>2. QED BY <1>1, <1>2, <2>1, TakenUpKeepsTrack
<1>3. CASE UNCHANGED <<vars, sub>>
  BY <1>1, <1>3, QuietKeeps DEF TrackInv, TrackTypes
<1>4. QED BY <1>2, <1>3 DEF Resubscribe

\* So does a new session, which drops the fetches of the old one as well.
LEMMA ResumeKeeps ==
  ASSUME TrackInv, Resume
  PROVE  TrackInv'
<1>1. /\ TakenUpAgain /\ sub' = Subscription(edge) /\ UNCHANGED <<edge, size, out>>
      /\ fetching' \in Nat \cup {None} /\ asks' \in [Sequence -> Nat]
  BY DEF Resume, remote
<1>2. QED BY <1>1, TakenUpKeepsTrack

\* The actions that leave the hold, the subscription and what went out alone.
LEMMA OthersKeepTrack ==
  ASSUME TrackInv, Finish \/ Break \/ StartRelease \/ Clock \/ UNCHANGED all
  PROVE  TrackInv'
<1>1. CASE Finish \/ Break \/ StartRelease \/ UNCHANGED all
  <2>1. UNCHANGED <<vars, out>> /\ UNCHANGED <<edge, size, sub>>
    BY <1>1 DEF Finish, Break, StartRelease, all, remote, task, past
  <2>2. QED BY <2>1, QuietKeeps DEF TrackInv, TrackTypes
<1>2. CASE Clock
  <2>1. Tick /\ UNCHANGED <<edge, size, sub, out>>
    BY <1>2 DEF Clock, remote, task, past
  <2>2. HoldInv'
    BY <2>1, OthersKeep DEF TrackInv
  <2>3. UNCHANGED <<pending, cursor, passing>>
    BY <2>1 DEF Tick
  <2>4. HeldInOrder' /\ OutIsBehind' /\ SentIsOut'
    BY <2>1, <2>3, SameKeepsOrder
  <2>5. PassingIsSettled' /\ TrackTypes' /\ ReadsOn' /\ ReadIsFiled'
    BY <2>1, <2>3 DEF TrackInv, PassingIsSettled, TrackTypes, ReadsOn, ReadIsFiled, HereOrPassed
  <2>6. QED BY <2>2, <2>4, <2>5 DEF TrackInv
<1>3. QED BY <1>1, <1>2

-----------------------------------------------------------------------------
(* What a take does to what went out.                                      *)

\* The lowest of a set of groups is its Min.
LEMMA OldestIsMin ==
  ASSUME NEW S \in SUBSET Nat, NEW g, Oldest(g, S)
  PROVE  Min(S) = g
<1>1. g \in S /\ \A y \in S : g <= y
  BY DEF Oldest
<1>2. \A x \in S : (\A y \in S : x <= y) => x = g
  BY <1>1
<1>3. QED BY <1>1, <1>2 DEF Min

\* A take hands on the group the pull's turn is for, or changes neither the hold
\* nor the cursor.
LEMMA TakeHandsOnTurn ==
  ASSUME HoldInv, NEW last \in BOOLEAN, Take(last)
  PROVE  \/ UNCHANGED <<pending, cursor>>
         \/ \E skipped, tally : HandsOn(Turn, skipped, tally, last)
<1>0. DOMAIN pending \in SUBSET Nat
  BY DEF HoldInv, TypeOK, Sequence
<1>1. CASE TakeLiveJoin(last)
  BY <1>1, LiveJoinHandsOn DEF TakeLiveJoin, Turn
<1>2. CASE TakeLiveEnd(last) \/ TakeBacklogJoin(last)
  <2>1. ~(cursor = None /\ start = "Live" /\ join_ready # None)
    BY <1>2 DEF TakeLiveEnd, TakeBacklogJoin
  <2>2. PICK g : HandsOn(g, {}, counters, last)
    BY <1>2, JoinHandsOn
  <2>3. Oldest(g, DOMAIN pending)
    BY <2>2 DEF HandsOn
  <2>4. Turn = g
    BY <1>0, <2>1, <2>3, OldestIsMin DEF Turn
  <2>5. QED BY <2>2, <2>4
<1>3. CASE TakeAtCursor(last)
  <2>1. cursor # None /\ Oldest(cursor, DOMAIN pending)
    BY <1>3 DEF TakeAtCursor
  <2>2. Turn = cursor
    BY <1>0, <2>1, OldestIsMin DEF Turn
  <2>3. QED BY <1>3, <2>2, AtCursorHandsOn
<1>4. CASE TakeStepsOver(last)
  <2>1. cursor # None
    BY <1>4 DEF TakeStepsOver, AtHole
  <2>2. PICK g : HandsOn(g, {}, [Opened EXCEPT !.holes_abandoned[Reason(last)] = @ + 1], last)
    BY <1>4, StepsOverHandsOn
  <2>3. Oldest(g, DOMAIN pending)
    BY <2>2 DEF HandsOn
  <2>4. Turn = g
    BY <1>0, <2>1, <2>3, OldestIsMin DEF Turn
  <2>5. QED BY <2>2, <2>4
<1>5. CASE TakeEmpty \/ TakeWaits(last)
  BY <1>5 DEF TakeEmpty, TakeWaits
<1>6. QED BY <1>1, <1>2, <1>3, <1>4, <1>5 DEF Take

\* Group g leaves the hold and is passed, or stays at the cursor without the
\* frames that went; no other group that stays is touched.
Passes(g, skipped) ==
  cursor' = g + 1 /\ DOMAIN pending' = DOMAIN pending \ (skipped \cup {g})
Stays(g, skipped) ==
  /\ cursor' = g /\ DOMAIN pending' = DOMAIN pending \ skipped
  /\ g \in DOMAIN pending'
  /\ pending'[g].frames = << >> /\ pending'[g].have = pending[g].have
  /\ pending'[g].complete = pending[g].complete
  /\ pending'[g].again = pending[g].again
OthersStay(g) == \A s \in DOMAIN pending' : s # g => pending'[s] = pending[s]

\* What a hand-on does to the hold.
LEMMA HandOnLeaves ==
  ASSUME HoldInv, NEW g, NEW skipped, NEW tally, NEW last \in BOOLEAN,
         HandsOn(g, skipped, tally, last)
  PROVE  (Passes(g, skipped) \/ Stays(g, skipped)) /\ OthersStay(g)
<1> USE DEF Passes, Stays, OthersStay
<1> DEFINE left == DOMAIN pending \ skipped
<1>1. g \in left /\ pending[g] \in Held
  BY GroupFacts DEF HandsOn
<1>2. CASE pending' = Restrict(pending, left \ {g}) /\ cursor' = g + 1
  BY <1>2 DEF Restrict
<1>3. CASE pending' = [Restrict(pending, left) EXCEPT ![g].frames = << >>] /\ cursor' = g
  <2>1. pending' = [t \in left |-> IF t = g THEN [pending[g] EXCEPT !.frames = << >>]
                                            ELSE pending[t]]
    BY <1>1, <1>3 DEF Restrict
  <2>2. pending'[g] = [pending[g] EXCEPT !.frames = << >>]
    BY <1>1, <2>1
  <2>3. /\ pending'[g].frames = << >> /\ pending'[g].have = pending[g].have
        /\ pending'[g].complete = pending[g].complete /\ pending'[g].again = pending[g].again
    BY <1>1, <2>2 DEF Held
  <2>4. DOMAIN pending' = left /\ \A s \in left : s # g => pending'[s] = pending[s]
    BY <2>1
  <2>5. QED BY <1>1, <1>3, <2>3, <2>4
<1>4. QED BY <1>2, <1>3 DEF HandsOn, HandOn

\* The frames of the group handed on.
Leaving(g) == [i \in DOMAIN pending[g].frames |-> <<g, pending[g].frames[i]>>]

\* The group handed on goes on where the last frame that went out was, or begins.
LEMMA GoesOn ==
  ASSUME TrackInv, NEW g \in DOMAIN pending
  PROVE  LET n    == Len(pending[g].frames)
             sent == Sent(pending[g])
         IN  /\ g \in Sequence /\ n \in Nat /\ sent \in Nat /\ sent + n <= MaxFrames
             /\ pending[g].have = sent + n
             /\ Order!Begins(g) = sent + 1
             /\ out # << >> => \/ sent = 0 /\ Newest[1] < g
                               \/ Newest = <<g, sent>>
             /\ out = << >> => sent = 0
             /\ DOMAIN Leaving(g) = 1 .. n /\ \A i \in 1 .. n : Leaving(g)[i] = <<g, sent + i>>
<1> DEFINE n    == Len(pending[g].frames)
           sent == Sent(pending[g])
<1>1. HoldInv /\ HeldInOrder /\ OutIsBehind /\ SentIsOut
      /\ out \in Seq(Sequence \X (1 .. MaxFrames))
  BY DEF TrackInv, TrackTypes
<1>2. /\ g \in Sequence /\ g \in Nat /\ n \in Nat /\ sent \in Nat /\ pending[g].have \in Nat
      /\ DOMAIN pending[g].frames = 1 .. n
  BY <1>1, GroupFacts
<1>3. pending[g].have = sent + n
  BY <1>2 DEF Sent
<1>4. sent + n <= MaxFrames /\ \A i \in 1 .. n : pending[g].frames[i] = sent + i
  BY <1>1, <1>2, <1>3 DEF HeldInOrder, Ordered
<1>5. cursor # None => cursor \in Nat /\ cursor <= g
  BY <1>1 DEF HoldInv, TypeOK, AheadOfCursor
<1>6. sent > 0 => out # << >> /\ Newest = <<g, sent>>
  BY <1>1 DEF SentIsOut
<1>7. ASSUME out # << >>
      PROVE  /\ Newest[1] \in Nat /\ Newest[2] \in Nat /\ Newest = <<Newest[1], Newest[2]>>
             /\ Newest[1] <= g /\ (Newest[1] = g => Newest[2] = sent)
  <2>1. Len(out) \in Nat /\ Len(out) # 0 /\ DOMAIN out = 1 .. Len(out)
    BY <1>1, <1>7, EmptySeq, LenProperties
  <2>2. Newest \in Sequence \X (1 .. MaxFrames)
    BY <1>1, <2>1, LenProperties DEF Newest
  <2>3. Newest[1] \in Nat /\ Newest[2] \in Nat /\ Newest = <<Newest[1], Newest[2]>>
    BY <2>2, HoldAssumption DEF Sequence
  <2>4. cursor # None /\ Newest[1] <= cursor
        /\ (Newest[1] = cursor => Newest[2] = Sent(pending[cursor]))
    BY <1>1, <1>7 DEF OutIsBehind
  <2>5. Newest[1] <= g
    BY <1>2, <1>5, <2>3, <2>4
  <2>6. Newest[1] = g => cursor = g
    BY <1>2, <1>5, <2>3, <2>4
  <2>7. QED BY <2>3, <2>4, <2>5, <2>6
<1> HIDE DEF sent
<1>8. out # << >> => (sent = 0 /\ Newest[1] < g) \/ Newest = <<g, sent>>
  <2>1. SUFFICES ASSUME out # << >>
                 PROVE  (sent = 0 /\ Newest[1] < g) \/ Newest = <<g, sent>>
    OBVIOUS
  <2>2. CASE Newest[1] = g
    BY <1>7, <2>1, <2>2
  <2>3. CASE Newest[1] < g
    BY <1>2, <1>6, <1>7, <2>1, <2>3
  <2>4. QED BY <1>2, <1>7, <2>1, <2>2, <2>3
<1>9. out = << >> => sent = 0
  BY <1>2, <1>6
<1>10. Order!Begins(g) = sent + 1
  <2>1. CASE out = << >>
    BY <1>9, <2>1 DEF Order!Begins
  <2>2. CASE out # << >> /\ sent = 0 /\ Newest[1] < g
    BY <2>2 DEF Order!Begins, Newest
  <2>3. CASE out # << >> /\ Newest = <<g, sent>>
    <3>1. out[Len(out)][1] = g /\ out[Len(out)][2] = sent /\ ~(g < g)
      BY <1>2, <2>3 DEF Newest
    <3>2. QED BY <2>3, <3>1 DEF Order!Begins
  <2>4. QED BY <1>8, <2>1, <2>2, <2>3
<1>11. DOMAIN Leaving(g) = 1 .. n /\ \A i \in 1 .. n : Leaving(g)[i] = <<g, sent + i>>
  BY <1>2, <1>4 DEF Leaving
<1>12. QED BY <1>2, <1>3, <1>4, <1>8, <1>9, <1>10, <1>11 DEF sent

\* When its frames go out, the last of them is the last of the group that is here;
\* and that is a step of FrameOrder, or none if there are none.
LEMMA LeavingGoesOut ==
  ASSUME TrackInv, NEW g \in DOMAIN pending, out' = out \o Leaving(g)
  PROVE  /\ out' \in Seq(Sequence \X (1 .. MaxFrames))
         /\ Len(pending[g].frames) = 0 => out' = out
         /\ Len(pending[g].frames) > 0 =>
              /\ out' # << >> /\ Newest' = <<g, pending[g].have>>
              /\ Order!Next
<1> DEFINE n    == Len(pending[g].frames)
           sent == Sent(pending[g])
           Pair == Sequence \X (1 .. MaxFrames)
           more == Leaving(g)
<1>1. /\ g \in Sequence /\ n \in Nat /\ sent \in Nat /\ sent + n <= MaxFrames
      /\ pending[g].have = sent + n
      /\ Order!Begins(g) = sent + 1
      /\ DOMAIN more = 1 .. n /\ \A i \in 1 .. n : more[i] = <<g, sent + i>>
  BY GoesOn
<1>2. out \in Seq(Pair) /\ MaxFrames \in Nat
  BY HoldAssumption DEF TrackInv, TrackTypes
<1>3. \A i \in 1 .. n : <<g, sent + i>> \in Pair
  <2> HIDE DEF n, sent
  <2>1. \A i \in 1 .. n : sent + i \in 1 .. MaxFrames
    BY <1>1, <1>2
  <2>2. QED BY <1>1, <2>1
<1>4. more = [i \in 1 .. n |-> <<g, pending[g].frames[i]>>]
  <2>1. DOMAIN pending[g].frames = 1 .. n
    BY GroupFacts DEF TrackInv
  <2>2. QED BY <2>1 DEF Leaving
<1> HIDE DEF n, sent, more, Pair
<1>5. more = [i \in 1 .. n |-> <<g, sent + i>>]
  BY <1>1, <1>4
<1>6. more \in Seq(Pair) /\ Len(more) = n
  <2>1. \A i \in 1 .. n : more[i] \in Pair
    BY <1>1, <1>3
  <2>2. more \in [1 .. n -> Pair]
    BY <1>5, <2>1
  <2>3. QED BY <1>1, <2>2
<1>7. /\ out \o more \in Seq(Pair) /\ Len(out \o more) = Len(out) + n
      /\ \A i \in 1 .. Len(out) + n :
           (out \o more)[i] = IF i <= Len(out) THEN out[i] ELSE more[i - Len(out)]
  BY <1>2, <1>6, ConcatProperties
<1>8. out' = out \o more
  BY DEF more
<1>9. out' \in Seq(Pair)
  BY <1>7, <1>8
<1>10. n = 0 => out' = out
  <2>1. n = 0 => more = << >>
    BY <1>6, EmptySeq
  <2>2. QED BY <1>2, <1>8, <2>1, ConcatEmptySeq
<1>11. ASSUME n > 0
       PROVE  out' # << >> /\ Newest' = <<g, sent + n>> /\ Order!Next
  <2>1. Len(out) \in Nat /\ Len(out') = Len(out) + n
    BY <1>2, <1>7, <1>8, LenProperties
  <2>2. out' # << >>
    BY <1>1, <1>11, <2>1
  <2>3. out'[Len(out')] = more[n]
    BY <1>1, <1>7, <1>8, <1>11, <2>1
  <2>4. Newest' = <<g, sent + n>>
    BY <1>1, <1>11, <2>3 DEF Newest
  <2>5. n \in 1 .. MaxFrames /\ Order!Begins(g) + n - 1 <= MaxFrames
    BY <1>1, <1>2, <1>11
  <2>6. \A i \in 1 .. n : Order!Begins(g) + i - 1 = sent + i
    BY <1>1
  <2>7. out' = out \o [i \in 1 .. n |-> <<g, Order!Begins(g) + i - 1>>]
    BY <1>5, <1>8, <2>6
  <2>8. QED BY <1>1, <2>2, <2>4, <2>5, <2>7 DEF Order!Next, Order!Leave
<1>12. QED BY <1>1, <1>9, <1>10, <1>11 DEF n, Pair

\* A group that is handed on leaves what is held, read and sent as it was.
LEMMA HandOnKeepsTrack ==
  ASSUME TrackInv, NEW g, NEW skipped, NEW tally, NEW last \in BOOLEAN,
         HandsOn(g, skipped, tally, last), UNCHANGED sub, out' = out \o Leaving(g)
  PROVE  HeldInOrder' /\ ReadsOn' /\ ReadIsFiled' /\ OutIsBehind' /\ SentIsOut'
<1> DEFINE n    == Len(pending[g].frames)
           sent == Sent(pending[g])
<1>0. /\ HoldInv /\ HeldInOrder /\ ReadsOn /\ ReadIsFiled /\ OutIsBehind /\ SentIsOut
      /\ sub.group \in Sequence \cup {None}
  BY DEF TrackInv, TrackTypes
<1>1. /\ g \in DOMAIN pending /\ skipped \in SUBSET DOMAIN pending
      /\ \A s \in skipped : s < g
      /\ \A s \in DOMAIN pending \ {g} : Len(pending[s].frames) = pending[s].have
  BY DEF HandsOn
<1>2. /\ g \in Nat /\ n \in Nat /\ sent \in Nat /\ sent + n <= MaxFrames
      /\ pending[g].have = sent + n
      /\ out # << >> => (sent = 0 /\ Newest[1] < g) \/ Newest = <<g, sent>>
      /\ out = << >> => sent = 0
  BY <1>1, GoesOn DEF Sequence
<1>3. /\ n = 0 => out' = out
      /\ n > 0 => out' # << >> /\ Newest' = <<g, pending[g].have>>
  BY <1>1, LeavingGoesOut
<1>4. cursor # None => cursor \in Nat /\ cursor <= g
  BY <1>0, <1>1 DEF HoldInv, TypeOK, AheadOfCursor
<1>05. (Passes(g, skipped) \/ Stays(g, skipped)) /\ OthersStay(g)
  BY <1>0, HandOnLeaves
<1>5. \A s \in DOMAIN pending' : s # g => pending'[s] = pending[s]
  BY <1>05 DEF OthersStay
<1>6. \A s \in DOMAIN pending' :
        /\ s \in DOMAIN pending
        /\ s = g => Stays(g, skipped)
  BY <1>05 DEF Passes, Stays
<1>7. /\ cursor' \in Nat /\ cursor' # None
      /\ (cursor' = g + 1 \/ (cursor' = g /\ Stays(g, skipped)))
  BY <1>05, <1>2, HoldAssumption DEF Passes, Stays
<1>8. \A s \in DOMAIN pending \ {g} : Sent(pending[s]) = 0
  BY <1>0, <1>1, GroupFacts DEF Sent
<1>9. Stays(g, skipped) => Sent(pending'[g]) = sent + n
  BY <1>2, EmptySeq DEF Sent, Stays
<1>10. HeldInOrder'
  <2>1. SUFFICES ASSUME NEW s \in DOMAIN pending'
                 PROVE  Ordered(pending'[s])
    BY DEF HeldInOrder, Ordered, Sent
  <2>2. CASE s # g
    BY <1>0, <1>5, <1>6, <2>2 DEF HeldInOrder
  <2>3. CASE s = g
    <3>1. pending'[s].frames = << >> /\ pending'[s].have <= MaxFrames
      BY <1>2, <1>6, <2>3 DEF Stays
    <3>2. DOMAIN pending'[s].frames = {}
      BY <3>1
    <3>3. QED BY <3>1, <3>2 DEF Ordered
  <2>4. QED BY <2>2, <2>3
<1>11. ReadsOn'
  <2>1. SUFFICES ASSUME NEW s \in DOMAIN pending', ~pending'[s].complete
                 PROVE  IF s # sub.group THEN pending'[s].again = 0
                        ELSE IF pending'[s].again = None
                             THEN sub.read = pending'[s].have /\ sub.read > 0
                        ELSE sub.read = pending'[s].again
    BY DEF ReadsOn
  <2>2. /\ s \in DOMAIN pending /\ pending'[s].have = pending[s].have
        /\ pending'[s].complete = pending[s].complete
        /\ pending'[s].again = pending[s].again
    BY <1>5, <1>6 DEF Stays
  <2>3. QED BY <1>0, <2>1, <2>2 DEF ReadsOn
<1>12. ReadIsFiled'
  <2>1. SUFFICES ASSUME sub.group # None, sub.read > 0
                 PROVE  HereOrPassed(sub.group)'
    BY DEF ReadIsFiled
  <2>2. PICK s \in Sequence : s = sub.group
    BY <1>0, <2>1
  <2>3. s \in Nat /\ HereOrPassed(s)
    BY <1>0, <2>1, <2>2 DEF ReadIsFiled, Sequence
  <2>4. HereOrPassed(s)'
    <3>1. CASE cursor # None /\ s < cursor
      BY <1>2, <1>4, <1>7, <2>3, <3>1 DEF HereOrPassed
    <3>2. CASE s \in DOMAIN pending /\ s \in skipped
      BY <1>1, <1>2, <1>7, <2>3, <3>2 DEF HereOrPassed
    <3>3. CASE s \in DOMAIN pending /\ s \notin skipped /\ s # g
      BY <1>05, <3>3 DEF HereOrPassed, Passes, Stays
    <3>4. CASE s = g
      BY <1>2, <1>7, <3>4 DEF HereOrPassed, Stays
    <3>5. QED BY <2>3, <3>1, <3>2, <3>3, <3>4 DEF HereOrPassed
  <2>5. QED BY <2>2, <2>4 DEF HereOrPassed
<1>13. OutIsBehind'
  <2>1. SUFFICES ASSUME out' # << >>
                 PROVE  /\ cursor' # None /\ Newest'[1] <= cursor'
                        /\ Newest'[1] = cursor' => /\ cursor' \in DOMAIN pending'
                                                   /\ Newest'[2] = Sent(pending'[cursor'])
    BY DEF OutIsBehind, Newest, Sent
  <2>2. CASE Newest' = <<g, sent + n>>
    BY <1>2, <1>7, <1>9, <2>2 DEF Stays
  <2>3. CASE n = 0 /\ sent = 0 /\ Newest'[1] < g
    <3>1. Newest'[1] \in Int
      <4>1. out' \in Seq(Sequence \X (1 .. MaxFrames))
        BY <1>1, LeavingGoesOut
      <4>2. Len(out') \in Nat /\ Len(out') # 0 /\ DOMAIN out' = 1 .. Len(out')
        BY <2>1, <4>1, EmptySeq, LenProperties
      <4>3. Newest' \in Sequence \X (1 .. MaxFrames)
        BY <4>1, <4>2, LenProperties DEF Newest
      <4>4. QED BY <4>3, HoldAssumption DEF Sequence
    <3>2. QED BY <1>2, <1>7, <2>3, <3>1
  <2>4. CASE n = 0 /\ Newest' = <<g, sent>>
    BY <1>2, <2>2, <2>4
  <2>5. n = 0 => Newest' = Newest
    BY <1>3 DEF n, Newest
  <2>6. QED BY <1>2, <1>3, <2>1, <2>2, <2>3, <2>4, <2>5 DEF n
<1>14. SentIsOut'
  <2>1. SUFFICES ASSUME NEW s \in DOMAIN pending', Sent(pending'[s]) > 0
                 PROVE  out' # << >> /\ Newest' = <<s, Sent(pending'[s])>>
    BY DEF SentIsOut, Newest, Sent
  <2>2. s = g
    BY <1>5, <1>6, <1>8, <2>1
  <2>3. Sent(pending'[s]) = sent + n /\ sent + n > 0
    BY <1>6, <1>9, <2>1, <2>2
  <2>4. CASE n > 0
    BY <1>2, <1>3, <2>2, <2>3, <2>4 DEF n
  <2>5. CASE n = 0
    <3>1. sent > 0 /\ out' = out /\ Newest' = Newest
      BY <1>2, <1>3, <2>3, <2>5 DEF n, Newest
    <3>2. QED BY <1>2, <2>2, <2>3, <2>5, <3>1
  <2>6. QED BY <1>2, <2>4, <2>5
<1>15. QED BY <1>10, <1>11, <1>12, <1>13, <1>14

\* A take that hands the pull's turn on keeps to the invariant, and is a step of
\* FrameOrder or hands no frame on.
LEMMA TurnKeeps ==
  ASSUME TrackInv, NEW last \in BOOLEAN, Take(last), UNCHANGED <<edge, size, sub>>,
         NEW g, NEW skipped, NEW tally, HandsOn(g, skipped, tally, last),
         out' = out \o Leaving(g)
  PROVE  TrackInv' /\ [Order!Next]_out
<1>1. HoldInv'
  BY TakeKeeps DEF TrackInv
<1>2. PassingIsSettled'
  BY <1>1, TakeKeepsPassing DEF TrackInv, PassInv
<1>3. g \in DOMAIN pending
  BY DEF HandsOn
<1>4. out' \in Seq(Sequence \X (1 .. MaxFrames))
  BY <1>3, LeavingGoesOut
<1>5. TrackTypes'
  BY <1>4 DEF TrackInv, TrackTypes
<1>6. HeldInOrder' /\ ReadsOn' /\ ReadIsFiled' /\ OutIsBehind' /\ SentIsOut'
  BY HandOnKeepsTrack
<1>7. [Order!Next]_out
  <2>1. Len(pending[g].frames) \in Nat
    BY <1>3, GroupFacts DEF TrackInv
  <2>2. CASE Len(pending[g].frames) = 0
    BY <1>3, <2>2, LeavingGoesOut
  <2>3. CASE Len(pending[g].frames) > 0
    BY <1>3, <2>3, LeavingGoesOut
  <2>4. QED BY <2>1, <2>2, <2>3
<1>8. QED BY <1>1, <1>2, <1>5, <1>6, <1>7 DEF TrackInv

\* A release hands on the pull's turn.
LEMMA ReleaseKeeps ==
  ASSUME TrackInv, Release
  PROVE  TrackInv' /\ [Order!Next]_out
<1>1. /\ Take(pull = "last") /\ pending' # pending
      /\ out' = out \o [i \in DOMAIN pending[Turn].frames |-> <<Turn, pending[Turn].frames[i]>>]
      /\ UNCHANGED <<edge, size, sub>>
  BY DEF Release, remote, task
<1>2. PICK last \in BOOLEAN : last = (pull = "last")
  OBVIOUS
<1>3. Take(last) /\ HoldInv
  BY <1>1, <1>2 DEF TrackInv
<1>4. PICK g : g = Turn
  OBVIOUS
<1>5. \E skipped, tally : HandsOn(Turn, skipped, tally, last)
  BY <1>1, <1>3, TakeHandsOnTurn
<1>6. PICK skipped, tally : HandsOn(g, skipped, tally, last)
  BY <1>4, <1>5
<1>7. out' = out \o Leaving(g)
  BY <1>1, <1>4 DEF Leaving
<1>8. QED BY <1>1, <1>3, <1>6, <1>7, TurnKeeps

\* A take that ends a release may have been about the group at the cursor, none of
\* whose frames were new.
LEMMA ReleaseEndsKeeps ==
  ASSUME TrackInv, ReleaseEnds
  PROVE  TrackInv' /\ [Order!Next]_out
<1>1. UNCHANGED <<edge, size, sub, out>>
  BY DEF ReleaseEnds, remote, task, past
<1>2. CASE UNCHANGED vars
  BY <1>1, <1>2, QuietKeeps DEF TrackInv, TrackTypes
<1>3. CASE Take(pull = "last") /\ pending' = pending
  <2>1. PICK last \in BOOLEAN : last = (pull = "last")
    OBVIOUS
  <2>2. Take(last) /\ HoldInv
    BY <1>3, <2>1 DEF TrackInv
  <2>3. CASE UNCHANGED <<pending, cursor>>
    <3>1. HoldInv'
      BY <2>2, TakeKeeps
    <3>2. PassingIsSettled'
      BY <2>2, <3>1, TakeKeepsPassing DEF TrackInv, PassInv
    <3>3. HeldInOrder' /\ OutIsBehind' /\ SentIsOut'
      BY <1>1, <2>3, SameKeepsOrder DEF TrackInv
    <3>4. TrackTypes' /\ ReadsOn' /\ ReadIsFiled'
      BY <1>1, <2>3 DEF TrackInv, TrackTypes, ReadsOn, ReadIsFiled, HereOrPassed
    <3>5. QED BY <1>1, <3>1, <3>2, <3>3, <3>4 DEF TrackInv
  <2>4. CASE \E skipped, tally : HandsOn(Turn, skipped, tally, last)
    <3>1. PICK g : g = Turn
      OBVIOUS
    <3>2. PICK skipped, tally : HandsOn(g, skipped, tally, last)
      BY <2>4, <3>1
    <3>3. g \in DOMAIN pending /\ pending[g].frames = << >>
      <4>1. Passes(g, skipped) \/ Stays(g, skipped)
        BY <2>2, <3>2, HandOnLeaves
      <4>2. g \in DOMAIN pending
        BY <3>2 DEF HandsOn
      <4>3. QED BY <1>3, <4>1, <4>2 DEF Passes, Stays
    <3>4. out' = out \o Leaving(g)
      <4>1. Leaving(g) = << >>
        BY <3>3 DEF Leaving
      <4>2. out \in Seq(Sequence \X (1 .. MaxFrames))
        BY DEF TrackInv, TrackTypes
      <4>3. QED BY <1>1, <4>1, <4>2, ConcatEmptySeq
    <3>5. QED BY <1>1, <2>2, <3>2, <3>4, TurnKeeps
  <2>5. QED BY <2>2, <2>3, <2>4, TakeHandsOnTurn
<1>4. QED BY <1>2, <1>3 DEF ReleaseEnds

-----------------------------------------------------------------------------
(* The track implements FrameOrder.                                        *)

\* The track starts out well.
LEMMA InitTracks == TrackInit => TrackInv /\ Order!Init
<1> SUFFICES ASSUME TrackInit PROVE TrackInv /\ Order!Init
  OBVIOUS
<1>1. HoldInv /\ pending = << >> /\ passing = {} /\ out = << >> /\ start \in {"Live", "Backlog"}
  BY InitHolds DEF TrackInit, Init
<1>2. DOMAIN pending = {}
  BY <1>1
<1>3. PassingIsSettled /\ HeldInOrder /\ ReadsOn /\ OutIsBehind /\ SentIsOut
  BY <1>1, <1>2 DEF PassingIsSettled, HeldInOrder, ReadsOn, OutIsBehind, SentIsOut
<1>4. MaxFrames \in Nat /\ 0 \in Sequence
  BY HoldAssumption DEF Sequence
<1>5. edge \in Sequence
  BY DEF TrackInit
<1>6. size \in [Sequence -> 0 .. MaxFrames]
  BY <1>4 DEF TrackInit
<1>7. /\ sub \in [from : Sequence, came : SUBSET Sequence,
                  group : Sequence \cup {None}, read : Nat]
      /\ sub.group = None
  BY <1>4, <1>5 DEF TrackInit, Subscription
<1>8. out \in Seq(Sequence \X (1 .. MaxFrames))
  BY <1>1
<1>9. QED
  BY <1>1, <1>3, <1>5, <1>6, <1>7, <1>8 DEF TrackInv, TrackTypes, ReadIsFiled, Order!Init

\* Every step of the track keeps to the invariant, and is a step of FrameOrder or
\* hands no frame on.
LEMMA StepTracks == TrackInv /\ [TrackNext]_all => TrackInv' /\ [Order!Next]_out
<1> SUFFICES ASSUME TrackInv, [TrackNext]_all PROVE TrackInv' /\ [Order!Next]_out
  OBVIOUS
<1>1. CASE Release \/ ReleaseEnds
  BY <1>1, ReleaseKeeps, ReleaseEndsKeeps
<1>2. CASE Publish \/ ReceiveGroup \/ SubscriptionFrame \/ SubscriptionEnd
  <2>1. UNCHANGED out
    BY <1>2 DEF Publish, ReceiveGroup, SubscriptionFrame, SubscriptionEnd, past
  <2>2. QED
    BY <1>2, <2>1, PublishKeeps, ReceiveGroupKeeps, SubscriptionFrameKeeps, SubscriptionEndKeeps
<1>3. CASE Resubscribe \/ Resume \/ Answer
  <2>1. UNCHANGED out
    BY <1>3 DEF Resubscribe, Resume, Answer, past
  <2>2. QED BY <1>3, <2>1, ResubscribeKeeps, ResumeKeeps, AnswerKeeps
<1>4. CASE Finish \/ Break \/ StartRelease \/ Clock \/ UNCHANGED all
  <2>1. UNCHANGED out
    BY <1>4 DEF Finish, Break, StartRelease, Clock, all, past
  <2>2. QED BY <1>4, <2>1, OthersKeepTrack
<1>5. QED BY <1>1, <1>2, <1>3, <1>4 DEF TrackNext

\* The frames of a track leave in decode order, each once and from its group's
\* first: take_in, FrameStream and Queue together implement FrameOrder.
THEOREM TrackKeepsDecodeOrder == TrackSpec => DecodeOrder
<1>1. TrackInit => TrackInv /\ Order!Init
  BY InitTracks
<1>2. TrackInv /\ [TrackNext]_all => TrackInv' /\ [Order!Next]_out
  BY StepTracks
<1>3. QED BY <1>1, <1>2, PTL DEF TrackSpec, DecodeOrder, Order!Spec
=============================================================================
