---------------------------- MODULE PictureProofs ----------------------------
(***************************************************************************)
(* Proofs about what of a video track reaches the pad (Picture), for any   *)
(* values of its constants: each of its steps is one of the track's; what  *)
(* reaches the pad begins at a sync sample and rises; and the gate that    *)
(* lets nothing by before one absorbs nothing the join could have avoided. *)
(***************************************************************************)
EXTENDS Picture, TrackWhole

-----------------------------------------------------------------------------
(* The track beneath.                                                      *)

\* The gate looks on: each step is one of the track's.
LEMMA PictureStepIsTracks == [PictureNext]_pictures => [TrackNext]_all
BY DEF PictureNext, TakenUp, TrackNext, pictures

\* A picture's track is a track: what is proved of it holds of the frames that come
\* to the gate, and of the hold they come from.
THEOREM PictureIsOfATrack == PictureSpec => TrackSpec
<1>1. PictureInit => TrackInit
  BY DEF PictureInit
<1>2. QED BY <1>1, PictureStepIsTracks, PTL DEF PictureSpec, TrackSpec

-----------------------------------------------------------------------------
(* The invariant.                                                          *)

\* Each frame that went out is above those that went out before it.
OutRises == \A m, n \in 1 .. Len(out) : m < n => Pts(out[m]) < Pts(out[n])

\* The gate keeps to its types; what it absorbed went out of the hold.
GateTypes ==
  /\ started \in BOOLEAN /\ last_pts \in Nat \cup {None}
  /\ mark.at \in 0 .. Len(out)
  /\ \A f \in absorbed : \E n \in 1 .. Len(out) : f = out[n]

\* The last sample handed on is not above the last that went out of the hold.
LastIsBehind == last_pts # None => out # << >> /\ last_pts <= Pts(Newest)

\* The gate is open just if a sync sample has passed it since the track was taken up,
\* and until one has, it lets nothing by.
StartedAtSync ==
  IF started
  THEN \E m \in mark.at + 1 .. Len(out) : Sync(out[m]) /\ out[m] \notin absorbed
  ELSE \A n \in mark.at + 1 .. Len(out) : out[n] \in absorbed

GateInv ==
  /\ TrackInv
  /\ OutRises /\ GateTypes /\ LastIsBehind /\ StartedAtSync
  /\ BeginsAtSync /\ AbsorbsNoGroup /\ NeverRefused

-----------------------------------------------------------------------------
(* What a release shows.                                                   *)

\* A later frame has a later pts.
LEMMA PtsRises ==
  ASSUME NEW a \in Sequence \X (1 .. MaxFrames), NEW b \in Sequence \X (1 .. MaxFrames),
         a[1] < b[1] \/ (a[1] = b[1] /\ a[2] < b[2])
  PROVE  Pts(a) \in Nat /\ Pts(b) \in Nat /\ Pts(a) < Pts(b)
<1>1. PICK g \in Nat, i \in 1 .. MaxFrames : a = <<g, i>>
  BY HoldAssumption DEF Sequence
<1>2. PICK h \in Nat, k \in 1 .. MaxFrames : b = <<h, k>>
  BY HoldAssumption DEF Sequence
<1>3. Pts(a) = g * MaxFrames + i /\ Pts(b) = h * MaxFrames + k
  BY <1>1, <1>2 DEF Pts
<1>4. MaxFrames \in Nat /\ i \in Nat /\ k \in Nat /\ i <= MaxFrames /\ 1 <= k
  BY HoldAssumption
<1>5. g * MaxFrames \in Nat /\ h * MaxFrames \in Nat
  BY <1>4
<1>6. CASE g < h
  <2>1. PICK d \in Nat : h = (g + 1) + d
    <3>1. h - (g + 1) \in Nat /\ h = (g + 1) + (h - (g + 1))
      BY <1>6
    <3>2. QED BY <3>1
  <2>2. h * MaxFrames = g * MaxFrames + MaxFrames + d * MaxFrames /\ d * MaxFrames \in Nat
    BY <1>4, <2>1
  <2>3. QED BY <1>3, <1>4, <1>5, <2>2
<1>7. CASE g = h /\ i < k
  BY <1>3, <1>4, <1>5, <1>7
<1>8. QED BY <1>1, <1>2, <1>6, <1>7

\* Frames all let by are shown as they are.
LEMMA AllArePlayable ==
  ASSUME NEW S, NEW frames \in Seq(S), started \/ (frames # << >> => Sync(frames[1]))
  PROVE  /\ Playable(frames) = frames
         /\ \A n \in DOMAIN frames : Admits(frames, n)
<1>1. Len(frames) \in Nat /\ DOMAIN frames = 1 .. Len(frames)
  BY LenProperties
<1>2. ASSUME NEW n \in DOMAIN frames PROVE Admits(frames, n)
  <2>1. frames # << >> /\ 1 \in 1 .. n
    BY <1>1, <1>2, EmptySeq
  <2>2. QED BY <2>1 DEF Admits
<1>3. {n \in DOMAIN frames : Admits(frames, n)} = DOMAIN frames
  BY <1>2
<1>4. CASE DOMAIN frames = {}
  <2>1. frames = << >>
    BY <1>1, <1>4, EmptySeq
  <2>2. QED BY <1>2, <1>3, <1>4, <2>1 DEF Playable
<1>5. CASE DOMAIN frames # {}
  <2>1. Oldest(1, DOMAIN frames) /\ DOMAIN frames \in SUBSET Nat
    BY <1>1, <1>5 DEF Oldest
  <2>2. Min(DOMAIN frames) = 1
    BY <2>1, OldestIsMin
  <2>3. Playable(frames) = SubSeq(frames, 1, Len(frames))
    BY <1>3, <1>5, <2>2 DEF Playable
  <2>4. QED BY <1>2, <2>3, SubSeqFull
<1>6. QED BY <1>4, <1>5

\* Before a first sync sample none are.
LEMMA NoneArePlayable ==
  ASSUME NEW S, NEW frames \in Seq(S), ~started, \A n \in DOMAIN frames : ~Sync(frames[n])
  PROVE  /\ Playable(frames) = << >>
         /\ \A n \in DOMAIN frames : ~Admits(frames, n)
<1>1. DOMAIN frames = 1 .. Len(frames) /\ Len(frames) \in Nat
  BY LenProperties
<1>2. ASSUME NEW n \in DOMAIN frames PROVE ~Admits(frames, n)
  <2>1. 1 .. n \subseteq DOMAIN frames
    BY <1>1
  <2>2. QED BY <2>1 DEF Admits
<1>3. {n \in DOMAIN frames : Admits(frames, n)} = {}
  BY <1>2
<1>4. QED BY <1>2, <1>3 DEF Playable

\* What a release hands to the gate: the frames of the group whose turn it is, from
\* the one after the last that went out.
LEMMA WhatLeaves ==
  ASSUME TrackInv, Release
  PROVE  \E g \in DOMAIN pending :
           LET n    == Len(pending[g].frames)
               sent == Sent(pending[g])
           IN  /\ g = Turn /\ g \in Sequence /\ n \in Nat /\ sent \in Nat
               /\ sent + n <= MaxFrames /\ pending[g].have = sent + n
               /\ out # << >> => (sent = 0 /\ Newest[1] < g) \/ Newest = <<g, sent>>
               /\ out = << >> => sent = 0
               /\ out' = out \o Leaving(g)
               /\ SubSeq(out', Len(out) + 1, Len(out')) = Leaving(g)
               /\ Leaving(g) \in Seq(Sequence \X (1 .. MaxFrames)) /\ Len(Leaving(g)) = n
               /\ \A i \in 1 .. n : Leaving(g)[i] = <<g, sent + i>>
               /\ out' \in Seq(Sequence \X (1 .. MaxFrames))
               /\ Len(out') = Len(out) + n
               /\ \A m \in 1 .. Len(out) : out'[m] = out[m]
               /\ \A i \in 1 .. n : out'[Len(out) + i] = <<g, sent + i>>
<1>1. PICK last \in BOOLEAN : last = (pull = "last")
  OBVIOUS
<1>2. HoldInv /\ Take(last) /\ pending' # pending
  BY <1>1 DEF Release, TrackInv
<1>3. PICK g : g = Turn
  OBVIOUS
<1>4. PICK skipped, tally : HandsOn(g, skipped, tally, last)
  BY <1>2, <1>3, TakeHandsOnTurn
<1>5. g \in DOMAIN pending
  BY <1>4 DEF HandsOn
<1> DEFINE n    == Len(pending[g].frames)
           sent == Sent(pending[g])
           Pair == Sequence \X (1 .. MaxFrames)
           more == Leaving(g)
<1>6. /\ g \in Sequence /\ n \in Nat /\ sent \in Nat /\ sent + n <= MaxFrames
      /\ pending[g].have = sent + n
      /\ out # << >> => (sent = 0 /\ Newest[1] < g) \/ Newest = <<g, sent>>
      /\ out = << >> => sent = 0
      /\ DOMAIN more = 1 .. n /\ \A i \in 1 .. n : more[i] = <<g, sent + i>>
  BY <1>5, GoesOn
<1>7. out' = out \o more
  BY <1>3 DEF Release, Leaving
<1>8. out \in Seq(Pair) /\ Len(out) \in Nat /\ MaxFrames \in Nat
  BY HoldAssumption, LenProperties DEF TrackInv, TrackTypes
<1>9. more = [i \in 1 .. n |-> <<g, pending[g].frames[i]>>]
  <2>1. DOMAIN pending[g].frames = 1 .. n
    BY <1>5, GroupFacts DEF TrackInv
  <2>2. QED BY <2>1 DEF Leaving
<1>10. \A i \in 1 .. n : <<g, sent + i>> \in Pair
  <2> HIDE DEF n, sent
  <2>1. \A i \in 1 .. n : sent + i \in 1 .. MaxFrames
    BY <1>6, <1>8
  <2>2. QED BY <1>6, <2>1
<1> HIDE DEF n, sent, more, Pair
<1>11. more \in Seq(Pair) /\ Len(more) = n
  <2>1. \A i \in 1 .. n : more[i] \in Pair
    BY <1>6, <1>10
  <2>2. more \in [1 .. n -> Pair]
    BY <1>9, <2>1
  <2>3. QED BY <1>6, <2>2
<1>12. /\ Len(out') = Len(out) + n /\ out' \in Seq(Pair)
       /\ \A i \in 1 .. Len(out) + n :
            out'[i] = IF i <= Len(out) THEN out[i] ELSE more[i - Len(out)]
  BY <1>7, <1>8, <1>11, ConcatProperties
<1>13. /\ \A m \in 1 .. Len(out) : out'[m] = out[m]
       /\ \A i \in 1 .. n : out'[Len(out) + i] = <<g, sent + i>>
  <2>1. \A m \in 1 .. Len(out) : out'[m] = out[m]
    BY <1>6, <1>8, <1>12
  <2>2. ASSUME NEW i \in 1 .. n
        PROVE  out'[Len(out) + i] = <<g, sent + i>>
    <3>1. PICK k \in Nat : k = Len(out) + i
      BY <1>8
    <3>2. k \in 1 .. Len(out) + n /\ ~(k <= Len(out)) /\ k - Len(out) = i
      BY <1>6, <1>8, <3>1
    <3>3. out'[k] = more[i]
      BY <1>12, <3>2
    <3>4. QED BY <1>6, <3>1, <3>3
  <2>3. QED BY <2>1, <2>2
<1>14. SubSeq(out', Len(out) + 1, Len(out')) = more
  <2>1. CASE n = 0
    <3>1. more = << >> /\ Len(out') < Len(out) + 1
      BY <1>8, <1>11, <1>12, <2>1, EmptySeq
    <3>2. SubSeq(out', Len(out) + 1, Len(out')) = << >>
      BY <1>8, <1>12, <2>1, <3>1, SubSeqEmpty
    <3>3. QED BY <3>1, <3>2
  <2>2. CASE n > 0
    <3>1. /\ Len(out) + 1 \in Len(out) + 1 .. Len(out) + Len(more)
          /\ Len(out') \in Len(out) + 1 .. Len(out) + Len(more)
      BY <1>6, <1>8, <1>11, <1>12, <2>2
    <3>2. SubSeq(out \o more, Len(out) + 1, Len(out'))
            = SubSeq(more, (Len(out) + 1) - Len(out), Len(out') - Len(out))
      BY <1>8, <1>11, <3>1, SubSeqOfConcat2
    <3>3. (Len(out) + 1) - Len(out) = 1 /\ Len(out') - Len(out) = Len(more)
      BY <1>6, <1>8, <1>11, <1>12
    <3>4. SubSeq(more, 1, Len(more)) = more
      BY <1>11, SubSeqFull
    <3>5. QED BY <1>7, <3>2, <3>3, <3>4
  <2>3. QED BY <1>6, <2>1, <2>2
<1>15. QED BY <1>3, <1>5, <1>6, <1>7, <1>11, <1>12, <1>13, <1>14 DEF n, sent, more, Pair

\* The gate lets all of it by or none: all once it is open or if it opens with it.
LEMMA ShowCases ==
  ASSUME NEW g \in Sequence, NEW n \in Nat, NEW sent \in Nat,
         Leaving(g) \in Seq(Sequence \X (1 .. MaxFrames)),
         Len(Leaving(g)) = n, Leaving(g) = SubSeq(out', Len(out) + 1, Len(out')),
         \A i \in 1 .. n : Leaving(g)[i] = <<g, sent + i>>,
         started \in BOOLEAN, Show
  PROVE  /\ UNCHANGED mark
         /\ \/ /\ started \/ (n > 0 /\ sent = 0 /\ g \in Keyed)
               /\ started' = TRUE /\ absorbed' = absorbed
               /\ refused' = ~Rises(last_pts, Leaving(g))
               /\ last_pts' = IF n = 0 THEN last_pts ELSE Pts(Leaving(g)[n])
            \/ /\ ~started /\ ~(n > 0 /\ sent = 0 /\ g \in Keyed)
               /\ started' = FALSE
               /\ absorbed' = absorbed \cup {Leaving(g)[i] : i \in 1 .. n}
               /\ refused' = FALSE
               /\ last_pts' = last_pts
               /\ ~produced => ~produced'
<1> DEFINE leaving == Leaving(g)
           shown == Playable(leaving)
<1> HIDE DEF leaving
<1>0. /\ leaving \in Seq(Sequence \X (1 .. MaxFrames)) /\ Len(leaving) = n
      /\ \A i \in 1 .. n : leaving[i] = <<g, sent + i>>
  BY DEF leaving
<1>00. leaving = SubSeq(out', Len(out) + 1, Len(out'))
  BY DEF leaving
<1>1. DOMAIN leaving = 1 .. n /\ Range(leaving) = {leaving[i] : i \in 1 .. n}
  <2>1. DOMAIN leaving = 1 .. n
    BY <1>0, LenProperties
  <2>2. QED BY <2>1 DEF Range
<1>2. (n = 0) <=> (leaving = << >>)
  BY <1>0, EmptySeq
<1>3. /\ started' = (started \/ \E i \in DOMAIN leaving : Admits(leaving, i))
      /\ absorbed' = absorbed \cup (Range(leaving) \ Range(shown))
      /\ refused' = ~Rises(last_pts, shown)
      /\ last_pts' = IF shown = << >> THEN last_pts ELSE Pts(shown[Len(shown)])
      /\ produced' = (produced \/ shown # << >>)
      /\ UNCHANGED mark
  BY <1>00 DEF Show
<1>4. \A i \in 1 .. n : Sync(leaving[i]) <=> (i = 1 /\ sent = 0 /\ g \in Keyed)
  <2>1. TAKE i \in 1 .. n
  <2>2. leaving[i][1] = g /\ leaving[i][2] = sent + i
    BY <1>0
  <2>3. QED BY <2>2 DEF Sync
<1>5. CASE started \/ (n > 0 /\ sent = 0 /\ g \in Keyed)
  <2>1. started \/ (leaving # << >> => Sync(leaving[1]))
    <3>1. n > 0 => 1 \in 1 .. n
      OBVIOUS
    <3>2. QED BY <1>4, <1>5, <3>1
  <2>2. shown = leaving /\ \A i \in DOMAIN leaving : Admits(leaving, i)
    BY <1>0, <2>1, AllArePlayable
  <2>3. started' = TRUE
    <3>1. CASE started
      BY <1>3, <3>1
    <3>2. CASE n > 0
      <4>1. 1 \in DOMAIN leaving
        BY <1>1, <3>2
      <4>2. \E i \in DOMAIN leaving : Admits(leaving, i)
        BY <2>2, <4>1
      <4>3. QED BY <1>3, <4>2
    <3>3. QED BY <1>5, <3>1, <3>2
  <2>4. QED BY <1>2, <1>3, <1>5, <2>2, <2>3 DEF leaving
<1>6. CASE ~(started \/ (n > 0 /\ sent = 0 /\ g \in Keyed))
  <2>1. \A i \in DOMAIN leaving : ~Sync(leaving[i])
    <3>1. SUFFICES ASSUME NEW i \in 1 .. n, Sync(leaving[i]) PROVE FALSE
      BY <1>1
    <3>2. n > 0
      BY <3>1
    <3>3. i = 1 /\ sent = 0 /\ g \in Keyed
      BY <1>4, <3>1
    <3>4. QED BY <1>6, <3>2, <3>3
  <2>2. shown = << >> /\ \A i \in DOMAIN leaving : ~Admits(leaving, i)
    BY <1>0, <1>6, <2>1, NoneArePlayable
  <2>3. started' = FALSE /\ (~produced => ~produced')
    BY <1>3, <1>6, <2>2
  <2>4. Range(shown) = {}
    BY <2>2 DEF Range
  <2>5. Rises(last_pts, << >>)
    BY DEF Rises
  <2>6. QED BY <1>1, <1>3, <1>6, <2>2, <2>3, <2>4, <2>5 DEF leaving
<1>7. QED BY <1>5, <1>6 DEF leaving

\* What leaves is above all that went out before, and each frame above the last.
LEMMA LeavesAbove ==
  ASSUME TrackInv, OutRises, NEW g \in Sequence, NEW n \in Nat, NEW sent \in Nat,
         sent + n <= MaxFrames,
         out # << >> => (sent = 0 /\ Newest[1] < g) \/ Newest = <<g, sent>>
  PROVE  /\ \A i \in 1 .. n : Pts(<<g, sent + i>>) \in Nat
         /\ \A i, k \in 1 .. n : i < k => Pts(<<g, sent + i>>) < Pts(<<g, sent + k>>)
         /\ \A m \in 1 .. Len(out) :
              /\ Pts(out[m]) \in Nat /\ Pts(out[m]) <= Pts(Newest)
              /\ \A i \in 1 .. n : Pts(out[m]) < Pts(<<g, sent + i>>)
         /\ out # << >> => Newest = out[Len(out)] /\ Len(out) \in 1 .. Len(out)
<1> DEFINE Pair == Sequence \X (1 .. MaxFrames)
<1>1. out \in Seq(Pair) /\ Len(out) \in Nat /\ MaxFrames \in Nat
  BY HoldAssumption, LenProperties DEF TrackInv, TrackTypes
<1>2. ASSUME NEW i \in 1 .. n PROVE <<g, sent + i>> \in Pair
  <2>1. sent + i \in 1 .. MaxFrames
    BY <1>1, <1>2
  <2>2. QED BY <2>1
<1>3. ASSUME NEW i \in 1 .. n PROVE Pts(<<g, sent + i>>) \in Nat
  <2>1. g \in Nat /\ MaxFrames \in Nat /\ sent + i \in Nat
    BY <1>1, HoldAssumption DEF Sequence
  <2>2. g * MaxFrames \in Nat
    BY <2>1
  <2>3. QED BY <2>1, <2>2 DEF Pts
<1>4. ASSUME NEW i \in 1 .. n, NEW k \in 1 .. n, i < k
      PROVE  Pts(<<g, sent + i>>) < Pts(<<g, sent + k>>)
  <2> DEFINE a == <<g, sent + i>>
             b == <<g, sent + k>>
  <2>1. a[1] = b[1] /\ a[2] < b[2]
    <3>1. sent \in Nat /\ i \in Nat /\ k \in Nat
      BY HoldAssumption
    <3>2. QED BY <1>4, <3>1
  <2>2. a \in Pair /\ b \in Pair
    BY <1>2
  <2> HIDE DEF a, b
  <2>3. Pts(a) < Pts(b)
    BY <2>1, <2>2, PtsRises
  <2>4. QED BY <2>3 DEF a, b
<1>5. out # << >> => Newest = out[Len(out)] /\ Len(out) \in 1 .. Len(out) /\ Newest \in Pair
  BY <1>1, EmptySeq, LenProperties DEF Newest
<1>6. ASSUME NEW i \in 1 .. n, out # << >>
      PROVE  Pts(Newest) \in Nat /\ Pts(Newest) < Pts(<<g, sent + i>>)
  <2> DEFINE b == <<g, sent + i>>
  <2>1. b \in Pair /\ b[1] = g /\ b[2] = sent + i /\ Newest \in Pair
    BY <1>2, <1>5, <1>6
  <2>2. Newest[1] < b[1] \/ (Newest[1] = b[1] /\ Newest[2] < b[2])
    <3>1. CASE Newest[1] < g
      BY <2>1, <3>1
    <3>2. CASE Newest = <<g, sent>>
      <4>1. Newest[1] = g /\ Newest[2] = sent
        BY <3>2
      <4>2. QED BY <2>1, <4>1
    <3>3. QED BY <1>6, <3>1, <3>2
  <2> HIDE DEF b
  <2>3. Pts(Newest) \in Nat /\ Pts(Newest) < Pts(b)
    BY <2>1, <2>2, PtsRises
  <2>4. QED BY <2>3 DEF b
<1>7. ASSUME NEW m \in 1 .. Len(out)
      PROVE  Pts(out[m]) \in Nat /\ Pts(out[m]) <= Pts(Newest)
  <2>1. out # << >> /\ out[m] \in Pair /\ DOMAIN out = 1 .. Len(out)
    BY <1>1, <1>7, EmptySeq, LenProperties
  <2>2. PICK h \in Nat, k \in Nat : out[m] = <<h, k>>
    BY <2>1, <1>1, HoldAssumption DEF Sequence
  <2>3. Pts(out[m]) \in Nat
    <3>1. h * MaxFrames \in Nat
      BY <1>1, <2>2
    <3>2. QED BY <2>2, <3>1 DEF Pts
  <2>4. m < Len(out) => Pts(out[m]) < Pts(Newest)
    BY <1>1, <1>5, <1>7, <2>1 DEF OutRises
  <2>5. Pts(Newest) \in Nat
    <3>1. PICK a \in Nat, b \in Nat : Newest = <<a, b>>
      BY <1>1, <1>5, <2>1, HoldAssumption DEF Sequence
    <3>2. a * MaxFrames \in Nat
      BY <1>1
    <3>3. QED BY <3>1, <3>2 DEF Pts
  <2>6. QED BY <1>1, <1>5, <2>1, <2>3, <2>4, <2>5
<1>8. ASSUME NEW m \in 1 .. Len(out), NEW i \in 1 .. n
      PROVE  Pts(out[m]) < Pts(<<g, sent + i>>)
  <2>1. out # << >>
    BY <1>1, <1>8, EmptySeq
  <2>2. Pts(Newest) \in Nat /\ Pts(Newest) < Pts(<<g, sent + i>>)
    BY <1>6, <2>1
  <2>3. Pts(out[m]) \in Nat /\ Pts(out[m]) <= Pts(Newest)
    BY <1>7
  <2>4. Pts(<<g, sent + i>>) \in Nat
    BY <1>3
  <2>5. QED BY <2>2, <2>3, <2>4
<1>9. QED BY <1>3, <1>4, <1>5, <1>7, <1>8

-----------------------------------------------------------------------------
(* The gate.                                                               *)

\* What a release shows keeps to the invariant.
LEMMA ReleaseKeepsGate ==
  ASSUME GateInv, Release, Show, TrackInv'
  PROVE  GateInv'
<1>0. /\ TrackInv /\ OutRises /\ GateTypes /\ LastIsBehind /\ StartedAtSync
      /\ BeginsAtSync /\ AbsorbsNoGroup
      /\ started \in BOOLEAN /\ last_pts \in Nat \cup {None} /\ Len(out) \in Nat
      /\ mark.at \in 0 .. Len(out) /\ mark.at \in Nat
  <2>1. Len(out) \in Nat
    BY LenProperties DEF GateInv, TrackInv, TrackTypes
  <2>2. QED BY <2>1 DEF GateInv, GateTypes
<1>1. PICK g \in DOMAIN pending :
        LET n    == Len(pending[g].frames)
            sent == Sent(pending[g])
        IN  /\ g \in Sequence /\ n \in Nat /\ sent \in Nat
            /\ sent + n <= MaxFrames
            /\ out # << >> => (sent = 0 /\ Newest[1] < g) \/ Newest = <<g, sent>>
            /\ out = << >> => sent = 0
            /\ out' = out \o Leaving(g)
            /\ SubSeq(out', Len(out) + 1, Len(out')) = Leaving(g)
            /\ Leaving(g) \in Seq(Sequence \X (1 .. MaxFrames)) /\ Len(Leaving(g)) = n
            /\ \A i \in 1 .. n : Leaving(g)[i] = <<g, sent + i>>
            /\ out' \in Seq(Sequence \X (1 .. MaxFrames))
            /\ Len(out') = Len(out) + n
            /\ \A m \in 1 .. Len(out) : out'[m] = out[m]
            /\ \A i \in 1 .. n : out'[Len(out) + i] = <<g, sent + i>>
  BY <1>0, WhatLeaves
<1> DEFINE n       == Len(pending[g].frames)
           sent    == Sent(pending[g])
           L       == Len(out)
           leaving == Leaving(g)
           F(i)    == <<g, sent + i>>
           Passing == /\ started \/ (n > 0 /\ sent = 0 /\ g \in Keyed)
                      /\ started' = TRUE /\ absorbed' = absorbed
                      /\ refused' = ~Rises(last_pts, leaving)
                      /\ last_pts' = IF n = 0 THEN last_pts ELSE Pts(leaving[n])
           Kept    == /\ ~started /\ ~(n > 0 /\ sent = 0 /\ g \in Keyed)
                      /\ started' = FALSE
                      /\ absorbed' = absorbed \cup {leaving[i] : i \in 1 .. n}
                      /\ refused' = FALSE
                      /\ last_pts' = last_pts
<1>2. UNCHANGED mark /\ (Passing \/ Kept)
  <2>1. /\ g \in Sequence /\ n \in Nat /\ sent \in Nat
        /\ leaving \in Seq(Sequence \X (1 .. MaxFrames)) /\ Len(leaving) = n
        /\ leaving = SubSeq(out', Len(out) + 1, Len(out'))
        /\ \A i \in 1 .. n : leaving[i] = <<g, sent + i>>
    BY <1>1
  <2> HIDE DEF n, sent
  <2>2. QED BY <1>0, <2>1, ShowCases
<1>3. n = 0 => out' = out
  BY <1>0, <1>1, LeavingGoesOut
<1>4. /\ \A i \in 1 .. n : Pts(F(i)) \in Nat
      /\ \A i, k \in 1 .. n : i < k => Pts(F(i)) < Pts(F(k))
      /\ \A m \in 1 .. L : /\ Pts(out[m]) \in Nat /\ Pts(out[m]) <= Pts(Newest)
                           /\ \A i \in 1 .. n : Pts(out[m]) < Pts(F(i))
      /\ out # << >> => Newest = out[L] /\ L \in 1 .. L
  BY <1>0, <1>1, LeavesAbove
<1>5. /\ n \in Nat /\ sent \in Nat /\ L \in Nat /\ Len(out') = L + n /\ g \in Sequence
      /\ \A m \in 1 .. L : out'[m] = out[m]
      /\ \A i \in 1 .. n : out'[L + i] = F(i) /\ leaving[i] = F(i)
      /\ out # << >> => (sent = 0 /\ Newest[1] < g) \/ Newest = <<g, sent>>
      /\ out = << >> => sent = 0
      /\ \A i \in 1 .. n : Sync(F(i)) <=> sent + i = 1 /\ g \in Keyed
      /\ Len(leaving) = n /\ DOMAIN leaving = 1 .. n
  <2>1. \A i \in 1 .. n : F(i)[1] = g /\ F(i)[2] = sent + i
    OBVIOUS
  <2>2. \A i \in 1 .. n : Sync(F(i)) <=> sent + i = 1 /\ g \in Keyed
    BY <2>1 DEF Sync
  <2>3. DOMAIN leaving = 1 .. n
    BY <1>1, LenProperties
  <2>4. QED BY <1>0, <1>1, <2>2, <2>3
<1>6. out = << >> <=> L = 0
  BY EmptySeq DEF GateInv, TrackInv, TrackTypes
<1> HIDE DEF n, sent, L, leaving, F
\* A place in what went out is an old one or a new one.
<1>7. ASSUME NEW m \in 1 .. L + n
      PROVE  m \in 1 .. L \/ \E i \in 1 .. n : m = L + i
  <2>1. CASE m > L
    <3>1. m - L \in 1 .. n /\ m = L + (m - L)
      BY <1>5, <2>1
    <3>2. QED BY <3>1
  <2>2. QED BY <1>5, <2>1
<1>8. \A i \in 1 .. n : L + i \in 1 .. L + n /\ L < L + i
  BY <1>5
<1>9. \A m \in 1 .. L : m \in 1 .. L + n
  BY <1>5
\* What leaves was not absorbed before.
<1>10. ASSUME NEW i \in 1 .. n PROVE F(i) \notin absorbed
  <2>1. SUFFICES ASSUME F(i) \in absorbed PROVE FALSE
    OBVIOUS
  <2>2. PICK m \in 1 .. L : F(i) = out[m]
    BY <1>0, <2>1 DEF GateTypes, L
  <2>3. Pts(out[m]) < Pts(out[m]) /\ Pts(out[m]) \in Nat
    BY <1>4, <2>2
  <2>4. QED BY <2>3
<1>11. ASSUME NEW m \in 1 .. L PROVE out'[m] = out[m] /\ (out[m] \in absorbed' <=> out[m] \in absorbed)
  <2>1. CASE Passing
    BY <1>5, <2>1
  <2>2. CASE Kept
    <3>1. out[m] \notin {leaving[i] : i \in 1 .. n}
      <4>1. SUFFICES ASSUME NEW i \in 1 .. n, out[m] = F(i) PROVE FALSE
        BY <1>5
      <4>2. Pts(out[m]) < Pts(out[m]) /\ Pts(out[m]) \in Nat
        BY <1>4, <4>1
      <4>3. QED BY <4>2
    <3>2. QED BY <1>5, <2>2, <3>1
  <2>3. QED BY <1>2, <2>1, <2>2
<1>12. ASSUME NEW i \in 1 .. n PROVE F(i) \in absorbed' <=> Kept
  <2>1. CASE Passing
    BY <1>10, <2>1
  <2>2. CASE Kept
    BY <1>5, <2>2
  <2>3. QED BY <1>2, <2>1, <2>2
<1>13. OutRises'
  <2>1. SUFFICES ASSUME NEW m \in 1 .. L + n, NEW k \in 1 .. L + n, m < k
                 PROVE  Pts(out'[m]) < Pts(out'[k])
    BY <1>5 DEF OutRises, Pts
  <2>2. CASE m \in 1 .. L /\ k \in 1 .. L
    BY <1>0, <1>5, <2>1, <2>2 DEF OutRises, L
  <2>3. ASSUME m \in 1 .. L, NEW i \in 1 .. n, k = L + i
        PROVE  Pts(out'[m]) < Pts(out'[k])
    BY <1>4, <1>5, <2>3
  <2>4. ASSUME NEW h \in 1 .. n, m = L + h, NEW i \in 1 .. n, k = L + i
        PROVE  Pts(out'[m]) < Pts(out'[k])
    <3>1. h < i
      BY <1>5, <2>1, <2>4
    <3>2. QED BY <1>4, <1>5, <2>4, <3>1
  <2>5. ASSUME NEW h \in 1 .. n, m = L + h, k \in 1 .. L
        PROVE  FALSE
    BY <1>5, <2>1, <2>5
  <2>6. QED BY <1>7, <2>1, <2>2, <2>3, <2>4, <2>5
<1>14. GateTypes'
  <2>1. started' \in BOOLEAN /\ mark'.at \in 0 .. L + n
    <3>1. started' \in BOOLEAN
      BY <1>2
    <3>2. mark'.at = mark.at
      BY <1>2
    <3>3. mark.at \in 0 .. L + n
      BY <1>0, <1>5 DEF L
    <3>4. QED BY <3>1, <3>2, <3>3
  <2>2. last_pts' \in Nat \cup {None}
    <3>1. n # 0 => n \in 1 .. n
      BY <1>5
    <3>2. QED BY <1>0, <1>2, <1>4, <1>5, <3>1
  <2>3. ASSUME NEW f \in absorbed' PROVE \E m \in 1 .. L + n : f = out'[m]
    <3>1. CASE f \in absorbed
      <4>1. PICK m \in 1 .. L : f = out[m]
        BY <1>0, <3>1 DEF GateTypes, L
      <4>2. QED BY <1>5, <1>9, <4>1
    <3>2. CASE f \notin absorbed
      <4>1. PICK i \in 1 .. n : f = leaving[i]
        BY <1>2, <2>3, <3>2
      <4>2. QED BY <1>5, <1>8, <4>1
    <3>3. QED BY <3>1, <3>2
  <2>4. QED BY <1>5, <2>1, <2>2, <2>3 DEF GateTypes
<1>15. last_pts # None => out # << >> /\ \A m \in 1 .. L : m = L => last_pts <= Pts(out[m])
  BY <1>0, <1>4 DEF LastIsBehind
<1>16. NeverRefused'
  <2>1. CASE Kept
    BY <2>1 DEF NeverRefused
  <2>2. CASE Passing
    <3>1. Rises(last_pts, leaving)
      <4>1. SUFFICES ASSUME NEW i \in 1 .. n
                     PROVE  LET before == IF i = 1 THEN last_pts ELSE Pts(leaving[i - 1])
                            IN  before # None => Pts(leaving[i]) > before
        BY <1>5 DEF Rises
      <4>2. CASE i = 1
        <5>1. SUFFICES ASSUME last_pts # None PROVE Pts(F(i)) > last_pts
          BY <1>5, <4>2
        <5>2. L \in 1 .. L /\ last_pts <= Pts(out[L]) /\ last_pts \in Nat
          BY <1>0, <1>4, <1>15, <5>1
        <5>3. Pts(out[L]) < Pts(F(i)) /\ Pts(out[L]) \in Nat /\ Pts(F(i)) \in Nat
          BY <1>4, <5>2
        <5>4. QED BY <5>2, <5>3
      <4>3. CASE i # 1
        <5>1. i - 1 \in 1 .. n /\ i - 1 < i
          BY <1>5, <4>3
        <5>2. /\ Pts(F(i - 1)) < Pts(F(i)) /\ leaving[i - 1] = F(i - 1) /\ leaving[i] = F(i)
              /\ Pts(F(i - 1)) \in Nat /\ Pts(F(i)) \in Nat
          BY <1>4, <1>5, <5>1
        <5>3. QED BY <4>3, <5>2
      <4>4. QED BY <4>2, <4>3
    <3>2. QED BY <2>2, <3>1 DEF NeverRefused
  <2>3. QED BY <1>2, <2>1, <2>2
<1>17. LastIsBehind'
  <2>1. SUFFICES ASSUME last_pts' # None
                 PROVE  out' # << >> /\ last_pts' <= Pts(out'[L + n])
    BY <1>5 DEF LastIsBehind, Newest, Pts
  <2>2. CASE n = 0
    <3>1. out' = out /\ last_pts' = last_pts /\ L + n = L
      BY <1>2, <1>3, <1>5, <2>2
    <3>2. QED BY <1>4, <1>15, <2>1, <3>1
  <2>3. CASE n # 0
    <3>1. n \in 1 .. n /\ out'[L + n] = F(n) /\ leaving[n] = F(n) /\ Pts(F(n)) \in Nat
      BY <1>4, <1>5, <2>3
    <3>2. out' # << >>
      <4>1. Len(out') # 0
        BY <1>5, <2>3
      <4>2. QED BY <4>1
    <3>3. CASE Passing
      BY <2>3, <3>1, <3>2, <3>3
    <3>4. CASE Kept
      <4>1. L \in 1 .. L /\ last_pts <= Pts(out[L]) /\ last_pts \in Nat
        BY <1>0, <1>4, <1>15, <2>1, <3>4
      <4>2. Pts(out[L]) < Pts(F(n)) /\ Pts(out[L]) \in Nat
        BY <1>4, <3>1, <4>1
      <4>3. last_pts <= Pts(F(n))
        BY <3>1, <4>1, <4>2
      <4>4. QED BY <3>1, <3>2, <3>4, <4>3
    <3>5. QED BY <1>2, <3>3, <3>4
  <2>4. QED BY <2>2, <2>3
\* The places since the track was taken up, old and new.
<1>18. /\ mark'.at = mark.at
       /\ \A m \in mark.at + 1 .. L : m \in 1 .. L /\ m \in mark.at + 1 .. L + n
       /\ \A i \in 1 .. n : L + i \in mark.at + 1 .. L + n
       /\ \A m \in mark.at + 1 .. L + n :
            m \in mark.at + 1 .. L \/ \E i \in 1 .. n : m = L + i
  <2>1. mark'.at = mark.at
    BY <1>2
  <2>2. ASSUME NEW m \in mark.at + 1 .. L PROVE m \in 1 .. L /\ m \in mark.at + 1 .. L + n
    BY <1>0, <1>5
  <2>3. ASSUME NEW i \in 1 .. n PROVE L + i \in mark.at + 1 .. L + n
    BY <1>0, <1>5 DEF L
  <2>4. ASSUME NEW m \in mark.at + 1 .. L + n
        PROVE  m \in mark.at + 1 .. L \/ \E i \in 1 .. n : m = L + i
    <3>1. m \in 1 .. L + n
      BY <1>0, <1>5
    <3>2. m \in 1 .. L => m \in mark.at + 1 .. L
      BY <1>0, <1>5
    <3>3. QED BY <1>7, <3>1, <3>2
  <2>5. QED BY <2>1, <2>2, <2>3, <2>4
<1>19. StartedAtSync'
  <2>1. CASE Kept
    <3>1. SUFFICES ASSUME NEW m \in mark.at + 1 .. L + n PROVE out'[m] \in absorbed'
      BY <1>5, <1>18, <2>1 DEF StartedAtSync
    <3>2. CASE m \in mark.at + 1 .. L
      BY <1>0, <1>11, <1>18, <2>1, <3>2 DEF StartedAtSync, L
    <3>3. ASSUME NEW i \in 1 .. n, m = L + i PROVE out'[m] \in absorbed'
      BY <1>5, <1>12, <2>1, <3>3
    <3>4. QED BY <1>18, <3>2, <3>3
  <2>2. CASE Passing
    <3>1. SUFFICES \E m \in mark.at + 1 .. L + n : Sync(out'[m]) /\ out'[m] \notin absorbed'
      BY <1>5, <1>18, <2>2 DEF StartedAtSync, Sync
    <3>2. CASE started
      <4>1. PICK m \in mark.at + 1 .. L : Sync(out[m]) /\ out[m] \notin absorbed
        BY <1>0, <3>2 DEF StartedAtSync, L
      <4>2. QED BY <1>11, <1>18, <4>1
    <3>3. CASE ~started
      <4>1. 1 \in 1 .. n /\ sent + 1 = 1 /\ g \in Keyed
        BY <1>5, <2>2, <3>3
      <4>2. Sync(F(1)) /\ F(1) \notin absorbed' /\ out'[L + 1] = F(1)
        BY <1>5, <1>10, <2>2, <4>1
      <4>3. QED BY <1>18, <4>1, <4>2
    <3>4. QED BY <3>2, <3>3
  <2>3. QED BY <1>2, <2>1, <2>2
<1>20. BeginsAtSync'
  <2>1. SUFFICES ASSUME NEW k \in mark.at + 1 .. L + n, out'[k] \notin absorbed'
                 PROVE  \E m \in mark.at + 1 .. k : Sync(out'[m]) /\ out'[m] \notin absorbed'
    BY <1>5, <1>18 DEF BeginsAtSync, Sync
  <2>2. CASE k \in mark.at + 1 .. L
    <3>1. out[k] \notin absorbed
      BY <1>11, <1>18, <2>1, <2>2
    <3>2. PICK m \in mark.at + 1 .. k : Sync(out[m]) /\ out[m] \notin absorbed
      BY <1>0, <2>2, <3>1 DEF BeginsAtSync, L
    <3>3. m \in 1 .. L
      BY <1>0, <1>5, <2>2, <3>2
    <3>4. QED BY <1>11, <3>2, <3>3
  <2>3. ASSUME NEW i \in 1 .. n, k = L + i
        PROVE  \E m \in mark.at + 1 .. k : Sync(out'[m]) /\ out'[m] \notin absorbed'
    <3>1. Passing
      BY <1>2, <1>5, <1>12, <2>1, <2>3
    <3>2. PICK m \in mark.at + 1 .. L + n : Sync(out'[m]) /\ out'[m] \notin absorbed'
      BY <1>5, <1>18, <1>19, <3>1 DEF StartedAtSync, Sync
    <3>3. CASE started
      <4>1. PICK h \in mark.at + 1 .. L : Sync(out[h]) /\ out[h] \notin absorbed
        BY <1>0, <3>3 DEF StartedAtSync, L
      <4>2. h \in mark.at + 1 .. k
        BY <1>0, <1>5, <2>3, <4>1
      <4>3. QED BY <1>11, <1>18, <4>1, <4>2
    <3>4. CASE ~started
      <4>1. 1 \in 1 .. n /\ sent + 1 = 1 /\ g \in Keyed
        BY <1>5, <3>1, <3>4
      <4>2. Sync(F(1)) /\ F(1) \notin absorbed' /\ out'[L + 1] = F(1)
        BY <1>5, <1>10, <3>1, <4>1
      <4>3. L + 1 \in mark.at + 1 .. k
        <5>1. L \in Nat /\ mark.at \in 0 .. L /\ i \in Nat /\ 1 <= i /\ mark.at \in Nat
          BY <1>0, <1>5, <2>3 DEF L
        <5>2. QED BY <2>3, <5>1
      <4>4. QED BY <4>2, <4>3
    <3>5. QED BY <3>3, <3>4
  <2>4. QED BY <1>18, <2>1, <2>2, <2>3
<1>21. AbsorbsNoGroup'
  <2>1. SUFFICES ASSUME NEW k \in mark.at + 1 .. L + n, out'[k] \in absorbed', out'[k][1] \in Keyed
                 PROVE  mark.at > 0 /\ out'[mark.at][1] = out'[k][1]
    BY <1>5, <1>18 DEF AbsorbsNoGroup
  <2>2. mark.at > 0 => mark.at \in 1 .. L /\ out'[mark.at] = out[mark.at]
    <3>1. mark.at > 0 => mark.at \in 1 .. L
      BY <1>0 DEF L
    <3>2. QED BY <1>5, <3>1
  <2>3. CASE k \in mark.at + 1 .. L
    <3>1. k \in 1 .. L /\ out'[k] = out[k] /\ out[k] \in absorbed
      BY <1>11, <1>18, <2>1, <2>3
    <3>2. mark.at > 0 /\ out[mark.at][1] = out[k][1]
      BY <1>0, <2>1, <2>3, <3>1 DEF AbsorbsNoGroup, L
    <3>3. QED BY <2>2, <3>1, <3>2
  <2>4. ASSUME NEW i \in 1 .. n, k = L + i
        PROVE  mark.at > 0 /\ out'[mark.at][1] = out'[k][1]
    <3>1. Kept /\ out'[k] = F(i)
      BY <1>5, <1>12, <2>1, <2>4
    <3>2. F(i)[1] = g
      BY DEF F
    <3>3. g \in Keyed /\ out'[k][1] = g
      BY <2>1, <3>1, <3>2
    <3>4. n > 0 /\ sent # 0
      BY <1>5, <3>1, <3>3
    <3>5. out # << >> /\ Newest = <<g, sent>>
      BY <1>5, <3>4
    <3>6. L \in 1 .. L /\ out[L] = <<g, sent>>
      BY <1>4, <3>5
    <3>7. out[L][1] = g
      BY <3>6
    <3>8. CASE mark.at = L
      BY <2>2, <3>3, <3>6, <3>7, <3>8
    <3>9. CASE mark.at # L
      <4>1. L \in mark.at + 1 .. L
        BY <1>0, <1>5, <3>9 DEF L
      <4>2. out[L] \in absorbed
        BY <1>0, <3>1, <4>1 DEF StartedAtSync, L
      <4>3. mark.at > 0 /\ out[mark.at][1] = g
        BY <1>0, <3>3, <3>7, <4>1, <4>2 DEF AbsorbsNoGroup, L
      <4>4. QED BY <2>2, <3>3, <4>3
    <3>10. QED BY <3>8, <3>9
  <2>5. QED BY <1>18, <2>1, <2>3, <2>4
<1>22. QED BY <1>13, <1>14, <1>16, <1>17, <1>19, <1>20, <1>21 DEF GateInv

\* A step that hands nothing on and does not take the track up again.
LEMMA QuietKeepsGate ==
  ASSUME GateInv, TrackInv', UNCHANGED <<out, pictured>>
  PROVE  GateInv'
BY DEF GateInv, OutRises, GateTypes, LastIsBehind, Newest, StartedAtSync, BeginsAtSync,
       AbsorbsNoGroup, NeverRefused, pictured, gate, Pts, Sync

\* Taken up again, the gate is closed, and nothing has gone out since.
LEMMA TakenUpKeepsGate ==
  ASSUME GateInv, TrackInv', TakenUp
  PROVE  GateInv'
<1>1. /\ UNCHANGED <<out, refused, absorbed>>
      /\ started' = FALSE /\ last_pts' = None
      /\ mark' = [at |-> Len(out), again |-> TRUE]
  BY DEF TakenUp, Resume, Resubscribe, past, TakeUpGate
<1>2. mark'.at = Len(out) /\ Len(out) \in Nat
  BY <1>1, LenProperties DEF GateInv, TrackInv, TrackTypes
<1>3. mark'.at + 1 .. Len(out') = {} /\ mark'.at \in 0 .. Len(out')
  BY <1>1, <1>2
<1>4. OutRises' /\ GateTypes' /\ LastIsBehind' /\ NeverRefused'
  BY <1>1, <1>3 DEF GateInv, OutRises, GateTypes, LastIsBehind, NeverRefused, Pts
<1>5. StartedAtSync' /\ BeginsAtSync' /\ AbsorbsNoGroup'
  BY <1>1, <1>3 DEF StartedAtSync, BeginsAtSync, AbsorbsNoGroup
<1>6. QED BY <1>4, <1>5 DEF GateInv

\* Nothing has gone out at the start.
LEMMA InitGate == PictureInit => GateInv
<1> SUFFICES ASSUME PictureInit PROVE GateInv
  OBVIOUS
<1>1. TrackInv
  BY InitTracks DEF PictureInit
<1>2. /\ out = << >> /\ Len(out) = 0 /\ started = FALSE /\ last_pts = None /\ refused = FALSE
      /\ absorbed = {} /\ mark = [at |-> 0, again |-> FALSE]
  BY DEF PictureInit, TrackInit
<1>3. mark.at = 0 /\ mark.at + 1 .. Len(out) = {} /\ 1 .. Len(out) = {} /\ 0 \in 0 .. Len(out)
  BY <1>2
<1>4. OutRises /\ GateTypes /\ LastIsBehind /\ NeverRefused
  BY <1>2, <1>3 DEF OutRises, GateTypes, LastIsBehind, NeverRefused
<1>5. StartedAtSync /\ BeginsAtSync /\ AbsorbsNoGroup
  BY <1>2, <1>3 DEF StartedAtSync, BeginsAtSync, AbsorbsNoGroup
<1>6. QED BY <1>1, <1>4, <1>5 DEF GateInv

\* Each step keeps to the invariant.
LEMMA StepKeepsGate == GateInv /\ [PictureNext]_pictures => GateInv'
<1> SUFFICES ASSUME GateInv, [PictureNext]_pictures PROVE GateInv'
  OBVIOUS
<1>1. TrackInv'
  BY PictureStepIsTracks, StepTracks DEF GateInv
<1>2. CASE Release /\ Show
  BY <1>1, <1>2, ReleaseKeepsGate
<1>3. CASE TakenUp
  BY <1>1, <1>3, TakenUpKeepsGate
<1>4. CASE /\ \/ Publish
              \/ ReceiveGroup \/ SubscriptionFrame \/ SubscriptionEnd \/ Finish \/ Break
              \/ Resubscribe /\ reader' = "lost"
              \/ Answer \/ StartRelease \/ ReleaseEnds \/ Clock
           /\ UNCHANGED pictured
  <2>1. UNCHANGED out
    BY <1>4 DEF Publish, ReceiveGroup, SubscriptionFrame, SubscriptionEnd, Finish, Break,
                Resubscribe, Answer, StartRelease, ReleaseEnds, Clock, past
  <2>2. QED BY <1>1, <1>4, <2>1, QuietKeepsGate
<1>5. CASE UNCHANGED pictures
  BY <1>1, <1>5, QuietKeepsGate DEF pictures, all, past
<1>6. QED BY <1>2, <1>3, <1>4, <1>5 DEF PictureNext

LEMMA GateInvariant == PictureSpec => []GateInv
BY InitGate, StepKeepsGate, PTL DEF PictureSpec

\* What reaches the pad begins at a sync sample, at the join and whenever the track
\* is taken up again: no group of the old subscription that is still held, and no
\* second copy, brings anything by before one.
THEOREM PicturesBeginAtSync == PictureSpec => []BeginsAtSync
<1>1. GateInv => BeginsAtSync
  BY DEF GateInv
<1>2. QED BY <1>1, GateInvariant, PTL

\* Of a group that opens at a sync sample the gate absorbs frames only when the track
\* was taken up again in the middle of that group.
THEOREM GroupsAreNotAbsorbed == PictureSpec => []AbsorbsNoGroup
<1>1. GateInv => AbsorbsNoGroup
  BY DEF GateInv
<1>2. QED BY <1>1, GateInvariant, PTL

\* No sample of a track whose encoder does not reorder is refused, however often its
\* groups are repeated, fetched, broken off and taken up again.
THEOREM SamplesAreNotRefused == PictureSpec => []NeverRefused
<1>1. GateInv => NeverRefused
  BY DEF GateInv
<1>2. QED BY <1>1, GateInvariant, PTL

-----------------------------------------------------------------------------
(* The join.                                                               *)

\* A held group is said to be one a decoder can start at just if it is.
SaysIfKeyed ==
  \A s \in DOMAIN pending :
    pending[s].decodable = IF s \in Keyed /\ pending[s].have > 0 THEN "yes" ELSE "no"

\* The last release begins with no fetch to wait for, and asks for nothing.
LastIsAnswered == pull = "last" => fetching = None

\* Before the join nothing has gone out.  A live join opens the gate, or it is the
\* end of the track and no group that opens the gate is held.
OpensTheGate ==
  start = "Live" /\ ~mark.again =>
    IF cursor = None THEN absorbed = {} /\ ~started /\ ~produced
    ELSE \/ started /\ absorbed = {}
         \/ /\ pull = "last" /\ ~started /\ ~produced
            /\ \A s \in DOMAIN pending : pending[s].decodable # "yes"
         \/ pull = "over"

JoinInv == GateInv /\ WholeInv /\ SaysIfKeyed /\ LastIsAnswered /\ OpensTheGate

\* More of a group is at least as much of it.
LEMMA MoreIsMore ==
  ASSUME HoldInv, NEW s \in Sequence, NEW frames \in Seq(Frame),
         NEW decides \in Decodable, NEW complete \in BOOLEAN,
         ArriveMore(s, frames, decides, complete)
  PROVE  pending'[s].have \in Nat /\ pending'[s].have >= pending[s].have
<1> DEFINE group == pending[s]
           n     == Len(frames)
           whole == complete /\ frames # << >>
           seen  == IF whole THEN 0 ELSE group.again
           over  == PassedOver(n, seen, group.have)
           fresh == SubSeq(frames, over + 1, n)
<1>1. s \in DOMAIN pending /\ n \in Nat
  BY LenProperties DEF ArriveMore
<1>2. /\ group.have \in Nat /\ group.again \in Nat \cup {None}
      /\ group.again # None => group.again <= group.have
  BY <1>1, GroupFacts
<1>3. seen \in Nat \cup {None} /\ (seen # None => seen <= group.have)
  BY <1>2
<1> HIDE DEF seen
<1>4. over \in 0 .. n
  BY <1>1, <1>2, <1>3, PassedOverBounds
<1> HIDE DEF over
<1>5. Len(fresh) \in Nat
  BY <1>1, <1>4, FreshFrames
<1>6. pending'[s].have = group.have + Len(fresh)
  BY DEF ArriveMore, Hold, fresh, over, seen
<1> HIDE DEF fresh
<1>7. QED BY <1>2, <1>5, <1>6

\* An arrival keeps to it: a group's first frame says whether a decoder can start at
\* it, and no later frame says anything else.
LEMMA ArrivalSays ==
  ASSUME HoldInv, SaysIfKeyed, HeldFits, NEW s \in Sequence, NEW frames \in Seq(Frame),
         NEW decides \in Decodable, NEW complete \in BOOLEAN,
         Arrive(s, frames, decides, complete), size \in [Sequence -> 0 .. MaxFrames],
         s \notin passing /\ ~HereOrPassed(s) =>
           decides = IF s \in Keyed /\ Len(frames) > 0 THEN "yes" ELSE "no"
  PROVE  SaysIfKeyed'
<1>1. CASE ArriveLetGo(s, complete) \/ ArriveRepeated(s, complete) \/ ArriveLate(s, complete)
  <2>1. UNCHANGED pending
    BY <1>1 DEF ArriveLetGo, ArriveRepeated, ArriveLate
  <2>2. QED BY <2>1 DEF SaysIfKeyed
<1>2. CASE ArriveMore(s, frames, decides, complete)
  <2>1. /\ s \in DOMAIN pending /\ ~pending[s].complete
        /\ DOMAIN pending' = DOMAIN pending
        /\ \A t \in DOMAIN pending : t # s => pending'[t] = pending[t]
    BY <1>2 DEF ArriveMore, Hold
  <2>2. pending[s].decodable # "unknown"
    BY <2>1 DEF SaysIfKeyed
  <2>3. pending'[s].decodable = pending[s].decodable
    BY <1>2, <2>2 DEF ArriveMore, Hold
  <2>4. pending[s].have > 0 /\ pending'[s].have > 0
    <3>1. pending[s].have \in 1 .. size[s] /\ pending[s].have \in Nat
      BY <2>1, GroupFacts DEF HeldFits
    <3>2. pending'[s].have \in Nat /\ pending'[s].have >= pending[s].have
      BY <1>2, MoreIsMore
    <3>3. QED BY <3>1, <3>2, HoldAssumption
  <2>5. QED BY <2>1, <2>3, <2>4 DEF SaysIfKeyed
<1>3. CASE ArriveNew(s, frames, decides, complete)
  <2>1. /\ s \notin passing /\ s \notin DOMAIN pending /\ (cursor # None => s >= cursor)
        /\ DOMAIN pending' = DOMAIN pending \cup {s}
        /\ \A t \in DOMAIN pending : pending'[t] = pending[t]
        /\ pending'[s].have = Len(frames)
        /\ pending'[s].decodable = IF complete /\ decides = "unknown" THEN "no" ELSE decides
    BY <1>3 DEF ArriveNew, Hold
  <2>2. ~HereOrPassed(s)
    BY <2>1 DEF HereOrPassed, HoldInv, TypeOK, Sequence
  <2>3. QED BY <2>1, <2>2 DEF SaysIfKeyed
<1>4. QED BY <1>1, <1>2, <1>3 DEF Arrive

\* What is handed on says what it said.
LEMMA HandOnSays ==
  ASSUME HoldInv, NEW g, NEW skipped, NEW tally, NEW last \in BOOLEAN,
         HandsOn(g, skipped, tally, last)
  PROVE  /\ DOMAIN pending' \subseteq DOMAIN pending
         /\ \A s \in DOMAIN pending' : /\ pending'[s].decodable = pending[s].decodable
                                       /\ pending'[s].have = pending[s].have
         /\ cursor' # None
<1> DEFINE left == DOMAIN pending \ skipped
<1>1. g \in left /\ pending[g] \in Held /\ g \in Nat /\ g \in DOMAIN pending
  BY GroupFacts DEF HandsOn
<1>2. CASE pending' = Restrict(pending, left \ {g}) /\ cursor' = g + 1
  BY <1>1, <1>2, HoldAssumption DEF Restrict
<1>3. CASE pending' = [Restrict(pending, left) EXCEPT ![g].frames = << >>] /\ cursor' = g
  <2>1. pending' = [t \in left |-> IF t = g THEN [pending[g] EXCEPT !.frames = << >>]
                                            ELSE pending[t]]
    BY <1>1, <1>3 DEF Restrict
  <2>2. pending'[g] = [pending[g] EXCEPT !.frames = << >>]
    BY <1>1, <2>1
  <2>3. pending'[g].have = pending[g].have /\ pending'[g].decodable = pending[g].decodable
    BY <1>1, <2>2 DEF Held
  <2>4. DOMAIN pending' = left /\ \A s \in left : s # g => pending'[s] = pending[s]
    BY <2>1
  <2>5. cursor' # None
    BY <1>1, <1>3, HoldAssumption
  <2>6. ASSUME NEW s \in DOMAIN pending'
        PROVE  /\ s \in DOMAIN pending
               /\ pending'[s].decodable = pending[s].decodable
               /\ pending'[s].have = pending[s].have
    <3>1. s \in left
      BY <2>4
    <3>2. CASE s = g
      BY <1>1, <2>3, <3>2
    <3>3. CASE s # g
      BY <2>4, <3>1, <3>3
    <3>4. QED BY <3>2, <3>3
  <2>7. QED BY <2>5, <2>6
<1>4. QED BY <1>2, <1>3 DEF HandsOn, HandOn

\* A take leaves what is held saying what it said, and a cursor once fixed is fixed.
LEMMA TakeSays ==
  ASSUME HoldInv, NEW last \in BOOLEAN, Take(last)
  PROVE  /\ SaysIfKeyed => SaysIfKeyed'
         /\ DOMAIN pending' \subseteq DOMAIN pending
         /\ \A s \in DOMAIN pending' : pending'[s].decodable = pending[s].decodable
         /\ cursor # None => cursor' # None
<1>1. CASE UNCHANGED <<pending, cursor>>
  BY <1>1 DEF SaysIfKeyed
<1>2. ASSUME NEW skipped, NEW tally, HandsOn(Turn, skipped, tally, last)
      PROVE  /\ DOMAIN pending' \subseteq DOMAIN pending
             /\ \A s \in DOMAIN pending' : /\ pending'[s].decodable = pending[s].decodable
                                           /\ pending'[s].have = pending[s].have
             /\ cursor' # None
  <2>1. PICK g : g = Turn
    OBVIOUS
  <2>2. HandsOn(g, skipped, tally, last)
    BY <1>2, <2>1
  <2>3. QED BY <2>2, HandOnSays
<1>3. QED BY <1>1, <1>2, TakeHandsOnTurn DEF SaysIfKeyed

\* The last release asks for nothing: no hole outlasts it.
LEMMA LastAsksNothing ==
  ASSUME Take(TRUE), fetching = None
  PROVE  fetching' = None
<1>1. ~TakeWaits(TRUE)
  BY DEF TakeWaits, Reason
<1>2. QED
  BY <1>1 DEF Take, TakeLiveJoin, TakeLiveEnd, TakeBacklogJoin, TakeAtCursor, TakeEmpty,
              TakeStepsOver, hole, NoHole

\* A live join hands on what opens the gate.
LEMMA JoinOpens ==
  ASSUME JoinInv, Release, Show, start = "Live", cursor = None, ~mark.again
  PROVE  \/ started' /\ absorbed' = {}
         \/ /\ pull = "last" /\ ~started' /\ ~produced'
            /\ \A s \in DOMAIN pending : pending[s].decodable # "yes"
<1>0. /\ TrackInv /\ HoldInv /\ JoinIsLowest /\ SaysIfKeyed /\ started \in BOOLEAN
      /\ absorbed = {} /\ ~started /\ ~produced
  BY DEF JoinInv, GateInv, GateTypes, TrackInv, HoldInv, OpensTheGate
<1>1. PICK g \in DOMAIN pending :
        LET n    == Len(pending[g].frames)
            sent == Sent(pending[g])
        IN  /\ g = Turn /\ g \in Sequence /\ n \in Nat /\ sent \in Nat
            /\ pending[g].have = sent + n
            /\ SubSeq(out', Len(out) + 1, Len(out')) = Leaving(g)
            /\ Leaving(g) \in Seq(Sequence \X (1 .. MaxFrames)) /\ Len(Leaving(g)) = n
            /\ \A i \in 1 .. n : Leaving(g)[i] = <<g, sent + i>>
  BY <1>0, WhatLeaves
<1> DEFINE n    == Len(pending[g].frames)
           sent == Sent(pending[g])
<1>2. cursor \notin DOMAIN pending
  BY HoldAssumption DEF HoldInv, TypeOK, Sequence, JoinInv, GateInv, TrackInv
<1>3. pending[g].have = n /\ sent = 0
  <2>1. n = pending[g].have
    BY <1>0, <1>2, NothingWent
  <2>2. QED BY <1>1, <2>1 DEF Sent
<1>4. \/ /\ started \/ (n > 0 /\ sent = 0 /\ g \in Keyed)
         /\ started' = TRUE /\ absorbed' = absorbed
      \/ /\ ~started /\ ~(n > 0 /\ sent = 0 /\ g \in Keyed)
         /\ started' = FALSE
         /\ ~produced => ~produced'
  <2>1. /\ g \in Sequence /\ n \in Nat /\ sent \in Nat
        /\ Leaving(g) \in Seq(Sequence \X (1 .. MaxFrames)) /\ Len(Leaving(g)) = n
        /\ Leaving(g) = SubSeq(out', Len(out) + 1, Len(out'))
        /\ \A i \in 1 .. n : Leaving(g)[i] = <<g, sent + i>>
    BY <1>1
  <2> HIDE DEF n, sent
  <2>2. QED BY <1>0, <2>1, ShowCases
<1> HIDE DEF n, sent
<1>5. pending[g].decodable = "yes" <=> g \in Keyed /\ n > 0
  BY <1>0, <1>3 DEF SaysIfKeyed
<1>6. CASE join_ready # None
  <2>1. g = join_ready
    BY <1>1, <1>6 DEF Turn
  <2>2. pending[g].decodable = "yes"
    BY <1>0, <1>6, <2>1 DEF JoinIsLowest, Oldest
  <2>3. QED BY <1>0, <1>3, <1>4, <1>5, <2>2
<1>7. CASE join_ready = None
  <2>1. \A s \in DOMAIN pending : pending[s].decodable # "yes"
    <3>1. {s \in DOMAIN pending : pending[s].decodable = "yes"} = {}
      <4>1. SUFFICES ASSUME {s \in DOMAIN pending : pending[s].decodable = "yes"} # {}
                     PROVE  FALSE
        OBVIOUS
      <4>2. join_ready \in {s \in DOMAIN pending : pending[s].decodable = "yes"}
        BY <1>0, <4>1 DEF JoinIsLowest, Oldest
      <4>3. None \notin DOMAIN pending
        BY <1>2
      <4>4. QED BY <1>7, <4>2, <4>3
    <3>2. QED BY <3>1
  <2>2. pull = "last"
    <3>1. Take(pull = "last") /\ pending' # pending
      BY DEF Release
    <3>2. TakeLiveEnd(pull = "last")
      BY <1>7, <3>1 DEF Take, TakeLiveJoin, TakeBacklogJoin, TakeAtCursor, TakeEmpty,
                        TakeWaits, TakeStepsOver, AtHole
    <3>3. QED BY <3>2 DEF TakeLiveEnd
  <2>3. ~(g \in Keyed /\ n > 0)
    BY <1>5, <2>1
  <2>4. QED BY <1>0, <1>4, <2>1, <2>2, <2>3
<1>8. QED BY <1>6, <1>7

\* Once the cursor is fixed, the gate is open, or nothing that is held opens it.
LEMMA JoinedStays ==
  ASSUME JoinInv, Release, Show, start = "Live", cursor # None, ~mark.again
  PROVE  \/ started' /\ absorbed' = {}
         \/ /\ pull = "last" /\ ~started' /\ ~produced'
            /\ \A s \in DOMAIN pending : pending[s].decodable # "yes"
<1>0. TrackInv /\ HoldInv /\ SaysIfKeyed /\ started \in BOOLEAN
  BY DEF JoinInv, GateInv, GateTypes, TrackInv
<1>1. PICK g \in DOMAIN pending :
        LET n    == Len(pending[g].frames)
            sent == Sent(pending[g])
        IN  /\ g \in Sequence /\ n \in Nat /\ sent \in Nat
            /\ pending[g].have = sent + n
            /\ SubSeq(out', Len(out) + 1, Len(out')) = Leaving(g)
            /\ Leaving(g) \in Seq(Sequence \X (1 .. MaxFrames)) /\ Len(Leaving(g)) = n
            /\ \A i \in 1 .. n : Leaving(g)[i] = <<g, sent + i>>
  BY <1>0, WhatLeaves
<1> DEFINE n    == Len(pending[g].frames)
           sent == Sent(pending[g])
<1>2. \/ /\ started \/ (n > 0 /\ sent = 0 /\ g \in Keyed)
         /\ started' = TRUE /\ absorbed' = absorbed
      \/ /\ ~started /\ ~(n > 0 /\ sent = 0 /\ g \in Keyed)
         /\ started' = FALSE
         /\ ~produced => ~produced'
  <2>1. /\ g \in Sequence /\ n \in Nat /\ sent \in Nat
        /\ Leaving(g) \in Seq(Sequence \X (1 .. MaxFrames)) /\ Len(Leaving(g)) = n
        /\ Leaving(g) = SubSeq(out', Len(out) + 1, Len(out'))
        /\ \A i \in 1 .. n : Leaving(g)[i] = <<g, sent + i>>
    BY <1>1
  <2> HIDE DEF n, sent
  <2>2. QED BY <1>0, <2>1, ShowCases
<1>3. n \in Nat /\ sent \in Nat /\ pending[g].have = sent + n
  BY <1>1
<1> HIDE DEF n, sent
<1>4. pull # "over"
  BY DEF Release, Releases
<1>5. \/ started /\ absorbed = {}
      \/ /\ pull = "last" /\ ~started /\ ~produced
         /\ \A s \in DOMAIN pending : pending[s].decodable # "yes"
  BY <1>4 DEF JoinInv, OpensTheGate
<1>6. CASE started /\ absorbed = {}
  BY <1>2, <1>6
<1>7. CASE /\ pull = "last" /\ ~started /\ ~produced
           /\ \A s \in DOMAIN pending : pending[s].decodable # "yes"
  <2>1. ~(g \in Keyed /\ n > 0)
    <3>1. SUFFICES ASSUME g \in Keyed, n > 0 PROVE FALSE
      OBVIOUS
    <3>2. pending[g].have > 0
      BY <1>3, <3>1
    <3>3. QED BY <1>0, <1>1, <1>7, <3>1, <3>2 DEF SaysIfKeyed
  <2>2. QED BY <1>2, <1>7, <2>1
<1>8. QED BY <1>5, <1>6, <1>7

\* A release keeps to it.
LEMMA ReleaseKeepsJoin ==
  ASSUME JoinInv, Release, Show, GateInv', WholeInv'
  PROVE  JoinInv'
<1>1. PICK last \in BOOLEAN : last = (pull = "last")
  OBVIOUS
<1>2. HoldInv /\ Take(last) /\ pending' # pending /\ UNCHANGED <<start, pull, mark>>
  <2>1. UNCHANGED start
    BY DEF Release, Take, TakeLiveJoin, TakeLiveEnd, TakeBacklogJoin, TakeAtCursor,
           TakeEmpty, TakeWaits, TakeStepsOver, HandOn
  <2>2. QED BY <1>1, <2>1 DEF Release, Show, JoinInv, GateInv, TrackInv
<1>3. SaysIfKeyed' /\ (cursor # None => cursor' # None)
      /\ DOMAIN pending' \subseteq DOMAIN pending
      /\ \A s \in DOMAIN pending' : pending'[s].decodable = pending[s].decodable
  BY <1>2, TakeSays DEF JoinInv
<1>4. LastIsAnswered'
  <2>1. SUFFICES ASSUME pull = "last" PROVE fetching' = None
    BY <1>2 DEF LastIsAnswered
  <2>2. QED BY <1>1, <1>2, <2>1, LastAsksNothing DEF JoinInv, LastIsAnswered
<1>5. cursor' # None
  <2>1. PICK skipped, tally : HandsOn(Turn, skipped, tally, last)
    BY <1>2, TakeHandsOnTurn
  <2>2. PICK g : g = Turn
    OBVIOUS
  <2>3. HandsOn(g, skipped, tally, last)
    BY <2>1, <2>2
  <2>4. QED BY <1>2, <2>3, HandOnSays
<1>6. OpensTheGate'
  <2>1. SUFFICES ASSUME start = "Live", ~mark.again
                 PROVE  \/ started' /\ absorbed' = {}
                        \/ /\ pull = "last" /\ ~started' /\ ~produced'
                           /\ \A s \in DOMAIN pending' : pending'[s].decodable # "yes"
    BY <1>2, <1>5 DEF OpensTheGate
  <2>2. \/ started' /\ absorbed' = {}
        \/ /\ pull = "last" /\ ~started' /\ ~produced'
           /\ \A s \in DOMAIN pending : pending[s].decodable # "yes"
    BY <2>1, JoinOpens, JoinedStays
  <2>3. QED BY <1>3, <2>2
<1>7. QED BY <1>3, <1>4, <1>6 DEF JoinInv

\* A join hands something on: a take that changes nothing of the hold is not one.
LEMMA JoinsWithFrames ==
  ASSUME JoinInv, NEW last \in BOOLEAN, Take(last), pending' = pending, start = "Live"
  PROVE  cursor # None
<1>0. HoldInv /\ JoinIsLowest /\ SaysIfKeyed
  BY DEF JoinInv, GateInv, TrackInv, HoldInv
<1>1. SUFFICES ASSUME cursor = None PROVE FALSE
  OBVIOUS
<1>2. cursor \notin DOMAIN pending
  BY <1>0, <1>1, HoldAssumption DEF HoldInv, TypeOK, Sequence
<1>3. CASE TakeLiveJoin(last)
  <2>1. PICK g : g = join_ready
    OBVIOUS
  <2>2. PICK skipped, tally : HandsOn(g, skipped, tally, last)
    BY <1>0, <1>3, <2>1, LiveJoinHandsOn
  <2>3. g \in DOMAIN pending
    BY <2>2 DEF HandsOn
  <2>4. pending[g].frames = << >>
    <3>1. Passes(g, skipped) \/ Stays(g, skipped)
      BY <1>0, <2>2, HandOnLeaves
    <3>2. QED BY <2>3, <3>1 DEF Passes, Stays
  <2>5. pending[g].decodable = "yes"
    BY <1>0, <1>1, <1>3, <2>1 DEF JoinIsLowest, Oldest, TakeLiveJoin
  <2>6. pending[g].have > 0
    BY <1>0, <2>3, <2>5 DEF SaysIfKeyed
  <2>7. Len(pending[g].frames) = pending[g].have
    BY <1>0, <1>2, <2>3, NothingWent
  <2>8. QED BY <2>4, <2>6, <2>7
<1>4. CASE TakeLiveEnd(last)
  <2>1. PICK g \in DOMAIN pending : HandOn(g, {}, counters, last)
    BY <1>4 DEF TakeLiveEnd
  <2>2. Done(pending[g], (DOMAIN pending \ {}) # {g}, last)
    BY <1>4 DEF TakeLiveEnd, Done
  <2>3. g \notin DOMAIN pending'
    BY <2>1, <2>2 DEF HandOn, Restrict
  <2>4. QED BY <2>1, <2>3
<1>5. QED
  BY <1>1, <1>3, <1>4 DEF Take, TakeBacklogJoin, TakeAtCursor, TakeEmpty, TakeWaits,
                          TakeStepsOver, AtHole

\* The end of a release does too: after the last, the run is over.
LEMMA ReleaseEndsKeepsJoin ==
  ASSUME JoinInv, ReleaseEnds, UNCHANGED pictured, GateInv', WholeInv'
  PROVE  JoinInv'
<1>0. /\ HoldInv /\ UNCHANGED <<started, absorbed, mark, reader>>
      /\ pull' # "last"
  BY DEF ReleaseEnds, JoinInv, GateInv, TrackInv, pictured, gate, task
<1>1. PICK last \in BOOLEAN : last = (pull = "last")
  OBVIOUS
<1>2. \/ Unjoined(last) /\ UNCHANGED vars
      \/ Take(last) /\ pending' = pending
  BY <1>1 DEF ReleaseEnds
<1>3. UNCHANGED <<start, pending>>
  BY <1>2 DEF Take, TakeLiveJoin, TakeLiveEnd, TakeBacklogJoin, TakeAtCursor, TakeEmpty,
              TakeWaits, TakeStepsOver, HandOn, vars
<1>4. SaysIfKeyed'
  BY <1>3 DEF JoinInv, SaysIfKeyed
<1>5. LastIsAnswered'
  BY <1>0 DEF LastIsAnswered
<1>6. ASSUME start = "Live"
      PROVE  (cursor = None => cursor' = None) /\ (cursor # None => cursor' # None)
  <2>1. CASE Unjoined(last) /\ UNCHANGED vars
    BY <2>1 DEF vars
  <2>2. CASE Take(last) /\ pending' = pending
    <3>1. cursor # None
      BY <1>6, <2>2, JoinsWithFrames
    <3>2. QED BY <1>0, <2>2, <3>1, TakeSays
  <2>3. QED BY <1>2, <2>1, <2>2
<1>7. ASSUME pull = "last"
      PROVE  Over'
  <2>1. reader = "finished" /\ fetching = None
    BY <1>7 DEF JoinInv, WholeInv, LastIsFinished, LastIsAnswered
  <2>2. fetching' = None
    <3>1. CASE UNCHANGED vars
      BY <2>1, <3>1 DEF vars, hole
    <3>2. CASE Take(last)
      BY <1>1, <1>7, <2>1, <3>2, LastAsksNothing
    <3>3. QED BY <1>2, <3>1, <3>2
  <2>3. QED BY <1>0, <2>1, <2>2 DEF Over
<1>8. OpensTheGate'
  <2>1. SUFFICES ASSUME start = "Live", ~mark.again
                 PROVE  IF cursor' = None THEN absorbed = {} /\ ~started /\ ~produced'
                        ELSE (started /\ absorbed = {}) \/ pull' = "over"
    BY <1>0, <1>3 DEF OpensTheGate
  <2>2. ~produced => ~produced'
    BY DEF ReleaseEnds
  <2>3. CASE cursor = None
    BY <1>6, <2>1, <2>2, <2>3 DEF JoinInv, OpensTheGate
  <2>4. CASE cursor # None /\ started /\ absorbed = {}
    BY <1>6, <2>1, <2>4
  <2>5. CASE cursor # None /\ pull = "last" /\ ~produced
    <3>1. pull' = "over"
      BY <1>7, <2>5 DEF ReleaseEnds
    <3>2. QED BY <1>6, <2>1, <2>5, <3>1
  <2>6. pull # "over"
    BY DEF ReleaseEnds, Releases
  <2>7. QED BY <2>1, <2>3, <2>4, <2>5, <2>6 DEF JoinInv, OpensTheGate
<1>9. QED BY <1>4, <1>5, <1>8 DEF JoinInv

\* A pull that listens is not releasing for the last time, nor is it over.
LEMMA ListeningKeepsJoin ==
  ASSUME JoinInv, Listens, UNCHANGED <<pictured, start, cursor, produced>>,
         SaysIfKeyed', GateInv', WholeInv', pull' = "last" => Over /\ UNCHANGED fetching
  PROVE  JoinInv'
<1>1. UNCHANGED <<started, absorbed, mark>>
  BY DEF pictured, gate
<1>2. LastIsAnswered'
  BY DEF LastIsAnswered, Over
<1>3. pull # "last" /\ pull # "over"
  BY DEF Listens
<1>4. OpensTheGate'
  BY <1>1, <1>3 DEF JoinInv, OpensTheGate
<1>5. QED BY <1>2, <1>4 DEF JoinInv

\* What is filed says what it is.
LEMMA FiledSays ==
  ASSUME JoinInv, SubscriptionFrame \/ SubscriptionEnd \/ Answer
  PROVE  SaysIfKeyed' /\ UNCHANGED <<start, cursor>>
<1>0. /\ HoldInv /\ SaysIfKeyed /\ HeldFits /\ size \in [Sequence -> 0 .. MaxFrames]
      /\ sub.group \in Sequence \cup {None} /\ sub.read \in Nat
  BY DEF JoinInv, GateInv, WholeInv, TrackInv, TrackTypes
<1>1. ASSUME NEW s \in Sequence, NEW frames \in Seq(Frame), NEW decides \in Decodable,
             NEW complete \in BOOLEAN, Arrive(s, frames, decides, complete),
             s \notin passing /\ ~HereOrPassed(s) =>
               decides = IF s \in Keyed /\ Len(frames) > 0 THEN "yes" ELSE "no"
      PROVE  SaysIfKeyed' /\ UNCHANGED <<start, cursor>>
  BY <1>0, <1>1, ArrivalSays DEF Arrive
<1>2. CASE SubscriptionFrame
  <2>1. PICK s \in Sequence : s = sub.group
    BY <1>0, <1>2 DEF SubscriptionFrame
  <2> DEFINE frames == <<sub.read + 1>>
             says   == IF s \in Keyed THEN "yes" ELSE "no"
  <2>2. sub.read < size[s] /\ Arrive(s, frames, says, FALSE)
    BY <1>2, <2>1 DEF SubscriptionFrame, ReadFrame
  <2>3. sub.read + 1 \in Frame
    BY <1>0, <2>2, TrackAssumption, HoldAssumption
  <2>4. frames \in Seq(Frame) /\ Len(frames) = 1 /\ says \in Decodable
    BY <2>3 DEF Decodable
  <2>5. says = IF s \in Keyed /\ Len(frames) > 0 THEN "yes" ELSE "no"
    BY <2>4
  <2> HIDE DEF frames, says
  <2>6. QED BY <1>1, <2>2, <2>4, <2>5
<1>3. CASE SubscriptionEnd
  <2>1. PICK s \in Sequence : s = sub.group
    BY <1>0, <1>3 DEF SubscriptionEnd
  <2>2. CASE UNCHANGED vars
    BY <1>0, <2>2 DEF vars, SaysIfKeyed
  <2>3. CASE End(s)
    <3>1. Arrive(s, << >>, "unknown", TRUE) /\ (s \in passing \/ HereOrPassed(s))
      BY <2>3 DEF End, HereOrPassed
    <3>2. << >> \in Seq(Frame) /\ "unknown" \in Decodable /\ TRUE \in BOOLEAN
      BY DEF Decodable
    <3>3. QED BY <1>1, <3>1, <3>2
  <2>4. QED BY <1>3, <2>1, <2>2, <2>3 DEF SubscriptionEnd
<1>4. CASE Answer
  <2>1. PICK s \in Sequence :
          \/ Push(s, [i \in 1 .. size[s] |-> i],
                  IF s \in Keyed /\ size[s] > 0 THEN "yes" ELSE "no")
          \/ Refused(s)
    BY <1>4 DEF Answer
  <2>2. CASE Refused(s)
    BY <1>0, <2>2 DEF Refused, SaysIfKeyed
  <2>3. CASE Push(s, [i \in 1 .. size[s] |-> i],
                  IF s \in Keyed /\ size[s] > 0 THEN "yes" ELSE "no")
    <3> DEFINE n    == size[s]
               a    == [i \in 1 .. n |-> i]
               says == IF s \in Keyed /\ n > 0 THEN "yes" ELSE "no"
    <3>1. n \in Nat /\ n <= MaxFrames
      BY <1>0, HoldAssumption
    <3>2. Arrive(s, a, says, TRUE)
      BY <2>3 DEF Push
    <3>3. a \in Seq(Frame) /\ Len(a) = n
      <4> HIDE DEF n
      <4>1. \A i \in 1 .. n : i \in Frame
        BY <3>1, TrackAssumption, HoldAssumption
      <4>2. QED BY <3>1, <4>1
    <3>4. says \in Decodable /\ TRUE \in BOOLEAN
      BY DEF Decodable
    <3>5. says = IF s \in Keyed /\ Len(a) > 0 THEN "yes" ELSE "no"
      BY <3>3
    <3> HIDE DEF n, a, says
    <3>6. QED BY <1>1, <3>2, <3>3, <3>4, <3>5
  <2>4. QED BY <2>1, <2>2, <2>3
<1>5. QED BY <1>2, <1>3, <1>4

\* A track taken up again has no join of its own to keep to.
LEMMA TakenUpKeepsJoin ==
  ASSUME JoinInv, TakenUp, GateInv', WholeInv'
  PROVE  JoinInv'
<1>1. /\ TakenUpAgain /\ mark' = [at |-> Len(out), again |-> TRUE]
      /\ pull' # "last"
  BY DEF TakenUp, Resume, Resubscribe, Restart, Filed
<1>2. LastIsAnswered' /\ OpensTheGate'
  BY <1>1 DEF LastIsAnswered, OpensTheGate
<1>3. SaysIfKeyed'
  <2>1. SUFFICES ASSUME NEW s \in DOMAIN pending
                 PROVE  /\ pending'[s].decodable = pending[s].decodable
                        /\ pending'[s].have = pending[s].have
    BY <1>1 DEF JoinInv, SaysIfKeyed, TakenUpAgain
  <2>2. pending[s] \in Held
    BY GroupFacts DEF JoinInv, GateInv, TrackInv
  <2>3. pending'[s] = IF pending[s].complete THEN pending[s]
                      ELSE [pending[s] EXCEPT !.again = 0]
    BY <1>1 DEF TakenUpAgain
  <2>4. QED BY <2>2, <2>3 DEF Held
<1>4. QED BY <1>2, <1>3 DEF JoinInv

\* Nothing is held at the start.
LEMMA InitJoin == PictureInit => JoinInv
<1> SUFFICES ASSUME PictureInit PROVE JoinInv
  OBVIOUS
<1>1. GateInv /\ WholeInv
  BY InitGate, InitWhole DEF PictureInit
<1>2. /\ DOMAIN pending = {} /\ cursor = None /\ pull = "files" /\ produced = FALSE
      /\ started = FALSE /\ absorbed = {}
  BY DEF PictureInit, TrackInit, Init
<1>3. QED BY <1>1, <1>2 DEF JoinInv, SaysIfKeyed, LastIsAnswered, OpensTheGate

\* Each step keeps to the invariant.
LEMMA StepKeepsJoin == JoinInv /\ [PictureNext]_pictures => JoinInv'
<1> SUFFICES ASSUME JoinInv, [PictureNext]_pictures PROVE JoinInv'
  OBVIOUS
<1>1. GateInv' /\ WholeInv'
  BY StepKeepsGate, PictureStepIsTracks, StepKeepsWhole DEF JoinInv
<1>2. CASE Release /\ Show
  BY <1>1, <1>2, ReleaseKeepsJoin
<1>3. CASE TakenUp
  BY <1>1, <1>3, TakenUpKeepsJoin
<1>4. CASE ReleaseEnds /\ UNCHANGED pictured
  BY <1>1, <1>4, ReleaseEndsKeepsJoin
<1>5. CASE (SubscriptionFrame \/ SubscriptionEnd \/ Answer) /\ UNCHANGED pictured
  <2>1. SaysIfKeyed' /\ UNCHANGED <<start, cursor>>
    BY <1>5, FiledSays
  <2>2. Listens /\ UNCHANGED produced /\ pull' # "last"
    BY <1>5 DEF SubscriptionFrame, SubscriptionEnd, Answer, Filed, Listens, host
  <2>3. QED BY <1>1, <1>5, <2>1, <2>2, ListeningKeepsJoin
<1>6. CASE /\ \/ Publish \/ ReceiveGroup \/ Finish \/ Break
              \/ Resubscribe /\ reader' = "lost"
              \/ StartRelease \/ Clock
           /\ UNCHANGED pictured
  <2>1. UNCHANGED <<start, pending, cursor, fetching, produced>> /\ Listens
    <3>1. CASE Publish \/ ReceiveGroup \/ Finish \/ Break \/ StartRelease
      BY <3>1 DEF Publish, ReceiveGroup, Finish, Break, StartRelease, vars, hole, host, Filed
    <3>2. CASE Resubscribe /\ reader' = "lost"
      BY <3>2 DEF Resubscribe, vars, hole, Filed
    <3>3. CASE Clock
      BY <3>3 DEF Clock, Tick, host
    <3>4. QED BY <1>6, <3>1, <3>2, <3>3
  <2>2. pull' = "last" => Over
    BY <1>6 DEF Publish, ReceiveGroup, Finish, Break, Resubscribe, StartRelease, Clock,
                Filed, Listens, host
  <2>3. SaysIfKeyed'
    BY <2>1 DEF JoinInv, SaysIfKeyed
  <2>4. QED BY <1>1, <1>6, <2>1, <2>2, <2>3, ListeningKeepsJoin
<1>7. CASE UNCHANGED pictures
  <2>1. /\ UNCHANGED <<pending, cursor, start, fetching, pull, produced>>
        /\ UNCHANGED <<started, absorbed, mark>>
    BY <1>7 DEF pictures, all, vars, hole, host, pictured, gate
  <2>2. QED BY <1>1, <2>1 DEF JoinInv, SaysIfKeyed, LastIsAnswered, OpensTheGate
<1>8. QED BY <1>2, <1>3, <1>4, <1>5, <1>6, <1>7 DEF PictureNext

\* A live join lands where the gate has nothing to absorb: only when the track ended
\* before a group that a decoder can start at does it keep anything back.
THEOREM LiveJoinsNeedNoGate == PictureSpec => []JoinNeedsNoGate
<1>1. JoinInv => JoinNeedsNoGate
  BY DEF JoinInv, OpensTheGate, JoinNeedsNoGate
<1>2. QED BY <1>1, InitJoin, StepKeepsJoin, PTL DEF PictureSpec
=============================================================================
