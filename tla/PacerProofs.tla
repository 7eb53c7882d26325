----------------------------- MODULE PacerProofs -----------------------------
(***************************************************************************)
(* The safety invariants of Pacer, and that it implements Paced, for every *)
(* value of the constants.                                                 *)
(*                                                                         *)
(* The invariants are inductive together, with one conjunct more: a group  *)
(* that was seen held has been taken.  Without it a group seen held might  *)
(* pass for delivered while no session has it yet, and the one behind it   *)
(* would go out unpaced and uncounted.                                     *)
(***************************************************************************)
EXTENDS Pacer, SequenceTheorems, TLAPS

\* A group that a look saw held has been taken.
HeldWasTaken == last # None /\ last.held => use # "untaken"

\* The conjuncts that are inductive together.
IInv ==
  /\ TypeOK
  /\ InOrder
  /\ OneIsOpen
  /\ QueueBounded
  /\ HeldWasTaken
  /\ EarlyIsCounted

\* What goes of a queue, and what stays.
Goes(q, n)  == [i \in 1 .. n |-> Out(q[i])]
Stays(q, n) == SubSeq(q, n + 1, Len(q))

-----------------------------------------------------------------------------
(* The groups, through a look at the queue.                                *)

\* The larger of two numbers is one of them, and no smaller than either.
LEMMA MaxOfTwo ==
  ASSUME NEW a \in Nat, NEW b \in Nat
  PROVE  Max({a, b}) = IF a >= b THEN a ELSE b
<1> DEFINE m == IF a >= b THEN a ELSE b
<1>1. m \in {a, b} /\ \A y \in {a, b} : m >= y  OBVIOUS
<1>2. \A x \in {a, b} : (\A y \in {a, b} : x >= y) => x = m  OBVIOUS
<1> QED BY <1>1, <1>2 DEF Max

\* A look takes no more groups than there are and leaves no more than
\* QUEUE_MAX.
LEMMA GoingBound ==
  ASSUME NEW q \in Seq(Group), NEW flight, NEW subscribed \in BOOLEAN
  PROVE  /\ Going(q, flight, subscribed) \in 0 .. Len(q)
         /\ Len(q) - Going(q, flight, subscribed) <= QueueMax
<1>1. Len(q) \in Nat /\ QueueMax \in Nat  BY LenProperties, PacerAssumption
<1>2. Over(q) \in 0 .. Len(q) /\ Len(q) - Over(q) <= QueueMax  BY <1>1 DEF Over
<1>3. Max({1, Over(q)}) = IF 1 >= Over(q) THEN 1 ELSE Over(q)  BY <1>1, <1>2, MaxOfTwo
<1>4. q # << >> => Len(q) > 0  BY <1>1, EmptySeq
<1>5. CASE ~subscribed  BY <1>5, <1>1 DEF Going
<1>6. CASE subscribed /\ q # << >> /\ Verdict(flight, subscribed) # "no"
  <2>1. Going(q, flight, subscribed) = Max({1, Over(q)})  BY <1>6 DEF Going
  <2> QED BY <2>1, <1>1, <1>2, <1>3, <1>4, <1>6
<1>7. CASE subscribed /\ ~(q # << >> /\ Verdict(flight, subscribed) # "no")
  <2>1. Going(q, flight, subscribed) = Over(q)  BY <1>7 DEF Going
  <2> QED BY <2>1, <1>2
<1> QED BY <1>5, <1>6, <1>7

\* Concatenation is associative.
LEMMA Associative ==
  ASSUME NEW s \in Seq(Group), NEW t \in Seq(Group), NEW u \in Seq(Group)
  PROVE  (s \o t) \o u = s \o (t \o u)
OBVIOUS

\* The first n groups of q behind w, and then the rest of q, are w and then q.
LEMMA Split ==
  ASSUME NEW q \in Seq(Group), NEW w \in Seq(Group), NEW n \in 0 .. Len(q)
  PROVE  /\ w \o Goes(q, n) \in Seq(Group)
         /\ Len(w \o Goes(q, n)) = Len(w) + n
         /\ n = 0 => w \o Goes(q, n) = w
         /\ n > 0 => (w \o Goes(q, n))[Len(w) + n] = q[n]
         /\ \A g \in 1 .. Len(w) : (w \o Goes(q, n))[g] = w[g]
         /\ Stays(q, n) \in Seq(Group)
         /\ Len(Stays(q, n)) = Len(q) - n
         /\ (w \o Goes(q, n)) \o Stays(q, n) = w \o q
<1> DEFINE goes == Goes(q, n)
           stays == Stays(q, n)
<1>1. goes = SubSeq(q, 1, n)
  <2>1. goes \in Seq(Group) /\ Len(goes) = n
    <3>1. \A i \in 1 .. n : q[i] \in Group  BY ElementOfSeq
    <3>2. goes \in [1 .. n -> Group]  BY <3>1 DEF Goes, Out
    <3> QED BY <3>2
  <2>2. SubSeq(q, 1, n) \in Seq(Group) /\ Len(SubSeq(q, 1, n)) = n
    BY SubSeqProperties
  <2>3. \A i \in 1 .. n : SubSeq(q, 1, n)[i] = goes[i]
    BY SubSeqProperties DEF Goes, Out
  <2> QED BY <2>1, <2>2, <2>3, SeqEqual
<1>2. /\ goes \in Seq(Group) /\ Len(goes) = n
      /\ stays \in Seq(Group) /\ Len(stays) = Len(q) - n
  BY <1>1, SubSeqProperties, LenProperties DEF Stays
<1>3. goes \o stays = q
  <2>1. Len(q) >= 1 => goes \o stays = q
    <3> SUFFICES ASSUME Len(q) >= 1 PROVE goes \o stays = q  OBVIOUS
    <3>1. Len(q) \in Nat  BY LenProperties
    <3>2. 1 \in 1 .. Len(q) + 1 /\ n \in 1 - 1 .. Len(q) /\ Len(q) \in n .. Len(q)
      BY <3>1
    <3>3. SubSeq(q, 1, n) \o SubSeq(q, n + 1, Len(q)) = SubSeq(q, 1, Len(q))
      BY <3>2, ConcatAdjacentSubSeq, Zenon
    <3> HIDE DEF goes, stays
    <3>4. stays = SubSeq(q, n + 1, Len(q))  BY DEF stays, Stays
    <3> QED BY <3>3, <3>4, <1>1, SubSeqFull
  <2>2. Len(q) = 0 => goes = << >> /\ stays = << >> /\ q = << >>
    BY <1>2, EmptySeq
  <2> QED BY <2>1, <2>2, ConcatEmptySeq, LenProperties
<1> HIDE DEF goes, stays
<1>4. (w \o goes) \o stays = w \o q
  <2>1. (w \o goes) \o stays = w \o (goes \o stays)  BY <1>2, Associative, Zenon
  <2> QED BY <2>1, <1>3
<1>5. /\ w \o goes \in Seq(Group) /\ Len(w \o goes) = Len(w) + n
      /\ \A g \in 1 .. Len(w) : (w \o goes)[g] = w[g]
      /\ n > 0 => (w \o goes)[Len(w) + n] = goes[n]
  <2>1. Len(w) \in Nat /\ Len(goes) = n /\ n \in Nat  BY <1>2, LenProperties
  <2>2. /\ w \o goes \in Seq(Group)
        /\ Len(w \o goes) = Len(w) + Len(goes)
        /\ \A i \in 1 .. Len(w) + Len(goes) :
             (w \o goes)[i] = IF i <= Len(w) THEN w[i] ELSE goes[i - Len(w)]
    BY <1>2, ConcatProperties, Zenon
  <2> QED BY <2>1, <2>2
<1>6. n > 0 => goes[n] = q[n]  BY LenProperties DEF goes, Goes, Out
<1>7. n = 0 => w \o goes = w  BY <1>2, EmptySeq, ConcatEmptySeq
<1> QED BY <1>2, <1>4, <1>5, <1>6, <1>7 DEF goes, stays

-----------------------------------------------------------------------------
(* The counts, through a look at the queue.                                *)

\* Each group that really goes too early is counted as unpaced.
LEMMA Counted ==
  ASSUME NEW n \in Nat, NEW flight \in InFlight \cup {None}, NEW subscribed \in BOOLEAN,
         flight # None /\ flight.held => use # "untaken"
  PROVE  /\ Unpaced(n, Verdict(flight, subscribed), subscribed) \in Nat
         /\ Early(n, flight, subscribed) \in Nat
         /\ Early(n, flight, subscribed)
              <= Unpaced(n, Verdict(flight, subscribed), subscribed)
<1>1. CASE ~subscribed \/ n = 0  BY <1>1 DEF Unpaced, Early
<1>2. CASE subscribed /\ n > 0 /\ Verdict(flight, subscribed) # "paced"
  BY <1>2 DEF Unpaced, Early
<1>3. CASE subscribed /\ n > 0 /\ Verdict(flight, subscribed) = "paced"
  <2>1. ~(/\ flight # None /\ use # "gone"
          /\ \/ use = "held"
             \/ use = "untaken" /\ flight.finished < TakeMax
             \/ flight.finished < Spacing)
    <3> SUFFICES ASSUME flight # None, use # "gone"
                 PROVE  /\ use # "held"
                        /\ ~(use = "untaken" /\ flight.finished < TakeMax)
                        /\ ~(flight.finished < Spacing)
      OBVIOUS
    <3>1. Settled(flight) = "paced"  BY <1>3 DEF Verdict
    <3>2. /\ use # "held" /\ (flight.held \/ flight.finished >= TakeMax)
          /\ flight.finished >= Spacing
      BY <3>1 DEF Settled
    <3>3. flight.finished \in Nat /\ TakeMax \in Nat /\ Spacing \in Nat
      BY PacerAssumption DEF InFlight
    <3> QED BY <3>2, <3>3
  <2>2. Early(n, flight, subscribed) = n - 1  BY <1>3, <2>1 DEF Early
  <2>3. Unpaced(n, Verdict(flight, subscribed), subscribed) = n - 1
    BY <1>3 DEF Unpaced
  <2>4. n - 1 \in Nat /\ n - 1 <= n - 1  BY <1>3
  <2> QED BY <2>2, <2>3, <2>4
<1> QED BY <1>1, <1>2, <1>3

-----------------------------------------------------------------------------
(* A look at the queue, whole.                                             *)

\* A look moves groups from the queue to the wire and changes none; what it
\* leaves is what the invariant asks of the queue, the flight and the counts.
LEMMA LetOutKeeps ==
  ASSUME TypeOK, EarlyIsCounted,
         NEW q \in Seq(Group), NEW w \in Seq(Group),
         NEW flight \in InFlight \cup {None}, NEW subscribed \in BOOLEAN,
         flight # None /\ flight.held => use # "untaken",
         (open /\ w = wire) <=> (w # << >> /\ ~w[Len(w)].closed),
         LetOut(q, w, flight, subscribed)
  PROVE  /\ queue' \in Seq(Group) /\ wire' \in Seq(Group)
         /\ wire' \o queue' = w \o q
         /\ last' \in InFlight \cup {None} /\ use' \in Use /\ open' \in BOOLEAN
         /\ unpaced' \in Nat /\ early' \in Nat
         /\ open' <=> wire' # << >> /\ ~wire'[Len(wire')].closed
         /\ QueueBounded'
         /\ HeldWasTaken'
         /\ EarlyIsCounted'
<1> DEFINE n == Going(q, flight, subscribed)
<1>1. n \in 0 .. Len(q) /\ Len(q) - n <= QueueMax /\ Len(q) \in Nat
  BY GoingBound, LenProperties
<1>2. /\ queue' = Stays(q, n)
      /\ wire' = w \o Goes(q, n)
      /\ unpaced' = unpaced + Unpaced(n, Verdict(flight, subscribed), subscribed)
      /\ early' = early + Early(n, flight, subscribed)
      /\ \/ /\ n = 0
            /\ last' = IF q # << >> /\ flight # None
                       THEN [flight EXCEPT !.held = @ \/ use = "held"] ELSE flight
            /\ UNCHANGED use
         \/ /\ n > 0
            /\ last' = IF q[n].closed THEN [finished |-> 0, held |-> FALSE] ELSE None
            /\ use' = "untaken"
      /\ open' = IF n > 0 THEN Live(q[n]) ELSE open /\ w = wire
  BY DEF LetOut, Goes, Stays
<1> HIDE DEF n
<1>3. /\ wire' \in Seq(Group) /\ Len(wire') = Len(w) + n
      /\ n = 0 => wire' = w
      /\ n > 0 => wire'[Len(w) + n] = q[n]
      /\ queue' \in Seq(Group) /\ Len(queue') = Len(q) - n
      /\ wire' \o queue' = w \o q
  BY <1>1, <1>2, Split
<1>4. QueueBounded'  BY <1>1, <1>3 DEF QueueBounded
<1>5. unpaced' \in Nat /\ early' \in Nat /\ EarlyIsCounted'
  <2>1. n \in Nat  BY <1>1
  <2>2. /\ Unpaced(n, Verdict(flight, subscribed), subscribed) \in Nat
        /\ Early(n, flight, subscribed) \in Nat
        /\ Early(n, flight, subscribed)
             <= Unpaced(n, Verdict(flight, subscribed), subscribed)
    BY <2>1, Counted
  <2>3. unpaced \in Nat /\ early \in Nat /\ early <= unpaced
    BY DEF TypeOK, EarlyIsCounted
  <2>4. /\ unpaced' = unpaced + Unpaced(n, Verdict(flight, subscribed), subscribed)
        /\ early' = early + Early(n, flight, subscribed)
    BY <1>2
  <2> HIDE DEF n
  <2> QED BY <2>2, <2>3, <2>4 DEF EarlyIsCounted
<1>6. last' \in InFlight \cup {None} /\ use' \in Use /\ HeldWasTaken'
  <2>1. CASE n = 0 /\ q # << >> /\ flight # None
    <3>1. flight \in InFlight  BY <2>1
    <3>2. last' = [flight EXCEPT !.held = @ \/ use = "held"] /\ use' = use
      BY <1>2, <2>1
    <3>3. last' \in InFlight /\ last'.held = (flight.held \/ use = "held")
      BY <3>1, <3>2 DEF InFlight
    <3> QED BY <2>1, <3>2, <3>3 DEF HeldWasTaken, TypeOK
  <2>2. CASE n = 0 /\ ~(q # << >> /\ flight # None)
    BY <1>2, <2>2 DEF HeldWasTaken, TypeOK
  <2>3. CASE n > 0
    <3>1. last' = IF q[n].closed THEN [finished |-> 0, held |-> FALSE] ELSE None
      BY <1>2, <2>3
    <3>2. [finished |-> 0, held |-> FALSE] \in InFlight  BY DEF InFlight
    <3>3. use' = "untaken"  BY <1>2, <2>3
    <3> QED BY <3>1, <3>2, <3>3 DEF HeldWasTaken, Use
  <2> QED BY <1>1, <2>1, <2>2, <2>3
<1>7. open' \in BOOLEAN /\ (open' <=> wire' # << >> /\ ~wire'[Len(wire')].closed)
  <2>1. CASE n = 0
    <3>1. open' = (open /\ w = wire) /\ ~(n > 0)  BY <1>2, <2>1
    <3>2. wire' = w  BY <1>3, <2>1
    <3> QED BY <3>1, <3>2, Zenon DEF TypeOK
  <2>2. CASE n > 0
    <3>1. n \in 1 .. Len(q) /\ Len(w) \in Nat  BY <1>1, <2>2, LenProperties
    <3>2. q[n] \in Group  BY <3>1, ElementOfSeq
    <3>3. wire' # << >> /\ wire'[Len(wire')] = q[n]  BY <1>3, <2>2, <3>1, EmptySeq
    <3>4. open' = ~q[n].closed  BY <1>2, <2>2 DEF Live
    <3> QED BY <3>2, <3>3, <3>4 DEF Group
  <2> QED BY <1>1, <2>1, <2>2
<1> QED BY <1>3, <1>4, <1>5, <1>6, <1>7

-----------------------------------------------------------------------------
(* The newest group is finished.                                           *)

\* What there is of the wire and then the queue, group by group.
LEMMA AllGroups ==
  ASSUME NEW w \in Seq(Group), NEW q \in Seq(Group)
  PROVE  /\ w \o q \in Seq(Group)
         /\ Len(w) \in Nat /\ Len(q) \in Nat
         /\ Len(w \o q) = Len(w) + Len(q)
         /\ \A g \in 1 .. Len(w) + Len(q) :
              /\ (w \o q)[g] \in Group
              /\ (w \o q)[g] = IF g <= Len(w) THEN w[g] ELSE q[g - Len(w)]
<1>1. Len(w) \in Nat /\ Len(q) \in Nat  BY LenProperties
<1>2. /\ w \o q \in Seq(Group)
      /\ Len(w \o q) = Len(w) + Len(q)
      /\ \A g \in 1 .. Len(w) + Len(q) :
           (w \o q)[g] = IF g <= Len(w) THEN w[g] ELSE q[g - Len(w)]
  BY ConcatProperties, Zenon
<1>3. \A g \in 1 .. Len(w) + Len(q) : (w \o q)[g] \in Group
  BY <1>2, ElementOfSeq
<1> QED BY <1>1, <1>2, <1>3

\* A sequence of groups, its last one finished.
LEMMA LastClosed ==
  ASSUME NEW s \in Seq(Group), s # << >>
  PROVE  LET t == [s EXCEPT ![Len(s)].closed = TRUE]
         IN  /\ t \in Seq(Group) /\ Len(t) = Len(s)
             /\ t[Len(s)].closed
             /\ \A g \in 1 .. Len(s) :
                  /\ t[g].frames = s[g].frames
                  /\ s[g].closed => t[g].closed
<1> DEFINE e == [s[Len(s)] EXCEPT !.closed = TRUE]
           t == [s EXCEPT ![Len(s)] = e]
<1>1. Len(s) \in 1 .. Len(s)  BY EmptySeq
<1>2. s[Len(s)] \in Group  BY <1>1, ElementOfSeq
<1>3. e \in Group /\ e.closed /\ e.frames = s[Len(s)].frames  BY <1>2 DEF Group
<1> HIDE DEF e
<1>4. /\ t \in Seq(Group) /\ Len(t) = Len(s)
      /\ \A g \in 1 .. Len(s) : t[g] = IF g = Len(s) THEN e ELSE s[g]
  BY <1>1, <1>3, ExceptSeq
<1>5. t = [s EXCEPT ![Len(s)].closed = TRUE]  BY DEF e
<1> HIDE DEF t
<1>6. /\ t[Len(s)].closed
      /\ \A g \in 1 .. Len(s) : t[g].frames = s[g].frames /\ (s[g].closed => t[g].closed)
  BY <1>1, <1>3, <1>4
<1> QED BY <1>4, <1>5, <1>6

\* A sequence of groups, one frame more in its last one.
LEMMA OneMore ==
  ASSUME NEW s \in Seq(Group), s # << >>
  PROVE  LET t == [s EXCEPT ![Len(s)].frames = @ + 1]
         IN  /\ t \in Seq(Group) /\ Len(t) = Len(s)
             /\ \A g \in 1 .. Len(s) :
                  /\ t[g].closed = s[g].closed
                  /\ t[g].frames = IF g = Len(s) THEN s[g].frames + 1 ELSE s[g].frames
<1> DEFINE e == [s[Len(s)] EXCEPT !.frames = @ + 1]
           t == [s EXCEPT ![Len(s)] = e]
<1>1. Len(s) \in 1 .. Len(s)  BY EmptySeq
<1>2. s[Len(s)] \in Group  BY <1>1, ElementOfSeq
<1>3. /\ e \in Group /\ e.closed = s[Len(s)].closed
      /\ e.frames = s[Len(s)].frames + 1
  BY <1>2 DEF Group
<1> HIDE DEF e
<1>4. /\ t \in Seq(Group) /\ Len(t) = Len(s)
      /\ \A g \in 1 .. Len(s) : t[g] = IF g = Len(s) THEN e ELSE s[g]
  BY <1>1, <1>3, ExceptSeq
<1>5. t = [s EXCEPT ![Len(s)].frames = @ + 1]  BY DEF e
<1> HIDE DEF t
<1>6. \A g \in 1 .. Len(s) :
         /\ t[g].closed = s[g].closed
         /\ t[g].frames = IF g = Len(s) THEN s[g].frames + 1 ELSE s[g].frames
  BY <1>3, <1>4
<1> QED BY <1>4, <1>5, <1>6

\* Once the newest group is finished, every one is, with the frames it had.
LEMMA AllClosed ==
  ASSUME TypeOK, OneIsOpen
  PROVE  /\ ClosedQueue \in Seq(Group) /\ Len(ClosedQueue) = Len(queue)
         /\ ClosedWire \in Seq(Group) /\ Len(ClosedWire) = Len(wire)
         /\ ClosedLast \in InFlight \cup {None}
         /\ \A g \in 1 .. Len(wire) + Len(queue) :
              /\ (ClosedWire \o ClosedQueue)[g].closed
              /\ (ClosedWire \o ClosedQueue)[g].frames = (wire \o queue)[g].frames
<1> USE DEF TypeOK
<1>1. /\ ClosedQueue \in Seq(Group) /\ Len(ClosedQueue) = Len(queue)
      /\ queue # << >> => ClosedQueue[Len(queue)].closed
      /\ \A g \in 1 .. Len(queue) :
           /\ ClosedQueue[g].frames = queue[g].frames
           /\ queue[g].closed => ClosedQueue[g].closed
  <2>1. CASE queue = << >>  BY <2>1 DEF ClosedQueue
  <2>2. CASE queue # << >>  BY <2>2, LastClosed DEF ClosedQueue
  <2> QED BY <2>1, <2>2
<1>2. /\ ClosedWire \in Seq(Group) /\ Len(ClosedWire) = Len(wire)
      /\ OnWire => ClosedWire[Len(wire)].closed
      /\ \A g \in 1 .. Len(wire) :
           /\ ClosedWire[g].frames = wire[g].frames
           /\ wire[g].closed => ClosedWire[g].closed
  <2>1. CASE ~OnWire  BY <2>1 DEF ClosedWire
  <2>2. CASE OnWire
    <3>1. wire # << >>  BY <2>2 DEF OnWire, OneIsOpen
    <3> QED BY <2>2, <3>1, LastClosed DEF ClosedWire
  <2> QED BY <2>1, <2>2
<1>3. ClosedLast \in InFlight \cup {None}
  BY DEF ClosedLast, Flight, InFlight
<1>4. ASSUME NEW g \in 1 .. Len(wire) + Len(queue)
      PROVE  /\ (ClosedWire \o ClosedQueue)[g].closed
             /\ (ClosedWire \o ClosedQueue)[g].frames = (wire \o queue)[g].frames
  <2>1. /\ Len(wire) \in Nat /\ Len(queue) \in Nat
        /\ Len(wire \o queue) = Len(wire) + Len(queue)
        /\ (wire \o queue)[g] = IF g <= Len(wire) THEN wire[g] ELSE queue[g - Len(wire)]
    BY AllGroups
  <2>1a. Len(wire) \in Nat /\ Len(queue) \in Nat  BY <2>1
  <2>2. (ClosedWire \o ClosedQueue)[g]
          = IF g <= Len(wire) THEN ClosedWire[g] ELSE ClosedQueue[g - Len(wire)]
    BY <1>1, <1>2, AllGroups
  <2>3. g < Len(wire) + Len(queue) => (wire \o queue)[g].closed
    BY <2>1 DEF OneIsOpen
  <2>4. CASE g <= Len(wire)
    <3>1. g \in 1 .. Len(wire)  BY <2>1, <2>4
    <3>2. ClosedWire[g].closed
      <4>1. CASE g < Len(wire) + Len(queue)  BY <1>2, <2>1, <2>3, <2>4, <3>1, <4>1
      <4>2. CASE g = Len(wire) + Len(queue)
        <5>1. g = Len(wire) /\ queue = << >> /\ wire # << >>
          BY <2>1, <2>4, <4>2, <3>1, EmptySeq
        <5>2. open \/ wire[Len(wire)].closed  BY <5>1 DEF OneIsOpen
        <5> QED BY <1>2, <3>1, <5>1, <5>2 DEF OnWire
      <4> QED BY <2>1, <4>1, <4>2
    <3> QED BY <1>2, <2>1, <2>2, <2>4, <3>1, <3>2
  <2>5. CASE ~(g <= Len(wire))
    <3>1. g - Len(wire) \in 1 .. Len(queue)  BY <2>1, <2>5
    <3>2. ClosedQueue[g - Len(wire)].closed
      <4>1. CASE g < Len(wire) + Len(queue)  BY <1>1, <2>1, <2>3, <2>5, <3>1, <4>1
      <4>2. CASE g = Len(wire) + Len(queue)
        <5>1. g - Len(wire) = Len(queue) /\ queue # << >>
          BY <2>1, <4>2, <3>1, EmptySeq
        <5> QED BY <1>1, <5>1
      <4>3. g < Len(wire) + Len(queue) \/ g = Len(wire) + Len(queue)  BY <1>4, <2>1a
      <4> QED BY <4>1, <4>2, <4>3, Zenon
    <3> QED BY <1>1, <2>1, <2>2, <2>5, <3>1, <3>2
  <2> QED BY <2>4, <2>5
<1> QED BY <1>1, <1>2, <1>3, <1>4

-----------------------------------------------------------------------------
(* The invariant.                                                          *)

\* A step of LetOut whose groups are those of the trace cut, in order and all
\* finished but the newest one of an open group, keeps them so.
LEMMA LookKeeps ==
  ASSUME TypeOK, EarlyIsCounted,
         NEW q \in Seq(Group), NEW w \in Seq(Group),
         NEW flight \in InFlight \cup {None}, NEW subscribed \in BOOLEAN,
         flight # None /\ flight.held => use # "untaken",
         (open /\ w = wire) <=> (w # << >> /\ ~w[Len(w)].closed),
         LetOut(q, w, flight, subscribed),
         group_open' \in BOOLEAN, written' \in Seq(Nat),
         Len(w \o q) = Len(written'),
         \A g \in 1 .. Len(w \o q) :
           /\ (w \o q)[g].frames = written'[g]
           /\ (w \o q)[g].closed <=> ~(group_open' /\ g = Len(w \o q)),
         group_open' => w \o q # << >>
  PROVE  IInv'
<1>1. /\ queue' \in Seq(Group) /\ wire' \in Seq(Group)
      /\ wire' \o queue' = w \o q
      /\ last' \in InFlight \cup {None} /\ use' \in Use /\ open' \in BOOLEAN
      /\ unpaced' \in Nat /\ early' \in Nat
      /\ open' <=> wire' # << >> /\ ~wire'[Len(wire')].closed
      /\ QueueBounded'
      /\ HeldWasTaken'
      /\ EarlyIsCounted'
  BY LetOutKeeps
<1>2. TypeOK'  BY <1>1 DEF TypeOK
<1>3. InOrder'  BY <1>1 DEF InOrder
<1>4. OneIsOpen'  BY <1>1 DEF OneIsOpen
<1> QED BY <1>1, <1>2, <1>3, <1>4 DEF IInv

\* The first state satisfies the invariant.
LEMMA InitIInv == Init => IInv
<1> SUFFICES ASSUME Init PROVE IInv  OBVIOUS
<1>1. queue = << >> /\ wire = << >> /\ written = << >>  BY DEF Init
<1>2. wire \o queue = << >> /\ Len(queue) = 0
  BY <1>1, EmptySeq, ConcatEmptySeq
<1>3. TypeOK  BY EmptySeq DEF Init, TypeOK, Use
<1>4. InOrder  BY <1>1, <1>2, EmptySeq DEF InOrder
<1>5. OneIsOpen  BY <1>2, EmptySeq DEF Init, OneIsOpen
<1>6. QueueBounded  BY <1>2, PacerAssumption DEF QueueBounded
<1>7. HeldWasTaken /\ EarlyIsCounted  BY DEF Init, HeldWasTaken, EarlyIsCounted
<1> QED BY <1>3, <1>4, <1>5, <1>6, <1>7 DEF IInv

\* Every step keeps it.
LEMMA NextIInv == IInv /\ [Next]_vars => IInv'
<1> SUFFICES ASSUME IInv, [Next]_vars PROVE IInv'  OBVIOUS
<1> USE DEF IInv
<1>0. /\ queue \in Seq(Group) /\ wire \in Seq(Group) /\ written \in Seq(Nat)
      /\ Len(wire) \in Nat /\ Len(queue) \in Nat
      /\ Len(written) = Len(wire) + Len(queue)
      /\ Len(wire \o queue) = Len(wire) + Len(queue)
  BY AllGroups DEF TypeOK, InOrder
<1>1. ASSUME NEW subscribed \in BOOLEAN, Open(subscribed) PROVE IInv'
  <2> DEFINE new == [frames |-> 0, closed |-> FALSE]
             q == Append(ClosedQueue, new)
             w == ClosedWire
             all == w \o q
             m == Len(wire) + Len(queue)
  <2>1. LetOut(q, w, ClosedLast, subscribed) /\ written' = Append(written, 0) /\ group_open'
    BY <1>1 DEF Open
  <2>2. /\ ClosedQueue \in Seq(Group) /\ Len(ClosedQueue) = Len(queue)
        /\ w \in Seq(Group) /\ Len(w) = Len(wire)
        /\ ClosedLast \in InFlight \cup {None}
        /\ \A g \in 1 .. m :
             /\ (w \o ClosedQueue)[g].closed
             /\ (w \o ClosedQueue)[g].frames = (wire \o queue)[g].frames
    BY AllClosed
  <2>3. new \in Group  BY DEF Group
  <2>4. /\ q \in Seq(Group) /\ Len(q) = Len(queue) + 1
        /\ q[Len(queue) + 1] = new
        /\ \A g \in 1 .. Len(queue) : q[g] = ClosedQueue[g]
    BY <1>0, <2>2, <2>3, AppendProperties
  <2>5. /\ Len(all) = m + 1
        /\ all[m + 1] = new
        /\ \A g \in 1 .. m : all[g] = (w \o ClosedQueue)[g]
    <3> HIDE DEF q, w, new
    <3>1. /\ Len(all) = m + 1
          /\ \A g \in 1 .. m + 1 : all[g] = IF g <= Len(wire) THEN w[g] ELSE q[g - Len(wire)]
      <4>1. /\ Len(all) = Len(w) + Len(q)
            /\ \A g \in 1 .. Len(w) + Len(q) :
                 all[g] = IF g <= Len(w) THEN w[g] ELSE q[g - Len(w)]
        BY <2>2, <2>4, AllGroups
      <4> HIDE DEF all
      <4> QED BY <1>0, <2>2, <2>4, <4>1
    <3>2. \A g \in 1 .. m : (w \o ClosedQueue)[g]
                              = IF g <= Len(wire) THEN w[g] ELSE ClosedQueue[g - Len(wire)]
      BY <2>2, AllGroups
    <3> HIDE DEF all
    <3>3. all[m + 1] = q[Len(queue) + 1]
      <4>1. m + 1 \in 1 .. m + 1 /\ ~(m + 1 <= Len(wire)) /\ (m + 1) - Len(wire) = Len(queue) + 1
        BY <1>0
      <4> QED BY <3>1, <4>1
    <3>4. ASSUME NEW g \in 1 .. m PROVE all[g] = (w \o ClosedQueue)[g]
      <4>1. CASE g <= Len(wire)
        <5>1. g \in 1 .. m + 1  BY <1>0
        <5>2. all[g] = w[g]  BY <3>1, <4>1, <5>1
        <5> QED BY <3>2, <4>1, <5>2
      <4>2. CASE ~(g <= Len(wire))
        <5>1. g - Len(wire) \in 1 .. Len(queue) /\ g \in 1 .. m + 1  BY <1>0, <4>2
        <5> QED BY <2>4, <3>1, <3>2, <4>2, <5>1
      <4> QED BY <4>1, <4>2
    <3> QED BY <2>4, <3>1, <3>3, <3>4
  <2>6. /\ written' \in Seq(Nat) /\ Len(written') = m + 1
        /\ written'[m + 1] = 0
        /\ \A g \in 1 .. m : written'[g] = written[g]
    <3>1. /\ Append(written, 0) \in Seq(Nat)
          /\ Len(Append(written, 0)) = Len(written) + 1
          /\ \A g \in 1 .. Len(written) : Append(written, 0)[g] = written[g]
          /\ Append(written, 0)[Len(written) + 1] = 0
      BY <1>0, AppendProperties
    <3> QED BY <1>0, <2>1, <3>1
  <2>7. \A g \in 1 .. Len(all) :
           /\ all[g].frames = written'[g]
           /\ all[g].closed <=> ~(group_open' /\ g = Len(all))
    <3> HIDE DEF all, q, w
    <3>1. \A g \in 1 .. m : (wire \o queue)[g].frames = written[g]
      BY <1>0 DEF InOrder
    <3>2. \A g \in 1 .. m : all[g].frames = written'[g] /\ all[g].closed
      BY <2>2, <2>5, <2>6, <3>1
    <3>3. all[m + 1].frames = written'[m + 1] /\ ~all[m + 1].closed
      BY <2>5, <2>6
    <3> QED BY <1>0, <2>1, <2>5, <3>2, <3>3
  <2>8. all # << >>  BY <1>0, <2>5, EmptySeq
  <2>9. ClosedLast # None /\ ClosedLast.held => use # "untaken"
    BY DEF ClosedLast, Flight, HeldWasTaken
  <2>10. (open /\ w = wire) <=> (w # << >> /\ ~w[Len(w)].closed)
    <3>1. CASE OnWire
      <4>1. wire # << >> /\ ~wire[Len(wire)].closed  BY <3>1 DEF OnWire, OneIsOpen
      <4>2. Len(wire) \in 1 .. Len(wire) /\ wire \o queue = wire
        BY <1>0, <3>1, <4>1, EmptySeq, ConcatEmptySeq DEF OnWire
      <4>3. w[Len(w)].closed  BY <4>1, <3>1, <1>0, <2>2, LastClosed DEF ClosedWire
      <4>4. w # wire  BY <4>1, <4>3, <2>2
      <4> QED BY <4>3, <4>4
    <3>2. CASE ~OnWire
      <4>1. w = wire  BY <3>2 DEF ClosedWire
      <4> QED BY <4>1 DEF OneIsOpen
    <3> QED BY <3>1, <3>2
  <2>11. group_open' \in BOOLEAN  BY <1>1 DEF Open
  <2>12. Len(w \o q) = Len(written')  BY <2>5, <2>6
  <2> HIDE DEF q, w
  <2> QED BY <2>1, <2>2, <2>4, <2>6, <2>7, <2>8, <2>9, <2>10, <2>11, <2>12, LookKeeps
<1>4. ASSUME NEW subscribed \in BOOLEAN, Release(subscribed) PROVE IInv'
  <2>1. LetOut(queue, wire, last, subscribed) /\ UNCHANGED <<group_open, written>>
    BY <1>4 DEF Release
  <2>2. last \in InFlight \cup {None} /\ (last # None /\ last.held => use # "untaken")
    BY DEF TypeOK, HeldWasTaken
  <2>3. (open /\ wire = wire) <=> (wire # << >> /\ ~wire[Len(wire)].closed)
    BY DEF OneIsOpen
  <2>4. group_open' \in BOOLEAN /\ written' \in Seq(Nat)  BY <2>1 DEF TypeOK
  <2>5. /\ Len(wire \o queue) = Len(written')
        /\ \A g \in 1 .. Len(wire \o queue) :
             /\ (wire \o queue)[g].frames = written'[g]
             /\ (wire \o queue)[g].closed <=> ~(group_open' /\ g = Len(wire \o queue))
        /\ group_open' => wire \o queue # << >>
    BY <2>1 DEF InOrder, OneIsOpen
  <2> QED BY <1>0, <2>1, <2>2, <2>3, <2>4, <2>5, LookKeeps
<1>2. CASE Write
  <2>1. /\ group_open /\ wire \o queue # << >>
        /\ written' = [written EXCEPT ![Len(written)] = @ + 1]
        /\ UNCHANGED <<group_open, open, last, use, unpaced, early>>
    BY <1>2 DEF Write, OneIsOpen
  <2>2. Len(written) \in 1 .. Len(written)
    BY <1>0, <2>1, EmptySeq, ConcatEmptySeq, AllGroups
  <2>3. /\ written' \in Seq(Nat) /\ Len(written') = Len(written)
        /\ \A g \in 1 .. Len(written) :
             written'[g] = IF g = Len(written) THEN written[g] + 1 ELSE written[g]
    <3>1. written[Len(written)] + 1 \in Nat  BY <1>0, <2>2, ElementOfSeq
    <3> QED BY <1>0, <2>1, <2>2, <3>1, ExceptSeq
  <2>4. /\ queue' \in Seq(Group) /\ Len(queue') = Len(queue)
        /\ wire' \in Seq(Group) /\ Len(wire') = Len(wire)
        /\ \A g \in 1 .. Len(wire) :
             /\ wire'[g].closed = wire[g].closed
             /\ wire'[g].frames
                  = IF g = Len(written) THEN wire[g].frames + 1 ELSE wire[g].frames
        /\ \A g \in 1 .. Len(queue) :
             /\ queue'[g].closed = queue[g].closed
             /\ queue'[g].frames
                  = IF g = Len(queue) THEN queue[g].frames + 1 ELSE queue[g].frames
    <3>1. CASE queue # << >>
      <4>1. queue' = [queue EXCEPT ![Len(queue)].frames = @ + 1] /\ wire' = wire
        BY <1>2, <3>1 DEF Write
      <4>2. Len(queue) > 0  BY <1>0, <3>1, EmptySeq
      <4> QED BY <1>0, <3>1, <4>1, <4>2, OneMore
    <3>2. CASE queue = << >>
      <4>1. wire' = [wire EXCEPT ![Len(wire)].frames = @ + 1] /\ queue' = queue
        BY <1>2, <3>2 DEF Write
      <4>2. Len(queue) = 0 /\ wire # << >>  BY <3>2, <2>1, EmptySeq, ConcatEmptySeq
      <4> QED BY <1>0, <4>1, <4>2, OneMore
    <3> QED BY <3>1, <3>2
  <2>5. /\ Len(wire' \o queue') = Len(wire \o queue)
        /\ \A g \in 1 .. Len(wire \o queue) :
             /\ (wire' \o queue')[g].closed = (wire \o queue)[g].closed
             /\ (wire' \o queue')[g].frames = written'[g]
    <3>1. Len(wire' \o queue') = Len(wire \o queue)
      <4>1. Len(wire' \o queue') = Len(wire') + Len(queue')  BY <2>4, AllGroups
      <4> QED BY <1>0, <2>4, <4>1
    <3>2. ASSUME NEW g \in 1 .. Len(wire) + Len(queue)
          PROVE  /\ (wire' \o queue')[g].closed = (wire \o queue)[g].closed
                 /\ (wire' \o queue')[g].frames = written'[g]
      <4>1. (wire' \o queue')[g]
              = IF g <= Len(wire) THEN wire'[g] ELSE queue'[g - Len(wire)]
        BY <2>4, AllGroups
      <4>2. (wire \o queue)[g] = IF g <= Len(wire) THEN wire[g] ELSE queue[g - Len(wire)]
        BY <1>0, AllGroups
      <4>3. (wire \o queue)[g].frames = written[g]  BY <1>0 DEF InOrder
      <4>4. CASE g <= Len(wire)
        <5>1. g \in 1 .. Len(wire) /\ g \in 1 .. Len(written)  BY <1>0, <4>4
        <5> QED BY <2>3, <2>4, <4>1, <4>2, <4>3, <4>4, <5>1
      <4>5. CASE ~(g <= Len(wire))
        <5>1. /\ g - Len(wire) \in 1 .. Len(queue) /\ g \in 1 .. Len(written)
              /\ g - Len(wire) = Len(queue) <=> g = Len(written)
          BY <1>0, <4>5
        <5> DEFINE h == g - Len(wire)
        <5>2. /\ (wire' \o queue')[g] = queue'[h]
              /\ (wire \o queue)[g] = queue[h]
          BY <4>1, <4>2, <4>5
        <5> HIDE DEF h
        <5>3. /\ queue'[h].closed = queue[h].closed
              /\ queue'[h].frames
                   = IF h = Len(queue) THEN queue[h].frames + 1 ELSE queue[h].frames
              /\ h = Len(queue) <=> g = Len(written)
          BY <2>4, <5>1 DEF h
        <5>4. written'[g] = IF g = Len(written) THEN written[g] + 1 ELSE written[g]
          BY <2>3, <5>1
        <5> QED BY <4>3, <5>2, <5>3, <5>4
      <4> QED BY <4>4, <4>5
    <3> QED BY <1>0, <3>1, <3>2
  <2>6. InOrder'  BY <1>0, <2>3, <2>5 DEF InOrder
  <2>7. OneIsOpen'
    <3>1. group_open' => wire' \o queue' # << >>
      BY <1>0, <2>2, <2>5, EmptySeq
    <3>2. \A g \in 1 .. Len(wire' \o queue') :
             (wire' \o queue')[g].closed <=> ~(group_open' /\ g = Len(wire' \o queue'))
      BY <2>1, <2>5 DEF OneIsOpen
    <3>3. open' <=> wire' # << >> /\ ~wire'[Len(wire')].closed
      <4>1. CASE wire = << >>
        <5>1. Len(wire') = 0  BY <2>4, <4>1, EmptySeq
        <5>2. wire' = << >>  BY <2>4, <5>1, EmptySeq
        <5> QED BY <2>1, <4>1, <5>2 DEF OneIsOpen
      <4>2. CASE wire # << >>
        <5>1. Len(wire) \in 1 .. Len(wire)  BY <1>0, <4>2, EmptySeq
        <5>2. wire' # << >>  BY <2>4, <5>1, EmptySeq
        <5>3. wire'[Len(wire')].closed = wire[Len(wire)].closed
          <6>1. Len(wire') = Len(wire)  BY <2>4
          <6>2. \A g \in 1 .. Len(wire) : wire'[g].closed = wire[g].closed  BY <2>4
          <6> QED BY <5>1, <6>1, <6>2
        <5> QED BY <2>1, <4>2, <5>2, <5>3 DEF OneIsOpen
      <4> QED BY <4>1, <4>2
    <3> QED BY <3>1, <3>2, <3>3 DEF OneIsOpen
  <2>8. TypeOK'  BY <2>1, <2>3, <2>4 DEF TypeOK
  <2>9. QueueBounded' /\ HeldWasTaken' /\ EarlyIsCounted'
    BY <2>1, <2>4 DEF QueueBounded, HeldWasTaken, EarlyIsCounted
  <2> QED BY <2>6, <2>7, <2>8, <2>9
<1>3. CASE Close
  <2>1. /\ group_open' = FALSE
        /\ queue' = ClosedQueue /\ wire' = ClosedWire /\ last' = ClosedLast
        /\ open' = (open /\ queue # << >>)
        /\ UNCHANGED <<use, unpaced, written, early>>
    BY <1>3 DEF Close
  <2>2. /\ queue' \in Seq(Group) /\ Len(queue') = Len(queue)
        /\ wire' \in Seq(Group) /\ Len(wire') = Len(wire)
        /\ last' \in InFlight \cup {None}
        /\ \A g \in 1 .. Len(wire) + Len(queue) :
             /\ (wire' \o queue')[g].closed
             /\ (wire' \o queue')[g].frames = (wire \o queue)[g].frames
    BY <2>1, AllClosed
  <2>3. Len(wire' \o queue') = Len(wire) + Len(queue)  BY <2>2, AllGroups
  <2>4. InOrder'  BY <1>0, <2>1, <2>2, <2>3 DEF InOrder
  <2>5. ~open'
    <3>1. SUFFICES ASSUME open PROVE queue = << >>  BY <2>1
    <3>2. wire # << >> /\ ~wire[Len(wire)].closed  BY <3>1 DEF OneIsOpen
    <3>3. Len(wire) \in 1 .. Len(wire) + Len(queue)  BY <1>0, <3>2, EmptySeq
    <3>4. (wire \o queue)[Len(wire)] = wire[Len(wire)]  BY <1>0, <3>3, AllGroups
    <3>5. Len(wire) = Len(wire) + Len(queue)  BY <1>0, <3>2, <3>3, <3>4 DEF OneIsOpen
    <3> QED BY <1>0, <3>5, EmptySeq
  <2>6. wire' # << >> => wire'[Len(wire')].closed
    <3>1. SUFFICES ASSUME wire' # << >> PROVE wire'[Len(wire')].closed  OBVIOUS
    <3>2. Len(wire) \in 1 .. Len(wire) + Len(queue) /\ Len(wire') = Len(wire)
      BY <1>0, <2>2, <3>1, EmptySeq
    <3>3. (wire' \o queue')[Len(wire)] = wire'[Len(wire)]  BY <2>2, <3>2, AllGroups
    <3> QED BY <2>2, <3>2, <3>3
  <2>7. OneIsOpen'  BY <2>1, <2>2, <2>3, <2>5, <2>6 DEF OneIsOpen
  <2>8. HeldWasTaken'  BY <2>1 DEF ClosedLast, Flight, HeldWasTaken
  <2>9. TypeOK'  BY <2>1, <2>2 DEF TypeOK
  <2>10. QueueBounded' /\ EarlyIsCounted'  BY <2>1, <2>2 DEF QueueBounded, EarlyIsCounted
  <2> QED BY <2>4, <2>7, <2>8, <2>9, <2>10
<1>5. CASE Watch
  <2>1. last # None /\ last' = [last EXCEPT !.held = @ \/ use = "held"]
    BY <1>5 DEF Watch
  <2>2. last \in InFlight  BY <2>1 DEF TypeOK
  <2>3. last' \in InFlight /\ (last'.held <=> last.held \/ use = "held")
    BY <2>1, <2>2 DEF InFlight
  <2>4. UNCHANGED <<group_open, queue, wire, open, use, unpaced, written, early>>
    BY <1>5 DEF Watch
  <2>5. HeldWasTaken'  BY <2>1, <2>3, <2>4 DEF HeldWasTaken
  <2> QED BY <2>3, <2>4, <2>5 DEF TypeOK, InOrder, OneIsOpen, QueueBounded, EarlyIsCounted
<1>6. CASE Serve
  <2>1. use' \in Use /\ use' # "untaken"  BY <1>6 DEF Serve, Use
  <2>2. UNCHANGED <<group_open, queue, wire, open, last, unpaced, written, early>>
    BY <1>6 DEF Serve
  <2> QED BY <2>1, <2>2
        DEF TypeOK, InOrder, OneIsOpen, QueueBounded, EarlyIsCounted, HeldWasTaken
<1>7. CASE Tick
  <2>1. last # None /\ last' = [last EXCEPT !.finished = @ + 1]
    BY <1>7 DEF Tick
  <2>2. last \in InFlight  BY <2>1 DEF TypeOK
  <2>3. last' \in InFlight /\ last'.held = last.held
    BY <2>1, <2>2 DEF InFlight
  <2>4. UNCHANGED <<group_open, queue, wire, open, use, unpaced, written, early>>
    BY <1>7 DEF Tick
  <2>5. HeldWasTaken'  BY <2>1, <2>3, <2>4 DEF HeldWasTaken
  <2> QED BY <2>3, <2>4, <2>5 DEF TypeOK, InOrder, OneIsOpen, QueueBounded, EarlyIsCounted
<1>8. CASE UNCHANGED vars
  BY <1>8 DEF vars, TypeOK, InOrder, OneIsOpen, QueueBounded, EarlyIsCounted, HeldWasTaken
<1> QED BY <1>1, <1>2, <1>3, <1>4, <1>5, <1>6, <1>7, <1>8 DEF Next

\* Every behaviour keeps the invariant, and so each of its parts.
LEMMA Invariant == Spec => []IInv
<1> QED BY InitIInv, NextIInv, PTL DEF Spec

\* Every variable of the pacer keeps to its type.
THEOREM PacerTypes == Spec => []TypeOK
<1>1. IInv => TypeOK  BY DEF IInv
<1> QED BY Invariant, <1>1, PTL

\* The groups leave in the order they were cut in, once each, with the frames
\* written into them: what Pacer::release promises ("oldest first").
THEOREM PacerInOrder == Spec => []InOrder
<1>1. IInv => InOrder  BY DEF IInv
<1> QED BY Invariant, <1>1, PTL

\* A frame always finds the group it belongs to: the panic of Pacer::write is
\* out of reach, and Pacer::open is set only with the queue empty, as its
\* comment says.
THEOREM PacerOneIsOpen == Spec => []OneIsOpen
<1>1. IInv => OneIsOpen  BY DEF IInv
<1> QED BY Invariant, <1>1, PTL

\* No more than QUEUE_MAX groups are ever held back between two calls.
THEOREM PacerQueueBounded == Spec => []QueueBounded
<1>1. IInv => QueueBounded  BY DEF IInv
<1> QED BY Invariant, <1>1, PTL

\* Every group that goes out while a session still has the one ahead to deliver
\* is counted in Stats::unpaced.
THEOREM PacerEarlyIsCounted == Spec => []EarlyIsCounted
<1>1. IInv => EarlyIsCounted  BY DEF IInv
<1> QED BY Invariant, <1>1, PTL

-----------------------------------------------------------------------------
(* What a step may do to the wire.                                         *)

\* What was on the wire stays there through a look, and if anything went out
\* there was a queue.
LEMMA LookGrows ==
  ASSUME NEW q \in Seq(Group), NEW w \in Seq(Group), NEW flight,
         NEW subscribed \in BOOLEAN, LetOut(q, w, flight, subscribed)
  PROVE  /\ Len(w) \in Nat /\ Len(wire') \in Nat /\ Len(wire') >= Len(w)
         /\ \A g \in 1 .. Len(w) : wire'[g] = w[g]
         /\ Len(wire') > Len(w) => q # << >>
<1> DEFINE n == Going(q, flight, subscribed)
<1>1. n \in 0 .. Len(q) /\ Len(q) \in Nat /\ Len(w) \in Nat  BY GoingBound, LenProperties
<1>2. wire' = w \o Goes(q, n)  BY DEF LetOut, Goes
<1> HIDE DEF n
<1>3. Len(wire') = Len(w) + n /\ \A g \in 1 .. Len(w) : wire'[g] = w[g]
  BY <1>1, <1>2, Split
<1>4. n > 0 => q # << >>  BY <1>1, EmptySeq
<1> QED BY <1>1, <1>3, <1>4

\* A step leaves what is on the wire alone, but for the newest group while it
\* is written, and puts nothing behind a group that is still written.
LEMMA StepGrows == IInv /\ [Next]_vars => [Grows]_wire
<1> SUFFICES ASSUME IInv, [Next]_vars, wire' # wire PROVE Grows  OBVIOUS
<1> USE DEF IInv
<1>0. /\ queue \in Seq(Group) /\ wire \in Seq(Group)
      /\ Len(wire) \in Nat /\ Len(queue) \in Nat
      /\ wire # << >> => Len(wire) \in 1 .. Len(wire)
  BY LenProperties, EmptySeq DEF TypeOK
<1>1. /\ ClosedQueue \in Seq(Group)
      /\ ClosedWire \in Seq(Group) /\ Len(ClosedWire) = Len(wire)
      /\ \A g \in 1 .. Len(wire) : wire[g].closed \/ g < Len(wire) => ClosedWire[g] = wire[g]
      /\ wire # << >> => ClosedWire[Len(wire)].closed
  <2>1. CASE OnWire
    <3>1. wire # << >> /\ ~wire[Len(wire)].closed  BY <2>1 DEF OnWire, OneIsOpen
    <3>2. ClosedWire = [wire EXCEPT ![Len(wire)].closed = TRUE]  BY <2>1 DEF ClosedWire
    <3>3. \A g \in 1 .. Len(wire) : g # Len(wire) => ClosedWire[g] = wire[g]
      BY <1>0, <3>2
    <3>4. ClosedWire[Len(wire)].closed  BY <3>1, <3>2, <1>0, LastClosed
    <3> QED BY <1>0, <3>1, <3>3, <3>4, AllClosed
  <2>2. CASE ~OnWire
    <3>1. ClosedWire = wire  BY <2>2 DEF ClosedWire
    <3>2. wire # << >> => wire[Len(wire)].closed
      <4>1. CASE ~open  BY <4>1 DEF OneIsOpen
      <4>2. CASE queue # << >> /\ wire # << >>
        <5>1. /\ Len(queue) > 0
              /\ Len(wire \o queue) = Len(wire) + Len(queue)
              /\ (wire \o queue)[Len(wire)] = wire[Len(wire)]
          BY <1>0, <4>2, EmptySeq, AllGroups
        <5> QED BY <1>0, <4>2, <5>1 DEF OneIsOpen
      <4> QED BY <2>2, <4>1, <4>2 DEF OnWire
    <3> QED BY <1>0, <3>1, <3>2, AllClosed
  <2> QED BY <2>1, <2>2
<1>2. ASSUME NEW subscribed \in BOOLEAN, Open(subscribed) PROVE Grows
  <2> DEFINE q == Append(ClosedQueue, [frames |-> 0, closed |-> FALSE])
  <2>1. LetOut(q, ClosedWire, ClosedLast, subscribed)  BY <1>2 DEF Open
  <2>2. q \in Seq(Group)
    <3>1. [frames |-> 0, closed |-> FALSE] \in Group  BY DEF Group
    <3> QED BY <1>1, <3>1, AppendProperties
  <2> HIDE DEF q
  <2>3. /\ Len(wire') \in Nat /\ Len(wire') >= Len(wire)
        /\ \A g \in 1 .. Len(wire) : wire'[g] = ClosedWire[g]
    BY <1>1, <2>1, <2>2, LookGrows
  <2> QED BY <1>0, <1>1, <2>3 DEF Grows
<1>3. CASE Write
  <2>1. CASE queue # << >>  BY <1>3, <2>1 DEF Write
  <2>2. CASE queue = << >>
    <3>1. wire' = [wire EXCEPT ![Len(wire)].frames = @ + 1] /\ group_open
      BY <1>3, <2>2 DEF Write
    <3>2. wire # << >> /\ wire \o queue = wire
      BY <1>0, <2>2, <3>1, ConcatEmptySeq DEF OneIsOpen
    <3>3. ~wire[Len(wire)].closed  BY <1>0, <3>1, <3>2 DEF OneIsOpen
    <3>4. Len(wire') = Len(wire) /\ \A g \in 1 .. Len(wire) : g # Len(wire) => wire'[g] = wire[g]
      BY <1>0, <3>1, <3>2, OneMore
    <3> QED BY <1>0, <3>3, <3>4 DEF Grows
  <2> QED BY <2>1, <2>2
<1>4. CASE Close
  <2>1. wire' = ClosedWire  BY <1>4 DEF Close
  <2> QED BY <1>0, <1>1, <2>1 DEF Grows
<1>5. ASSUME NEW subscribed \in BOOLEAN, Release(subscribed) PROVE Grows
  <2>1. LetOut(queue, wire, last, subscribed)  BY <1>5 DEF Release
  <2>2. /\ Len(wire') \in Nat /\ Len(wire') >= Len(wire)
        /\ \A g \in 1 .. Len(wire) : wire'[g] = wire[g]
        /\ Len(wire') > Len(wire) => queue # << >>
    BY <1>0, <2>1, LookGrows
  <2>3. queue # << >> /\ wire # << >> => wire[Len(wire)].closed
    BY <1>1 DEF ClosedWire, OnWire
  <2> QED BY <1>0, <2>2, <2>3 DEF Grows
<1>6. CASE Watch \/ Serve \/ Tick \/ UNCHANGED vars
  BY <1>6 DEF Watch, Serve, Tick, vars
<1> QED BY <1>2, <1>3, <1>4, <1>5, <1>6 DEF Next

\* What is on the wire is never taken back, and a group goes out only once the
\* one ahead of it is finished.
THEOREM PacerWireGrows == Spec => WireGrows
<1> QED BY Invariant, StepGrows, PTL DEF Spec, WireGrows

-----------------------------------------------------------------------------
(* That Pacer implements Paced: what the publisher's session counts on     *)
(* holds of the queue as it is written.  The invariant is strengthened by  *)
(* what is known of the group in flight: it is finished no longer ago than *)
(* the longest wait, at which time stops in Pacer; and while the newest    *)
(* group is written on the wire there is none, nor is that group gone.     *)

\* No wait is longer than DELIVER_MAX.
WaitsEnd == last # None => last.finished <= DeliverMax

\* No group is in flight while the newest one is written on the wire.
NoneInFlight == open => last = None /\ use # "gone"

RInv == IInv /\ WaitsEnd /\ NoneInFlight

\* What a flight means to the next group.
FlightAs(flight) ==
  IF flight = None THEN "none"
  ELSE IF use = "gone" \/ flight.finished = DeliverMax THEN "past"
  ELSE IF Settled(flight) = "no" THEN "going" ELSE "settled"

\* The refinement mapping of AsPaced.
Shadow ==
  [cut |-> Len(written), out |-> Len(wire), open |-> group_open, flight |-> FlightAs(last)]

-----------------------------------------------------------------------------
(* The group in flight.                                                    *)

\* A flight holds the next group back just if the verdict on it does.
LEMMA FlightVerdict ==
  ASSUME NEW flight \in InFlight \cup {None}, flight # None => flight.finished <= DeliverMax
  PROVE  Verdict(flight, TRUE) = "no" <=> FlightAs(flight) = "going"
<1>1. DeliverMax \in Nat  BY PacerAssumption
<1>2. CASE flight = None  BY <1>2 DEF Verdict, FlightAs
<1>3. CASE flight # None
  <2>1. flight.finished \in Nat  BY <1>3 DEF InFlight
  <2>2. Verdict(flight, TRUE) = Settled(flight)  BY <1>3 DEF Verdict
  <2>3. CASE use = "gone"  BY <1>3, <2>2, <2>3 DEF FlightAs, Settled
  <2>4. CASE use # "gone" /\ flight.finished = DeliverMax
    BY <1>1, <1>3, <2>1, <2>2, <2>4 DEF FlightAs, Settled
  <2>5. CASE use # "gone" /\ flight.finished # DeliverMax
    BY <1>3, <2>2, <2>5 DEF FlightAs
  <2> QED BY <2>3, <2>4, <2>5
<1> QED BY <1>2, <1>3

\* A group that was only just finished holds the next one back.
LEMMA JustFinished ==
  ASSUME NEW h \in BOOLEAN, use # "gone"
  PROVE  FlightAs([finished |-> 0, held |-> h]) = "going"
<1> DEFINE f == [finished |-> 0, held |-> h]
<1>1. f \in InFlight /\ f.finished = 0  BY DEF InFlight
<1>2. f # None  BY <1>1, PacerAssumption DEF InFlight
<1>3. DeliverMax > 0 /\ Spacing > 0 /\ DeliverMax \in Nat /\ Spacing \in Nat
  BY PacerAssumption
<1> HIDE DEF f
<1>4. Settled(f) = "no"  BY <1>1, <1>3 DEF Settled
<1>5. f.finished # DeliverMax  BY <1>1, <1>3
<1>6. FlightAs(f) = "going"  BY <1>2, <1>4, <1>5 DEF FlightAs
<1> QED BY <1>6 DEF f

\* That it is seen held changes nothing for as long as it is held.
LEMMA SeenHeld ==
  ASSUME NEW flight \in InFlight
  PROVE  LET seen == [flight EXCEPT !.held = @ \/ use = "held"]
         IN  /\ seen \in InFlight /\ seen.finished = flight.finished
             /\ FlightAs(seen) = FlightAs(flight)
<1> DEFINE seen == [flight EXCEPT !.held = @ \/ use = "held"]
<1>1. flight.held \in BOOLEAN /\ flight.finished \in Nat  BY DEF InFlight
<1>2. (flight.held \/ use = "held") \in BOOLEAN  BY <1>1, Zenon
<1>3. /\ seen \in InFlight /\ seen.finished = flight.finished
      /\ seen.held = (flight.held \/ use = "held")
  BY <1>2 DEF InFlight
<1> HIDE DEF seen
<1>4. Settled(seen) = Settled(flight)
  <2>1. CASE use = "held"  BY <1>3, <2>1 DEF Settled
  <2>2. CASE use # "held"
    <3>1. seen.held = flight.held  BY <1>1, <1>3, <2>2, Zenon
    <3> QED BY <1>3, <3>1 DEF Settled
  <2> QED BY <2>1, <2>2
<1>5. seen # None /\ flight # None  BY <1>3, PacerAssumption DEF InFlight
<1> QED BY <1>3, <1>4, <1>5 DEF FlightAs, seen

-----------------------------------------------------------------------------
(* A look at the queue.                                                    *)

\* As many groups leave as Paced says.
LEMMA GoingIsLeaving ==
  ASSUME NEW q \in Seq(Group), NEW flight \in InFlight \cup {None}, NEW subscribed \in BOOLEAN,
         flight # None => flight.finished <= DeliverMax,
         NEW p, p.cut - p.out = Len(q), p.flight = FlightAs(flight)
  PROVE  Going(q, flight, subscribed) = AsPaced!Leaving(p, subscribed)
<1>1. Len(q) \in Nat /\ QueueMax \in Nat  BY LenProperties, PacerAssumption
<1>2. AsPaced!Queued(p) = Len(q)  BY DEF AsPaced!Queued
<1>3. AsPaced!Excess(p) = Over(q)  BY <1>2 DEF AsPaced!Excess, Over
<1>4. Over(q) \in Nat /\ Over(q) <= Len(q)  BY <1>1 DEF Over
<1>5. q # << >> <=> Len(q) > 0  BY <1>1, EmptySeq
<1>6. Max({1, Over(q)}) = IF 1 >= Over(q) THEN 1 ELSE Over(q)  BY <1>4, MaxOfTwo
<1>7. CASE ~subscribed  BY <1>2, <1>7 DEF Going, AsPaced!Leaving
<1>8. CASE subscribed
  <2>1. Verdict(flight, subscribed) = "no" <=> p.flight = "going"
    BY <1>8, FlightVerdict DEF Verdict
  <2>2. AsPaced!Leaving(p, subscribed)
          = IF p.flight = "going" \/ Over(q) > 0 \/ Len(q) = 0 THEN Over(q) ELSE 1
    BY <1>2, <1>3, <1>8 DEF AsPaced!Leaving
  <2>3. Going(q, flight, subscribed)
          = IF q # << >> /\ Verdict(flight, subscribed) # "no" THEN Max({1, Over(q)}) ELSE Over(q)
    BY <1>8 DEF Going
  <2>4. CASE q # << >> /\ Verdict(flight, subscribed) # "no"
    BY <1>4, <1>5, <1>6, <2>1, <2>2, <2>3, <2>4
  <2>5. CASE ~(q # << >> /\ Verdict(flight, subscribed) # "no")
    <3>1. Going(q, flight, subscribed) = Over(q)  BY <2>3, <2>5
    <3>2. p.flight = "going" \/ Len(q) = 0  BY <1>1, <1>5, <2>1, <2>5
    <3> QED BY <2>2, <3>1, <3>2
  <2> QED BY <2>4, <2>5
<1> QED BY <1>7, <1>8

\* A look at the queue is one of Paced.
LEMMA LookRefines ==
  ASSUME NEW q \in Seq(Group), NEW w \in Seq(Group),
         NEW flight \in InFlight \cup {None}, NEW subscribed \in BOOLEAN,
         flight # None => flight.finished <= DeliverMax,
         open /\ w = wire => flight = None /\ use # "gone",
         group_open' \in BOOLEAN, Len(written') = Len(w) + Len(q),
         \A g \in 1 .. Len(q) : q[g].closed <=> ~(group_open' /\ g = Len(q)),
         LetOut(q, w, flight, subscribed)
  PROVE  /\ Shadow' = AsPaced!Looked([cut |-> Len(w) + Len(q), out |-> Len(w),
                                      open |-> group_open', flight |-> FlightAs(flight)],
                                     subscribed)
         /\ WaitsEnd' /\ NoneInFlight'
<1> DEFINE n == Going(q, flight, subscribed)
           p == [cut |-> Len(w) + Len(q), out |-> Len(w), open |-> group_open',
                 flight |-> FlightAs(flight)]
<1>1. n \in 0 .. Len(q) /\ Len(q) \in Nat /\ Len(w) \in Nat
  BY GoingBound, LenProperties
<1>2. /\ wire' = w \o Goes(q, n)
      /\ \/ /\ n = 0
            /\ last' = IF q # << >> /\ flight # None
                       THEN [flight EXCEPT !.held = @ \/ use = "held"] ELSE flight
            /\ UNCHANGED use
         \/ /\ n > 0
            /\ last' = IF q[n].closed THEN [finished |-> 0, held |-> FALSE] ELSE None
            /\ use' = "untaken"
      /\ open' = IF n > 0 THEN Live(q[n]) ELSE open /\ w = wire
  BY DEF LetOut, Goes
<1>3. Len(wire') = Len(w) + n  BY <1>1, <1>2, Split
<1>4. n = AsPaced!Leaving(p, subscribed)
  <2>1. p.cut - p.out = Len(q) /\ p.flight = FlightAs(flight)  BY <1>1
  <2> HIDE DEF p
  <2> QED BY <2>1, GoingIsLeaving
<1>5. AsPaced!Looked(p, subscribed) =
        IF n = 0 THEN p
        ELSE [cut |-> Len(w) + Len(q), out |-> Len(w) + n, open |-> group_open',
              flight |-> IF group_open' /\ n = Len(q) THEN "none" ELSE "going"]
  <2> DEFINE out == p.out + AsPaced!Leaving(p, subscribed)
  <2>1. out = Len(w) + n /\ p.out = Len(w) /\ p.cut = Len(w) + Len(q)  BY <1>4
  <2>2. (out = p.out <=> n = 0) /\ (out = p.cut <=> n = Len(q))
    <3> HIDE DEF n, p, out
    <3> QED BY <1>1, <2>1
  <2>3. AsPaced!Looked(p, subscribed) =
          IF out = p.out THEN p
          ELSE [p EXCEPT !.out = out,
                         !.flight = IF p.open /\ out = p.cut THEN "none" ELSE "going"]
    BY DEF AsPaced!Looked
  <2> HIDE DEF n, out
  <2> QED BY <2>1, <2>2, <2>3
<1> HIDE DEF n
<1>6. DeliverMax \in Nat  BY PacerAssumption
<1>7. CASE n = 0
  <2>1. Shadow' = [cut |-> Len(w) + Len(q), out |-> Len(w), open |-> group_open',
                   flight |-> FlightAs(last)']
    BY <1>1, <1>3, <1>7 DEF Shadow
  <2>2. use' = use  BY <1>2, <1>7
  <2>3. FlightAs(last)' = FlightAs(last')  BY <2>2 DEF FlightAs, Settled
  <2>4. FlightAs(last') = FlightAs(flight) /\ WaitsEnd'
    <3>1. CASE q # << >> /\ flight # None
      <4>1. last' = [flight EXCEPT !.held = @ \/ use = "held"]  BY <1>2, <1>7, <3>1
      <4>2. flight \in InFlight  BY <3>1
      <4> QED BY <3>1, <4>1, <4>2, SeenHeld DEF WaitsEnd
    <3>2. CASE ~(q # << >> /\ flight # None)
      <4>1. last' = flight  BY <1>2, <1>7, <3>2
      <4> QED BY <4>1 DEF WaitsEnd
    <3> QED BY <3>1, <3>2
  <2>5. NoneInFlight'
    <3>1. open' = (open /\ w = wire)  BY <1>2, <1>7
    <3>2. last' = IF q # << >> /\ flight # None
                  THEN [flight EXCEPT !.held = @ \/ use = "held"] ELSE flight
      BY <1>2, <1>7
    <3> QED BY <2>2, <3>1, <3>2 DEF NoneInFlight
  <2> QED BY <1>5, <1>7, <2>1, <2>3, <2>4, <2>5
<1>8. CASE n > 0
  <2>1. /\ last' = IF q[n].closed THEN [finished |-> 0, held |-> FALSE] ELSE None
        /\ use' = "untaken" /\ open' = ~q[n].closed
    BY <1>2, <1>8 DEF Live
  <2>2. q[n].closed <=> ~(group_open' /\ n = Len(q))  BY <1>1, <1>8
  <2>3. FlightAs(last)' = IF group_open' /\ n = Len(q) THEN "none" ELSE "going"
    <3>1. CASE q[n].closed
      <4>1. last' = [finished |-> 0, held |-> FALSE] /\ use' # "gone"  BY <2>1, <3>1
      <4>2. (last' \in InFlight) /\ last'.finished = 0  BY <4>1 DEF InFlight
      <4>3. last' # None  BY <4>2, PacerAssumption DEF InFlight
      <4>4. DeliverMax > 0 /\ Spacing > 0 /\ Spacing \in Nat  BY PacerAssumption
      <4>5. Settled(last)' = "no"  BY <1>6, <4>1, <4>2, <4>4 DEF Settled
      <4>6. last'.finished # DeliverMax  BY <1>6, <4>2, <4>4
      <4>7. FlightAs(last)' = "going"  BY <4>1, <4>3, <4>5, <4>6 DEF FlightAs
      <4> QED BY <2>2, <3>1, <4>7
    <3>2. CASE ~q[n].closed
      <4>1. last' = None  BY <2>1, <3>2
      <4>2. FlightAs(last)' = "none"  BY <4>1 DEF FlightAs
      <4> QED BY <2>2, <3>2, <4>2
    <3> QED BY <3>1, <3>2
  <2>4. Shadow' = [cut |-> Len(w) + Len(q), out |-> Len(w) + n, open |-> group_open',
                   flight |-> FlightAs(last)']
    BY <1>3 DEF Shadow
  <2>5. WaitsEnd'  BY <1>6, <2>1 DEF WaitsEnd
  <2>6. NoneInFlight'  BY <2>1 DEF NoneInFlight
  <2> QED BY <1>5, <1>8, <2>3, <2>4, <2>5, <2>6
<1> QED BY <1>1, <1>7, <1>8
-----------------------------------------------------------------------------
(* The operations.                                                         *)

\* A pacer of a new track is one of Paced.
LEMMA InitRefines == Init => WaitsEnd /\ NoneInFlight /\ Shadow = AsPaced!Idle
<1> SUFFICES ASSUME Init PROVE WaitsEnd /\ NoneInFlight /\ Shadow = AsPaced!Idle
  OBVIOUS
<1>1. Len(written) = 0 /\ Len(wire) = 0 /\ last = None /\ ~open  BY EmptySeq DEF Init
<1>2. FlightAs(last) = "none"  BY <1>1 DEF FlightAs
<1> QED
  BY <1>1, <1>2 DEF Init, WaitsEnd, NoneInFlight, Shadow, AsPaced!Idle

\* To finish the newest group does to the shadow what Paced says.
LEMMA ClosedIsShut ==
  ASSUME RInv
  PROVE  /\ ClosedLast # None => ClosedLast.finished <= DeliverMax
         /\ open /\ ClosedWire = wire => ClosedLast = None /\ use # "gone"
         /\ AsPaced!Shut(Shadow)
              = [cut |-> Len(written), out |-> Len(wire), open |-> FALSE,
                 flight |-> FlightAs(ClosedLast)]
<1> USE DEF RInv, IInv
<1>0. /\ queue \in Seq(Group) /\ wire \in Seq(Group)
      /\ Len(wire) \in Nat /\ Len(queue) \in Nat
      /\ Len(written) = Len(wire) + Len(queue)
      /\ Len(wire \o queue) = Len(wire) + Len(queue)
  BY AllGroups DEF TypeOK, InOrder
<1>1. queue = << >> <=> Len(queue) = 0  BY <1>0, EmptySeq
<1>2. OnWire <=> group_open /\ Len(queue) = 0
  <2>1. CASE queue = << >>
    <3>1. wire \o queue = wire  BY <1>0, <2>1, ConcatEmptySeq
    <3>2. open <=> wire # << >> /\ ~wire[Len(wire)].closed  BY DEF OneIsOpen
    <3>3. wire # << >> => Len(wire) \in 1 .. Len(wire)  BY <1>0, EmptySeq
    <3>4. wire # << >> => (wire[Len(wire)].closed <=> ~group_open)
      BY <3>1, <3>3 DEF OneIsOpen
    <3>5. group_open => wire # << >>  BY <3>1 DEF OneIsOpen
    <3> QED BY <1>1, <2>1, <3>2, <3>4, <3>5 DEF OnWire
  <2>2. CASE queue # << >>  BY <1>1, <2>2 DEF OnWire
  <2> QED BY <2>1, <2>2
<1>3. DeliverMax \in Nat  BY PacerAssumption
<1>4. AsPaced!Queued(Shadow) = Len(queue)
  <2>1. Shadow.cut = Len(written) /\ Shadow.out = Len(wire)  BY DEF Shadow
  <2> QED BY <1>0, <2>1 DEF AsPaced!Queued
<1>5. AsPaced!Shut(Shadow)
        = [cut |-> Len(written), out |-> Len(wire), open |-> FALSE,
           flight |-> IF OnWire THEN "going" ELSE FlightAs(last)]
  <2>1. Shadow.open = group_open  BY DEF Shadow
  <2>2. AsPaced!Shut(Shadow) = [Shadow EXCEPT !.open = FALSE,
                                              !.flight = IF OnWire THEN "going" ELSE @]
    BY <1>2, <1>4, <2>1 DEF AsPaced!Shut
  <2> QED BY <2>2 DEF Shadow
<1>6. CASE OnWire
  <2>1. open /\ last = None /\ use # "gone"  BY <1>6 DEF OnWire, NoneInFlight
  <2>2. ClosedLast = [finished |-> 0, held |-> use = "held"]
    BY <1>6 DEF ClosedLast, Flight
  <2>3. (use = "held") \in BOOLEAN  OBVIOUS
  <2>4. FlightAs(ClosedLast) = "going"  BY <2>1, <2>2, <2>3, JustFinished
  <2>5. ClosedLast.finished <= DeliverMax  BY <1>3, <2>2
  <2>6. ClosedWire # wire
    <3>1. wire # << >> /\ ~wire[Len(wire)].closed  BY <2>1 DEF OneIsOpen
    <3>2. ClosedWire[Len(wire)].closed  BY <1>0, <1>6, <3>1, LastClosed DEF ClosedWire
    <3> QED BY <3>1, <3>2
  <2> QED BY <1>5, <1>6, <2>4, <2>5, <2>6
<1>7. CASE ~OnWire
  <2>1. ClosedLast = last  BY <1>7 DEF ClosedLast
  <2> QED BY <1>5, <1>7, <2>1 DEF WaitsEnd, NoneInFlight
<1> QED BY <1>6, <1>7

\* What the sessions and time do to a group in flight, Paced allows.
LEMMA FlightMoves ==
  ASSUME RInv, UNCHANGED <<group_open, written>>, Len(wire') = Len(wire),
         last # None, last' \in InFlight,
         FlightAs(last) = "past" => FlightAs(last)' = "past"
  PROVE  [AsPaced!Next]_Shadow
<1> DEFINE now == FlightAs(last)
           then == FlightAs(last)'
<1>1. last' # None  BY PacerAssumption DEF InFlight
<1>2. now \in {"going", "settled", "past"} /\ then \in {"going", "settled", "past"}
  BY <1>1 DEF FlightAs
<1>3. Shadow = [cut |-> Len(written), out |-> Len(wire), open |-> group_open, flight |-> now]
  BY DEF Shadow
<1>4. Shadow' = [cut |-> Len(written), out |-> Len(wire), open |-> group_open, flight |-> then]
  BY DEF Shadow
<1> HIDE DEF now, then
<1>5. Shadow' = [Shadow EXCEPT !.flight = then]  BY <1>3, <1>4
<1>6. CASE now = "past"
  <2>1. then = now  BY <1>6 DEF now, then
  <2> QED BY <1>3, <1>4, <2>1
<1>7. CASE now # "past"
  <2>1. Shadow.flight \notin {"none", "past"}  BY <1>2, <1>3, <1>7
  <2>2. then \in AsPaced!Flight \ {"none"}  BY <1>2 DEF AsPaced!Flight
  <2>3. AsPaced!Settles  BY <1>5, <2>1, <2>2, Zenon DEF AsPaced!Settles, Shadow, FlightAs
  <2> QED BY <2>3 DEF AsPaced!Next
<1> QED BY <1>6, <1>7

\* Every operation is one of Paced, or nothing to it.
LEMMA NextRefines ==
  RInv /\ [Next]_vars => WaitsEnd' /\ NoneInFlight' /\ [AsPaced!Next]_Shadow
<1> SUFFICES ASSUME RInv, [Next]_vars
             PROVE  WaitsEnd' /\ NoneInFlight' /\ [AsPaced!Next]_Shadow
  OBVIOUS
<1> USE DEF RInv, IInv
<1>0. /\ queue \in Seq(Group) /\ wire \in Seq(Group) /\ written \in Seq(Nat)
      /\ Len(wire) \in Nat /\ Len(queue) \in Nat
      /\ Len(written) = Len(wire) + Len(queue)
      /\ Len(wire \o queue) = Len(wire) + Len(queue)
  BY AllGroups DEF TypeOK, InOrder
<1>1. ASSUME NEW subscribed \in BOOLEAN, Open(subscribed)
      PROVE  WaitsEnd' /\ NoneInFlight' /\ AsPaced!Next
  <2> DEFINE new == [frames |-> 0, closed |-> FALSE]
             q == Append(ClosedQueue, new)
             m == Len(wire) + Len(queue)
  <2>1. LetOut(q, ClosedWire, ClosedLast, subscribed) /\ written' = Append(written, 0)
        /\ group_open' = TRUE
    BY <1>1 DEF Open
  <2>2. /\ ClosedQueue \in Seq(Group) /\ Len(ClosedQueue) = Len(queue)
        /\ ClosedWire \in Seq(Group) /\ Len(ClosedWire) = Len(wire)
        /\ ClosedLast \in InFlight \cup {None}
        /\ \A g \in 1 .. m : (ClosedWire \o ClosedQueue)[g].closed
    BY AllClosed
  <2>3. new \in Group /\ ~new.closed  BY DEF Group
  <2>4. /\ q \in Seq(Group) /\ Len(q) = Len(queue) + 1
        /\ q[Len(queue) + 1] = new
        /\ \A g \in 1 .. Len(queue) : q[g] = ClosedQueue[g]
    BY <1>0, <2>2, <2>3, AppendProperties
  <2>5. Len(written') = m + 1  BY <1>0, <2>1, AppendProperties
  <2> HIDE DEF q, new
  <2>6. \A g \in 1 .. Len(q) : q[g].closed <=> ~(group_open' /\ g = Len(q))
    <3>1. ASSUME NEW g \in 1 .. Len(queue) PROVE q[g].closed
      <4>1. Len(wire) + g \in 1 .. m  BY <1>0
      <4>2. ~(Len(wire) + g <= Len(wire)) /\ (Len(wire) + g) - Len(wire) = g  BY <1>0
      <4>3. (ClosedWire \o ClosedQueue)[Len(wire) + g] = ClosedQueue[g]
        BY <2>2, <4>1, <4>2, AllGroups
      <4> QED BY <2>2, <2>4, <4>1, <4>3
    <3> QED BY <1>0, <2>1, <2>3, <2>4, <3>1
  <2>7. /\ ClosedLast # None => ClosedLast.finished <= DeliverMax
        /\ open /\ ClosedWire = wire => ClosedLast = None /\ use # "gone"
        /\ AsPaced!Shut(Shadow)
             = [cut |-> Len(written), out |-> Len(wire), open |-> FALSE,
                flight |-> FlightAs(ClosedLast)]
    BY ClosedIsShut
  <2> DEFINE p == [cut |-> Len(ClosedWire) + Len(q), out |-> Len(ClosedWire),
                   open |-> group_open', flight |-> FlightAs(ClosedLast)]
  <2>8. /\ Shadow' = AsPaced!Looked(p, subscribed) /\ WaitsEnd' /\ NoneInFlight'
    <3>1. Len(written') = Len(ClosedWire) + Len(q)  BY <1>0, <2>2, <2>4, <2>5
    <3>2. group_open' \in BOOLEAN  BY <2>1
    <3> QED BY <2>1, <2>2, <2>4, <2>6, <2>7, <3>1, <3>2, LookRefines
  <2>9. p = [AsPaced!Shut(Shadow) EXCEPT !.cut = @ + 1, !.open = TRUE]
    <3>1. Len(ClosedWire) + Len(q) = Len(written) + 1  BY <1>0, <2>2, <2>4
    <3>2. p = [cut |-> Len(written) + 1, out |-> Len(wire), open |-> TRUE,
               flight |-> FlightAs(ClosedLast)]
      BY <2>1, <2>2, <3>1
    <3> DEFINE shut == [cut |-> Len(written), out |-> Len(wire), open |-> FALSE,
                        flight |-> FlightAs(ClosedLast)]
    <3>3. shut.cut = Len(written)  OBVIOUS
    <3>4. [shut EXCEPT !.cut = @ + 1, !.open = TRUE]
            = [shut EXCEPT !.cut = Len(written) + 1, !.open = TRUE]
      BY <3>3, Zenon
    <3>5. ASSUME NEW s, s = [shut EXCEPT !.cut = Len(written) + 1, !.open = TRUE]
          PROVE  s = [cut |-> Len(written) + 1, out |-> Len(wire), open |-> TRUE,
                      flight |-> FlightAs(ClosedLast)]
      BY <3>5, Zenon
    <3>6. AsPaced!Shut(Shadow) = shut  BY <2>7
    <3> HIDE DEF p, shut
    <3> QED BY <3>2, <3>4, <3>5, <3>6, Zenon
  <2> HIDE DEF p
  <2>10. Shadow' = AsPaced!Begun(Shadow, subscribed)
    BY <2>8, <2>9 DEF AsPaced!Begun
  <2>11. AsPaced!Next  BY <2>10, Zenon DEF AsPaced!Next, Shadow, FlightAs
  <2> QED BY <2>8, <2>11
<1>2. CASE Write
  <2>1. /\ group_open
        /\ written' = [written EXCEPT ![Len(written)] = @ + 1]
        /\ UNCHANGED <<group_open, open, last, use>>
        /\ IF queue # << >>
           THEN queue' = [queue EXCEPT ![Len(queue)].frames = @ + 1] /\ UNCHANGED wire
           ELSE wire' = [wire EXCEPT ![Len(wire)].frames = @ + 1] /\ UNCHANGED queue
    BY <1>2 DEF Write
  <2>2. Len(written') = Len(written)  BY <1>0, <2>1
  <2>3. Len(wire') = Len(wire)  BY <1>0, <2>1
  <2>4. FlightAs(last)' = FlightAs(last)  BY <2>1 DEF FlightAs, Settled
  <2>5. UNCHANGED Shadow  BY <2>1, <2>2, <2>3, <2>4 DEF Shadow
  <2> QED BY <2>1, <2>5 DEF WaitsEnd, NoneInFlight
<1>3. CASE Close
  <2>1. /\ group_open' = FALSE
        /\ queue' = ClosedQueue /\ wire' = ClosedWire /\ last' = ClosedLast
        /\ open' = (open /\ queue # << >>)
        /\ UNCHANGED <<use, written>>
    BY <1>3 DEF Close
  <2>2. /\ ClosedLast # None => ClosedLast.finished <= DeliverMax
        /\ AsPaced!Shut(Shadow)
             = [cut |-> Len(written), out |-> Len(wire), open |-> FALSE,
                flight |-> FlightAs(ClosedLast)]
    BY ClosedIsShut
  <2>3. Len(ClosedWire) = Len(wire)  BY AllClosed
  <2>4. FlightAs(last)' = FlightAs(ClosedLast)  BY <2>1 DEF FlightAs, Settled
  <2>5. Shadow' = AsPaced!Shut(Shadow)  BY <2>1, <2>2, <2>3, <2>4 DEF Shadow
  <2>6. AsPaced!Next  BY <2>5, Zenon DEF AsPaced!Next, Shadow, FlightAs
  <2>7. open' => last' = None /\ use' # "gone"
    BY <2>1 DEF ClosedLast, OnWire, NoneInFlight
  <2> QED BY <2>1, <2>2, <2>6, <2>7 DEF WaitsEnd, NoneInFlight
<1>4. ASSUME NEW subscribed \in BOOLEAN, Release(subscribed)
      PROVE  WaitsEnd' /\ NoneInFlight' /\ AsPaced!Next
  <2>1. LetOut(queue, wire, last, subscribed) /\ UNCHANGED <<group_open, written>>
    BY <1>4 DEF Release
  <2>2. last \in InFlight \cup {None} /\ (last # None => last.finished <= DeliverMax)
    BY DEF TypeOK, WaitsEnd
  <2>3. open /\ wire = wire => last = None /\ use # "gone"  BY DEF NoneInFlight
  <2>4. group_open' \in BOOLEAN /\ Len(written') = Len(wire) + Len(queue)
    BY <1>0, <2>1 DEF TypeOK
  <2>5. \A g \in 1 .. Len(queue) : queue[g].closed <=> ~(group_open' /\ g = Len(queue))
    <3> TAKE g \in 1 .. Len(queue)
    <3>1. /\ Len(wire) + g \in 1 .. Len(wire \o queue)
          /\ Len(wire) + g = Len(wire \o queue) <=> g = Len(queue)
          /\ ~(Len(wire) + g <= Len(wire)) /\ (Len(wire) + g) - Len(wire) = g
      BY <1>0
    <3>2. (wire \o queue)[Len(wire) + g] = queue[g]  BY <1>0, <3>1, AllGroups
    <3>3. group_open' = group_open  BY <2>1
    <3>4. (wire \o queue)[Len(wire) + g].closed
            <=> ~(group_open /\ Len(wire) + g = Len(wire \o queue))
      BY <3>1 DEF OneIsOpen
    <3> QED BY <3>1, <3>2, <3>3, <3>4
  <2>6. /\ Shadow' = AsPaced!Looked([cut |-> Len(wire) + Len(queue), out |-> Len(wire),
                                     open |-> group_open', flight |-> FlightAs(last)],
                                    subscribed)
        /\ WaitsEnd' /\ NoneInFlight'
    BY <1>0, <2>1, <2>2, <2>3, <2>4, <2>5, LookRefines
  <2>7. Shadow = [cut |-> Len(wire) + Len(queue), out |-> Len(wire),
                  open |-> group_open', flight |-> FlightAs(last)]
    BY <1>0, <2>1 DEF Shadow
  <2>8. Shadow' = AsPaced!Looked(Shadow, subscribed)  BY <2>6, <2>7
  <2>9. AsPaced!Next  BY <2>8, Zenon DEF AsPaced!Next, Shadow, FlightAs
  <2> QED BY <2>6, <2>9
<1>5. CASE Watch
  <2>1. /\ last # None /\ last \in InFlight
        /\ last' = [last EXCEPT !.held = @ \/ use = "held"]
        /\ UNCHANGED <<group_open, wire, open, use, written>>
    BY <1>5 DEF Watch, TypeOK
  <2>2. last' \in InFlight /\ last'.finished = last.finished /\ FlightAs(last') = FlightAs(last)
    BY <2>1, SeenHeld
  <2>3. FlightAs(last)' = FlightAs(last')  BY <2>1 DEF FlightAs, Settled
  <2>4. UNCHANGED Shadow  BY <2>1, <2>2, <2>3 DEF Shadow
  <2> QED BY <2>1, <2>2, <2>4 DEF WaitsEnd, NoneInFlight
<1>6. CASE Serve
  <2>1. UNCHANGED <<group_open, wire, open, last, written>>  BY <1>6 DEF Serve
  <2>2. last = None => use' # "gone"
    BY <1>6 DEF Serve, NoneInFlight
  <2>3. WaitsEnd' /\ NoneInFlight'  BY <1>6, <2>1, <2>2 DEF WaitsEnd, NoneInFlight, Serve
  <2>4. CASE last = None
    <3>1. FlightAs(last)' = FlightAs(last)  BY <2>1, <2>4 DEF FlightAs
    <3> QED BY <2>1, <2>3, <3>1 DEF Shadow
  <2>5. CASE last # None
    <3>1. last' \in InFlight  BY <2>1, <2>5 DEF TypeOK
    <3>2. FlightAs(last) = "past" => FlightAs(last)' = "past"
      BY <1>6, <2>1, <2>5 DEF FlightAs, Serve
    <3> QED BY <2>1, <2>3, <2>5, <3>1, <3>2, FlightMoves
  <2> QED BY <2>4, <2>5
<1>7. CASE Tick
  <2>1. /\ last # None /\ last \in InFlight /\ last.finished < DeliverMax
        /\ last' = [last EXCEPT !.finished = @ + 1]
        /\ UNCHANGED <<group_open, wire, open, use, written>>
    BY <1>7 DEF Tick, TypeOK
  <2>2. DeliverMax \in Nat /\ last.finished \in Nat  BY <2>1, PacerAssumption DEF InFlight
  <2>3. last' \in InFlight /\ last'.finished = last.finished + 1  BY <2>1, <2>2 DEF InFlight
  <2>4. WaitsEnd' /\ NoneInFlight'  BY <2>1, <2>2, <2>3 DEF WaitsEnd, NoneInFlight
  <2>5. FlightAs(last) = "past" => FlightAs(last)' = "past"
    <3>1. FlightAs(last) = "past" => use = "gone"  BY <2>1, <2>2 DEF FlightAs
    <3>2. last' # None  BY <2>3, PacerAssumption DEF InFlight
    <3> QED BY <2>1, <3>1, <3>2 DEF FlightAs
  <2> QED BY <2>1, <2>3, <2>4, <2>5, FlightMoves
<1>8. CASE UNCHANGED vars
  <2>1. FlightAs(last)' = FlightAs(last)  BY <1>8 DEF vars, FlightAs, Settled
  <2> QED BY <1>8, <2>1 DEF vars, WaitsEnd, NoneInFlight, Shadow
<1> QED BY <1>1, <1>2, <1>3, <1>4, <1>5, <1>6, <1>7, <1>8 DEF Next

\* Every operation of the pacer does to its groups what the publisher's session
\* counts on: each cut goes to the end, a look lets out what Paced says, and a
\* group in flight that may be left behind stays so.
THEOREM PacerImplements == Spec => ImplementsPaced
<1>1. Init => RInv /\ AsPaced!Init
  <2>1. AsPaced!Init <=> Shadow = AsPaced!Idle
    BY Zenon DEF AsPaced!Init, Shadow, FlightAs
  <2> QED BY <2>1, InitIInv, InitRefines DEF RInv
<1>2. RInv /\ [Next]_vars => RInv' /\ [AsPaced!Next]_Shadow
  <2>1. RInv => IInv  BY DEF RInv
  <2> QED BY <2>1, NextIInv, NextRefines DEF RInv
<1> QED BY <1>1, <1>2, PTL DEF Spec, ImplementsPaced, AsPaced!Spec, Shadow, FlightAs
=============================================================================
