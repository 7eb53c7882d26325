----------------------------- MODULE CatalogNames -----------------------------
(***************************************************************************)
(* The names and rows of a broadcast: how a publisher names its tracks     *)
(* from the relation it is handed (`track_names_for_rows` in               *)
(* core/src/catalog.rs), and how a reader gets the relation back from the  *)
(* catalog alone (`parse`, `rows`), with the ports and the relation its    *)
(* node declares (`ports`, `relation` in subscribe/src/module.rs).         *)
(*                                                                         *)
(* A name is the sequence of its parts.  The catalog lists each section    *)
(* alphabetically; what is said here is said of every order.               *)
(***************************************************************************)
EXTENDS Integers, Sequences, FiniteSets, FiniteSetsExt, SequencesExt

CONSTANT None \* no name given

AudioSuffix == <<".", "audio">>
Base == [video |-> <<"video">>, audio |-> <<"audio">>, data |-> <<"data">>]

-----------------------------------------------------------------------------
(* Naming.  A pad is [row, kind, height, name].                            *)

\* The nth unnamed pad of a kind.
Numbered(base, nth) == base \o IF nth = 1 THEN << >> ELSE <<".", ToString(nth - 1)>>

\* The unnamed pads of a kind.
Unnamed(pads, kind) == {p \in DOMAIN pads : pads[p].kind = kind /\ pads[p].name = None}

Nth(pads, p) == Cardinality({q \in Unnamed(pads, pads[p].kind) : q <= p})

\* One stream keeps the base name; of several each has its height, and its
\* place too if it shares that.
HeightName(pads, p) ==
  LET others == Unnamed(pads, "video") \ {p}
      Shared == \E q \in others : pads[q].height = pads[p].height
  IN  Base.video \o
        IF others = {} THEN << >>
        ELSE <<".", ToString(pads[p].height)>> \o
               IF Shared THEN <<".", ToString(Nth(pads, p) - 1)>> ELSE << >>

FallbackName(pads, p) ==
  IF pads[p].kind = "video" THEN HeightName(pads, p)
  ELSE Numbered(Base[pads[p].kind], Nth(pads, p))

\* Mutant: a sound is named as its row is.
TrackNameAsWritten(pads, p) ==
  IF pads[p].name = None THEN FallbackName(pads, p) ELSE pads[p].name

WithPicture(pads, p) ==
  \E q \in DOMAIN pads : pads[q].kind = "video" /\ pads[q].row = pads[p].row

\* The track of pad p; track_names_for_rows is this of every pad.
TrackName(pads, p) ==
  IF pads[p].name = None THEN FallbackName(pads, p)
  ELSE pads[p].name \o
         IF pads[p].kind = "audio" /\ WithPicture(pads, p) THEN AudioSuffix ELSE << >>

-----------------------------------------------------------------------------
(* The catalog: a set of [name, kind, packaging], one of a name and kind.  *)

Packaging(kind) == IF kind = "data" THEN "legacy" ELSE "cmaf"

CatalogOf(pads) ==
  {[name |-> TrackName(pads, p), kind |-> pads[p].kind, packaging |-> Packaging(pads[p].kind)] :
     p \in DOMAIN pads}

\* The renditions as a reader may list them: section by section.
Readings(catalog) ==
  LET Section(kind) == SetToSeqs({r \in catalog : r.kind = kind})
  IN  {s[1] \o s[2] \o s[3] : s \in Section("video") \X Section("audio") \X Section("data")}

\* The next rendition, behind those that have their rows.
Placed(placed, r) ==
  LET Of(kind)  == {e \in ToSet(placed) : e.kind = kind}
      paired    == {v.row : v \in {v \in Of("video") : r.name = v.name \o AudioSuffix}}
      pictures  == {v.row : v \in {v \in Of("video") : v.packaging = "legacy"}}
      programme == pictures \ {a.row : a \in Of("audio")}
      next      == Cardinality({e.row : e \in Of("video") \cup Of("audio")})
      row       ==
        CASE r.kind = "data"                         -> 0
          [] r.kind = "audio" /\ paired # {}         -> Min(paired)
          [] r.kind = "audio" /\ paired = {}
               /\ r.packaging = "legacy"
               /\ programme # {}                     -> Min(programme)
          [] OTHER                                   -> next
  IN  Append(placed, [name |-> r.name, kind |-> r.kind, packaging |-> r.packaging, row |-> row])

\* The renditions with their rows.
Rows(reading) == FoldLeft(Placed, << >>, reading)

-----------------------------------------------------------------------------
(* The relation and the ports.                                             *)

\* The rows in their order: of each, how many are before it.
Relation(tracks) ==
  LET rows == {tracks[t].row : t \in DOMAIN tracks}
  IN  [i \in 1 .. Cardinality(rows) |->
         CHOOSE row \in rows : Cardinality({r \in rows : r < row}) = i - 1]

\* A row goes by its media's name.
RowName(tracks, row) ==
  LET on    == {t \in DOMAIN tracks : tracks[t].row = row}
      media == {t \in on : tracks[t].kind # "data"}
  IN  tracks[Min(IF media # {} THEN media ELSE on)].name

\* Each track's place in the relation.
Index(tracks, t) == CHOOSE i \in DOMAIN Relation(tracks) : Relation(tracks)[i] = tracks[t].row

\* What a port may not be called is underlined.
Allowed(name) == [i \in DOMAIN name |-> IF name[i] = "." THEN "_" ELSE name[i]]

\* Mutant: only a port without a name is numbered.
PortAsAllowed(ports, name) ==
  Append(ports, name \o IF name = << >> THEN <<"-", ToString(Len(ports))>> ELSE << >>)

\* The next port, behind those that have their names.
Port(ports, name) ==
  Append(ports, name \o IF name = << >> \/ name \in ToSet(ports)
                        THEN <<"-", ToString(Len(ports))>> ELSE << >>)

Ports(tracks) ==
  FoldLeft(LAMBDA ports, track : Port(ports, Allowed(track.name)), << >>, tracks)
=============================================================================
