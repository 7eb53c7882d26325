------------------------------- MODULE ReaderMC -------------------------------
(* Broadcasts of up to three pads on two rows, and feeds of other publishers. *)
EXTENDS Reader

\* What the two rows are called.
RowNames ==
  {<<None, None>>, <<<<"a">>, None>>, <<None, <<"a">>>>, <<<<"a">>, <<>>>>,
   <<<<"a", ".", "b">>, <<"a", "_", "b">>>>}

\* A pad of a row: its media goes by the row's name.
RowPads ==
  [row : {0, 1}, kind : {"audio"}, height : {0}, name : {None}] \cup
  [row : {0, 1}, kind : {"video"}, height : {360, 720}, name : {None}] \cup
  [row : {0}, kind : {"data"}, height : {0}, name : {None, <<"c">>}]

PadsOf(names, pads) ==
  [p \in DOMAIN pads |->
     IF pads[p].kind = "data" THEN pads[p] ELSE [pads[p] EXCEPT !.name = names[pads[p].row + 1]]]

Published ==
  {PadsOf(names, pads) : names \in RowNames,
                         pads \in UNION {[1 .. n -> RowPads] : n \in 1 .. 3}}

Feeds ==
  SUBSET ([name : {<<"1", ".", "avc3">>, <<"1">>}, kind : {"video"}, packaging : {"legacy"}] \cup
          [name : {<<"0", ".", "aac">>, <<"1", ".", "audio">>}, kind : {"audio"},
           packaging : {"legacy"}]) \ {{}}

Ours   == {[pads |-> pads, catalog |-> CatalogOf(pads)] : pads \in Published}
Others == {[pads |-> << >>, catalog |-> feed] : feed \in Feeds}
MCBroadcasts == Ours \cup Others
=============================================================================
