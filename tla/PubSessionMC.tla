----------------------------- MODULE PubSessionMC ----------------------------
(***************************************************************************)
(* Instances of PubSession for TLC: a picture with its messages, and sound.*)
(***************************************************************************)
EXTENDS PubSession

Streams == {<<"video", "data">>, <<"audio">>}

\* A picture and its messages have many orders, sound takes more packets to be late.
Packets == <<6, 2>>

Sound == {<<"audio">>}
=============================================================================
