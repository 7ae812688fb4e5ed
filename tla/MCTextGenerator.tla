-------------------------- MODULE MCTextGenerator --------------------------
(***************************************************************************)
(* TextGenerator for TLC: every byte, an empty piece, and a piece that     *)
(* ends one character and begins the next.                                 *)
(***************************************************************************)
EXTENDS TextGenerator

AllPieces == {<<b>> : b \in Byte} \cup {<< >>, <<"CA", "D">>}
=============================================================================
