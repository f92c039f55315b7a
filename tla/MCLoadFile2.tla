----------------------------- MODULE MCLoadFile2 -----------------------------
(* Two consumers and initrds of no, one and two bytes.                       *)
EXTENDS LoadFile2

MCFiles == {<<>>, <<1>>, <<1, 2>>}
=============================================================================
