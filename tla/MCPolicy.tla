------------------------------- MODULE MCPolicy -------------------------------
(* All command lines of at most three bytes over a letter, a space, a line   *)
(* feed and NUL; key files of up to four bytes that reach every length       *)
(* modulo three and every class of the Base64 alphabet.                      *)
EXTENDS Policy

Bytes == {0, 10, 32, 97}

MCBases == {NoCmdline} \cup UNION { [1 .. n -> Bytes] : n \in 0 .. 3 }

MCKeys == {<<>>, <<0>>, <<255>>, <<1, 2>>, <<107, 101, 121>>, <<251, 239, 190>>,
           <<255, 254, 253, 252>>}

\* The stub was started with an option of its own: "s".
MCInherited == <<115, 0, 0, 0>>
=============================================================================
