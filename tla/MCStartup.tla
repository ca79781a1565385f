----------------------------- MODULE MCStartup -----------------------------
(***************************************************************************)
(* Up to five arguments: options, values (one of them with a newline at    *)
(* its end) and empty ones in any order; what is printed are lines of the  *)
(* characters 1 and 2, in a buffer of three.                               *)
(***************************************************************************)
EXTENDS Startup

MCCommands == BoundedSeq({V, D, I, A, << >>, <<49>>, <<49, 50>>, <<49, Newline>>}, 5)
MCTexts == {Append(t, Newline) : t \in BoundedSeq({49, 50, Newline}, 3)}
MCPrograms == {<<1>>, <<Slash>>, <<1, Slash, 1, Slash, 1>>}
MCBehind == {<< >>, <<50>>}
=============================================================================
