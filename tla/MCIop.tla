------------------------------- MODULE MCIop -------------------------------
(***************************************************************************)
(* The tapes for checking IopPeripherals.                                  *)
(***************************************************************************)
EXTENDS IopPeripherals

(* A tape with two files and the double mark that ends a tape, one without *)
(* a mark at its end, and an empty one.                                    *)
SomeTapes == {<<>>, <<2, 1, 0, 2, 0, 0>>, <<1, 0, 3>>}

(* The channel multiplies the states of the tape: a shorter one here. *)
ShortTapes == {<<>>, <<2, 0, 1, 0>>}
=============================================================================
