--------------------------- MODULE MCEditedSource ---------------------------
(* A source of three characters, of which the first two are the arguments of
   one macro.                                                               *)
EXTENDS EditedSource

CONSTANTS p, q

ThreeTokens == <<"a", "b", "c">>
TwoArguments == [o \in 0..3 |-> CASE o = 0 -> p [] o = 1 -> q [] OTHER -> None]
OneThenTwo == <<1, 2>>
=============================================================================
