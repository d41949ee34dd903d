---------------------------- MODULE MCTokenCache ----------------------------
(* Instances of TokenCache for TLC.                                         *)
EXTENDS TokenCache

CONSTANTS two, none   \* macros: one expands to two tokens, one to nothing

Bases == 1..7
Macros == {two, none}
Expansions == [m \in Macro |-> IF m = two THEN << <<2>>, <<3>> >> ELSE <<>>]
MainFile == << <<1>>, two, none, <<4>> >>
Stored == {<< <<7>> >>}
ShortFile == << <<1>>, <<2>> >>
=============================================================================
