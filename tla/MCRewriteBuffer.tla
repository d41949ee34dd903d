-------------------------- MODULE MCRewriteBuffer --------------------------
(* An instance of RewriteBuffer for TLC: a text with a line that may become
   empty, edited in every way, and a longer one, edited at enough places for
   the tree to split an interior node.                                      *)
EXTENDS RewriteBuffer

Lines == <<"a", "nl", "sp", "b", "nl", "c">>
Letters == <<"a", "b", "c", "d", "e">>
Texts == {Lines, Letters}
Inserted == {<<>>, <<"x">>, <<"y", "nl">>}
AllOffsets == 0..6
OnlyOnce == {Letters}
EditsOf == [f \in Texts |-> IF f = Lines THEN 3 ELSE 10]
=============================================================================
