--------------------------- MODULE MCFileManager ---------------------------
(* An instance of FileManager for TLC: a/g and a/b/c/f.                     *)
EXTENDS FileManager, TLC

Files == {"a/g", "a/b/c/f"}
Dirs == {"a", "a/b", "a/b/c"}
Paths == [n \in File \cup Dir |->
            CASE n = "a/b/c/f" -> <<"a/b/c", "a/b", "a">> [] n = "a/b/c" -> <<"a/b", "a">>
              [] n \in {"a/g", "a/b"} -> <<"a">> [] OTHER -> <<>>]
Objects == Permutations(Object)
=============================================================================
