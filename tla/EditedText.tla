----------------------------- MODULE EditedText -----------------------------
(* What the edits of a source amount to: which characters are gone, which
   offsets lie inside a stretch that was removed at once, and what is inserted
   at each of the others.                                                   *)
EXTENDS Naturals, Sequences, SequencesExt

CONSTANT Original   \* the characters of the file

VARIABLES removed, inside, texts

Size == Len(Original)

Init == removed = {} /\ inside = {} /\ texts = [o \in 0..Size |-> <<>>]

(* The text from offset b to e, with what is inserted at b and not at e.    *)
TextOf(b, e) ==
  FlattenSeq([i \in 1..e - b |->
    LET o == b + i - 1
    IN texts[o] \o (IF o \in removed THEN <<>> ELSE <<Original[o + 1]>>)])

Text == TextOf(0, Size) \o texts[Size]

InsertText(o, str, beforePrev) ==
  /\ o \notin inside
  /\ texts' = [texts EXCEPT ![o] = IF beforePrev THEN str \o @ ELSE @ \o str]
  /\ UNCHANGED <<removed, inside>>

CopyText(o, b, n, beforePrev) == InsertText(o, TextOf(b, b + n), beforePrev)

(* What was inserted inside the stretch goes with it; what was inserted at
   its two ends stays.                                                      *)
RemoveStretch(b, n) ==
  LET in == b + 1..b + n - 1 IN
  /\ removed' = removed \cup b..b + n - 1
  /\ inside' = inside \cup in
  /\ texts' = [o \in 0..Size |-> IF o \in in THEN <<>> ELSE texts[o]]
=============================================================================
