----------------------------- MODULE TokenTape -----------------------------
(* What the preprocessor promises its parser: one text, read in order from a
   cursor that can be marked and taken back, and into which tokens can be
   entered at the cursor.  Looking ahead, caching and annotating do not show. *)
EXTENDS Naturals, Sequences

CONSTANT Source   \* the text, all macros expanded

VARIABLES
  text,    \* the text as it is by now
  at,      \* how much of it has been read
  marks    \* the positions to go back to, the innermost last

vars == <<text, at, marks>>

Init == text = Source /\ at = 0 /\ marks = <<>>

(* No reading back beyond the innermost mark, except by Rewind.            *)
Floor == IF marks = <<>> THEN 0 ELSE marks[Len(marks)]

Read == at' \in at + 1..Len(text) /\ UNCHANGED <<text, marks>>
PushBack == at' \in Floor..at - 1 /\ UNCHANGED <<text, marks>>

Mark == marks' = Append(marks, at) /\ UNCHANGED <<text, at>>
Commit == /\ marks # <<>> /\ marks' = SubSeq(marks, 1, Len(marks) - 1)
          /\ UNCHANGED <<text, at>>
Rewind == /\ marks # <<>> /\ at' = marks[Len(marks)]
          /\ marks' = SubSeq(marks, 1, Len(marks) - 1)
          /\ UNCHANGED text

(* Tokens are entered at the cursor, after some may have been pushed back.  *)
Enter ==
  /\ at' \in Floor..at /\ UNCHANGED marks
  /\ LET n == Len(text') - Len(text)
     IN /\ n > 0
        /\ text = SubSeq(text', 1, at') \o SubSeq(text', at' + n + 1, Len(text'))

Next == Read \/ PushBack \/ Mark \/ Commit \/ Rewind \/ Enter

Spec == Init /\ [][Next]_vars
=============================================================================
