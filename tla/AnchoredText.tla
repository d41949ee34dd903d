---------------------------- MODULE AnchoredText ----------------------------
(* What a rewritten buffer promises.  Every character keeps its anchor in the
   original text: anchor 2o is that of what was inserted at offset o, 2o+1
   that of the character at o and of what replaced it.  An edit finds its
   place by looking at the anchors.                                         *)
EXTENDS Integers, Sequences, FiniteSets

CONSTANTS
  Originals,       \* the texts that may be edited
  Strings,         \* what is inserted
  Offsets,         \* offsets in the original
  Newline, Blank   \* two of the characters

VARIABLE text

Char(a, c, o) == [at |-> a, ch |-> c, orig |-> o]
Anchored(str, a) == [i \in DOMAIN str |-> Char(a, str[i], FALSE)]
Unedited(f) == [i \in DOMAIN f |-> Char(2 * i - 1, f[i], TRUE)]

(* The anchors are in order: up to a there are the first `Place` characters. *)
Place(t, a) == Cardinality({i \in DOMAIN t : t[i].at <= a})
UpTo(t, a) == SubSeq(t, 1, Place(t, a))
After(t, a) == SubSeq(t, Place(t, a) + 1, Len(t))

(* The line around the first pos characters of t begins after `LineStart`
   of them; `BlankTo` has its end if there is nothing on it.                *)
LineStart(t, pos) ==
  CHOOSE from \in 0..pos : /\ from > 0 => t[from].ch = Newline
                           /\ \A i \in from + 1..pos : t[i].ch # Newline
BlankTo(t, from) ==
  {to \in from + 1..Len(t) : /\ t[to].ch = Newline
                             /\ \A i \in from + 1..to - 1 : t[i].ch = Blank}

Without(t, from, to) == SubSeq(t, 1, from) \o SubSeq(t, to + 1, Len(t))

Insert(o, str, after) ==
  LET place == IF after THEN 2 * o + 1 ELSE 2 * o IN
  text' = UpTo(text, place - 1) \o Anchored(str, 2 * o) \o After(text, place - 1)

(* From the character at s to that at last, with what was inserted between. *)
Replace(s, last, str) ==
  text' = UpTo(text, 2 * s) \o Anchored(str, 2 * s + 1) \o After(text, 2 * last + 1)

RemoveLine(s, last) ==
  LET left == UpTo(text, 2 * s)
      rest == left \o After(text, 2 * last + 1)
      from == LineStart(rest, Len(left))
  IN \E to \in BlankTo(rest, from) : text' = Without(rest, from, to)

Init == \E f \in Originals : text = Unedited(f)

Next ==
  \/ \E o \in Offsets, str \in Strings, after \in BOOLEAN : Insert(o, str, after)
  \/ \E s, last \in Offsets, str \in Strings \cup {<<>>} :
       s <= last /\ (Replace(s, last, str) \/ RemoveLine(s, last))

Spec == Init /\ [][Next]_text
=============================================================================
