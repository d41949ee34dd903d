---------------------------- MODULE RewriteBuffer ----------------------------
(* Edits of one file by the Rewriter: insertions, removals and replacements at
   offsets of the original, which the deltas of earlier edits map to offsets
   of the buffer.  A character is a token of its own.                       *)
EXTENDS DeltaTree

CONSTANTS
  Originals, Strings, Offsets, Newline, Blank,   \* see AnchoredText
  MaxEdits,       \* bound: MaxEdits[f]: edits of f
  Light,          \* texts of which every place is edited once, by a character
  InsertsAtEnds,  \* whether a range is edited whose options are at odds with
                  \* what was inserted at its ends
  MovedLines      \* whether an empty line is removed that earlier edits moved

VARIABLES
  original,  \* the text of the file
  text,      \* Buffer, every character with its anchor
  deltas,    \* Deltas
  dead,      \* offsets within what was removed, which no client uses again
  edits      \* edits made

vars == <<original, text, deltas, dead, edits>>

Anchored == INSTANCE AnchoredText

ASSUME RewriteBufferAssumption ==
  /\ \A str \in Originals \cup Strings : str \in Seq({str[i] : i \in DOMAIN str})
  /\ Offsets \subseteq Nat /\ \A f \in Originals : 0..Len(f) \subseteq Offsets
  /\ MaxEdits \in [Originals -> Nat] /\ Light \subseteq Originals
  /\ InsertsAtEnds \in BOOLEAN /\ MovedLines \in BOOLEAN

Init ==
  /\ original \in Originals
  /\ text = Anchored!Unedited(original)
  /\ deltas = Empty /\ dead = {} /\ edits = 0

-----------------------------------------------------------------------------
(* RewriteBuffer *)

(* A mutant: inserts at the place itself are never passed.                  *)
MutGetMappedOffset(o, afterInserts) == GetDeltaAt(deltas, 2 * o) + o

GetMappedOffset(o, afterInserts) ==
  GetDeltaAt(deltas, 2 * o + (IF afterInserts THEN 1 ELSE 0)) + o

Put(t, pos, chars) == SubSeq(t, 1, pos) \o chars \o SubSeq(t, pos + 1, Len(t))

(* A mutant: an insertion counts from the next offset on.                   *)
MutAddInsertDelta(o, change) == AddDelta(deltas, 2 * (o + 1), change)

AddInsertDelta(o, change) == AddDelta(deltas, 2 * o, change)

(* A mutant: a removal counts as an insertion of less than nothing.         *)
MutAddReplaceDelta(tree, o, change) == AddDelta(tree, 2 * o, change)

AddReplaceDelta(tree, o, change) == AddDelta(tree, 2 * o + 1, change)

BufferInsertText(o, str, insertAfter) ==
  /\ text' = Put(text, GetMappedOffset(o, insertAfter), Anchored!Anchored(str, 2 * o))
  /\ deltas' = IF str = <<>> THEN deltas ELSE AddInsertDelta(o, Len(str))

BufferReplaceText(o, n, str) ==
  LET pos == GetMappedOffset(o, TRUE) IN
  /\ text' = Put(Anchored!Without(text, pos, pos + n), pos,
                 Anchored!Anchored(str, 2 * o + 1))
  /\ deltas' = IF n = Len(str) THEN deltas ELSE AddReplaceDelta(deltas, o, Len(str) - n)

(* The line removed is where it was in the original, with nothing put before
   it, so that its offset in the buffer is one in the original.             *)
InPlace(rest, from, to) ==
  /\ from \notin dead /\ GetMappedOffset(from, FALSE) = from
  /\ from > 0 => original[from] = Newline
  /\ \A i \in from + 1..to : rest[i].at > 2 * from
  /\ rest[to].orig

(* n characters of the buffer, never those at its end, and the line they
   were on if nothing else is.  What is left of the offsets up to `last` and
   on the line is of no use any more.                                       *)
BufferRemoveText(o, n, removeLineIfEmpty, last) ==
  LET pos == GetMappedOffset(o, TRUE)
      rest == Anchored!Without(text, pos, pos + n)
      tree == AddReplaceDelta(deltas, o, -n)
      from == Anchored!LineStart(rest, pos)
      line == IF removeLineIfEmpty THEN Anchored!BlankTo(rest, from) ELSE {}
  IN /\ n > 0 /\ pos + n < Len(text)
     /\ IF line = {}
        THEN text' = rest /\ deltas' = tree /\ dead' = dead \cup o + 1..last
        ELSE \E to \in line :
             /\ MovedLines \/ InPlace(rest, from, to)
             /\ text' = Anchored!Without(rest, from, to)
             /\ deltas' = AddReplaceDelta(tree, from, from - to)
             /\ LET first == rest[from + 1].at \div 2 IN
                dead' = dead \cup o + 1..last
                        \cup (IF first < from THEN first ELSE from) + 1..rest[to].at \div 2

-----------------------------------------------------------------------------
(* Rewriter *)

Present(o) == \E i \in DOMAIN text : text[i].orig /\ text[i].at = 2 * o + 1
InsertedAt(o) == \E i \in DOMAIN text : text[i].at = 2 * o

(* Nothing was done to the characters from s to last, or between them.      *)
Intact(s, last) == /\ \A o \in s..last : Present(o)
                   /\ \A o \in s + 1..last : ~InsertedAt(o)

(* RewriteOptions: what is inserted at the ends of a range is part of it.   *)
Options == [begin : BOOLEAN, end : BOOLEAN]
Default == [begin |-> TRUE, end |-> TRUE]

(* A mutant: what was inserted before the last token is not counted.        *)
MutGetRangeSize(s, last, isTokenRange, opts) ==
  LET start == GetMappedOffset(s, ~opts.begin)
  IN IF isTokenRange THEN GetMappedOffset(last, FALSE) + 1 - start
     ELSE GetMappedOffset(last + 1, opts.end) - start

(* A range of tokens ends with `last`, one of characters before `last + 1`.  *)
GetRangeSize(s, last, isTokenRange, opts) ==
  LET start == GetMappedOffset(s, ~opts.begin)
  IN IF isTokenRange THEN GetMappedOffset(last, opts.end) + 1 - start
     ELSE GetMappedOffset(last + 1, opts.end) - start

(* A client edits from one character that is still there to another, and
   where its options do no harm.                                            *)
Editable(s, last, isTokenRange, opts) ==
  /\ s <= last /\ Present(s) /\ Present(last)
  /\ \/ InsertsAtEnds
     \/ /\ opts.begin => ~InsertedAt(s)
        /\ IF isTokenRange THEN opts.end \/ ~InsertedAt(last)
           ELSE opts.end => ~InsertedAt(last + 1)

Edit == /\ edits < MaxEdits[original] /\ edits' = edits + 1
        /\ UNCHANGED original
AnyEdit == Edit /\ original \notin Light

InsertText(o, str, insertAfter) ==
  /\ Edit /\ o \in 0..Len(original) \ dead
  /\ original \in Light => Len(str) = 1 /\ insertAfter /\ ~InsertedAt(o)
  /\ BufferInsertText(o, str, insertAfter)
  /\ UNCHANGED dead

AfterToken == [begin |-> FALSE, end |-> TRUE]

InsertTextAfterToken(o, str) ==
  /\ AnyEdit /\ Present(o)
  /\ BufferInsertText(o + GetRangeSize(o, o, TRUE, AfterToken), str, TRUE)
  /\ UNCHANGED dead

RemoveText(s, last, removeLineIfEmpty) ==
  /\ Edit /\ s <= last /\ Intact(s, last)
  /\ original \in Light => s = last /\ ~removeLineIfEmpty
  /\ BufferRemoveText(s, last - s + 1, removeLineIfEmpty, last)

RemoveRange(s, last, isTokenRange, opts, removeLineIfEmpty) ==
  /\ AnyEdit /\ Editable(s, last, isTokenRange, opts)
  /\ BufferRemoveText(s, GetRangeSize(s, last, isTokenRange, opts),
                      removeLineIfEmpty, last)

ReplaceText(s, last, str) ==
  /\ AnyEdit /\ s <= last /\ Intact(s, last)
  /\ BufferReplaceText(s, last - s + 1, str)
  /\ dead' = dead \cup s + 1..last

ReplaceRange(s, last, str) ==
  /\ AnyEdit /\ Editable(s, last, TRUE, Default)
  /\ BufferReplaceText(s, GetRangeSize(s, last, TRUE, Default), str)
  /\ dead' = dead \cup s + 1..last

Next ==
  \/ \E o \in Offsets, str \in Strings :
       InsertTextAfterToken(o, str) \/ \E after \in BOOLEAN : InsertText(o, str, after)
  \/ \E s, last \in Offsets :
       \/ \E line \in BOOLEAN :
            \/ RemoveText(s, last, line)
            \/ \E tokens \in BOOLEAN, opts \in Options : RemoveRange(s, last, tokens, opts, line)
       \/ \E str \in Strings : ReplaceText(s, last, str) \/ ReplaceRange(s, last, str)

Spec == Init /\ [][Next]_vars

-----------------------------------------------------------------------------
(* Properties *)

(* The buffer and the tree are made of what they should be made of.         *)
TypeOK ==
  /\ original \in Originals
  /\ \A i \in DOMAIN text : text[i].at \in 0..2 * Len(original) /\ text[i].orig \in BOOLEAN
  /\ deltas \in Nodes[deltas.height] /\ LocsOf(deltas) \subseteq 0..2 * Len(original)
  /\ dead \subseteq 0..Len(original) /\ edits \in 0..MaxEdits[original]

(* The tree stays a B-tree through every split, up to that of an interior
   root: values in order, widths in bounds, leaves at one depth, and in each
   node the sum of all that is below it (VerifyTree in DeltaTree.cpp).      *)
TreeVerified == VerifyTree(deltas)

(* The first pos characters of t, and no more, are anchored up to a.         *)
Divides(t, a, pos) == /\ pos \in 0..Len(t)
                      /\ \A i \in DOMAIN t : i <= pos <=> t[i].at <= a

(* Every offset still in use maps to where its character is, or would be,
   and to before or after what was inserted there (Rewriter.h: "any locations
   after the insertion point have to be mapped").                           *)
OffsetsMapped ==
  \A o \in 0..Len(original) \ dead :
    /\ Divides(text, 2 * o - 1, GetMappedOffset(o, FALSE))
    /\ Divides(text, 2 * o, GetMappedOffset(o, TRUE))

(* getRewrittenText of a range returns all that became of it, with what was
   inserted at either end.                                                  *)
RewrittenText(s, last) == GetMappedOffset(s, FALSE) + 1..GetMappedOffset(last, TRUE) + 1
RangesRead ==
  \A s, last \in 0..Len(original) - 1 :
    s <= last /\ Present(s) /\ Present(last) =>
      RewrittenText(s, last) = {i \in DOMAIN text : text[i].at \in 2 * s..2 * last + 1}

(* The buffer implements the text in which every edit looks for its place by
   the anchors: no edit hits text other than what the client meant.         *)
ImplementsAnchoredText == Anchored!Spec
=============================================================================
