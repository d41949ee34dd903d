---------------------------- MODULE EditedSource ----------------------------
(* Commits of edits to a source file.  A Commit collects edits, each checked
   against what it and the source already hold, and is given to EditedSource,
   which applies its edits one after the other to a map from offsets to text
   and length removed, and at the end turns the map into rewrites.

   Tokens are one character long; an edit is made where a location of the
   file, or of the argument of a macro, leads.                              *)
EXTENDS Naturals, Sequences, SequencesExt, FiniteSetsExt

CONSTANTS
  Original,   \* the characters of the file
  ArgAt,      \* ArgAt[o]: the macro argument the token at o is, or None
  None,
  MaxCommits, \* bound: commits made
  MaxCalls    \* bound: MaxCalls[n]: calls made on the n-th of them

Size == Len(Original)
Offsets == 0..Size

ASSUME EditedSourceAssumption ==
  /\ Original \in Seq({Original[i] : i \in DOMAIN Original})
  /\ DOMAIN ArgAt = Offsets
  /\ MaxCommits \in Nat \ {0} /\ MaxCalls \in [1..MaxCommits -> Nat]

VARIABLES
  fileEdits,   \* FileEdits, by offset
  written,     \* ExpansionToArgMap, for the one expansion there is
  edits,       \* CachedEdits of the current commit, those to be applied
  commitable,  \* IsCommitable
  committing,  \* whether EditedSource::commit is applying them
  commits,     \* commits made, the current one too
  calls        \* calls made on it

vars == <<fileEdits, written, edits, commitable, committing, commits, calls>>

Init ==
  /\ fileEdits = <<>> /\ written = None
  /\ edits = <<>> /\ commitable = TRUE /\ committing = FALSE
  /\ commits = 1 /\ calls = 0

-----------------------------------------------------------------------------
(* EditedSource: operators on a map of edits, fe                            *)

FileEdit(str, n) == [text |-> str, removeLen |-> n]
EndOf(fe, b) == b + fe[b].removeLen
TextAt(fe, o) == IF o \in DOMAIN fe THEN fe[o].text ELSE <<>>
SetEdit(fe, o, e) == [k \in DOMAIN fe \cup {o} |-> IF k = o THEN e ELSE fe[k]]

(* From the last edit that begins at or before o, or the first of all.      *)
From(fe, o) ==
  LET before == {k \in DOMAIN fe : k <= o}
  IN {k \in DOMAIN fe : before # {} => k >= Max(before)}

(* The edit that removes o, if there is one (getActionForOffset).           *)
ActionForOffset(fe, o) == {b \in DOMAIN fe : b <= o /\ o < EndOf(fe, b)}

(* A mutant: a place where something is removed takes no more text.         *)
MutCanInsertInOffset(fe, o) == ActionForOffset(fe, o) = {}

CanInsertInOffset(fe, o) == \A b \in ActionForOffset(fe, o) : b = o

CommitInsert(fe, o, str, beforePrev) ==
  IF str = <<>> THEN fe
  ELSE LET old == TextAt(fe, o)
           len == IF o \in DOMAIN fe THEN fe[o].removeLen ELSE 0
       IN SetEdit(fe, o, FileEdit(IF beforePrev THEN str \o old ELSE old \o str, len))

(* The text of a range as it has been edited: edits are passed in order, and
   the source between them is copied.                                       *)
EditedRange(fe, b, n) ==
  LET Source(i, j) == SubSeq(Original, i + 1, j)
      met == {k \in From(fe, b) : b = k \/ b < EndOf(fe, k)}
      first == Min(met)
      skips == met # {} /\ first < b
      begin == IF skips THEN EndOf(fe, first) ELSE b
      passed == {k \in met : k < b + n /\ (skips => k > first)}
      Pass(acc, k) == [text |-> acc.text \o Source(acc.at, k) \o fe[k].text,
                       at |-> EndOf(fe, k)]
      before[o \in 0..Size + 1] ==
        IF o = 0 THEN [text |-> <<>>, at |-> begin]
        ELSE IF o - 1 \in passed THEN Pass(before[o - 1], o - 1) ELSE before[o - 1]
      done == before[Size + 1]
  IN done.text \o Source(done.at, b + n)

(* A mutant: what is inserted right behind the stretch goes with it.        *)
MutSwallowed(fe, above, topEnd) == {k \in above : k <= topEnd}

(* A mutant: an edit that reaches further than the stretch is left.         *)
MutSwallowedWhole(fe, above, topEnd) == {k \in above : EndOf(fe, k) <= topEnd}

Swallowed(fe, above, topEnd) == {k \in above : k < topEnd}

(* A mutant: all of an edit that overlaps is added to the stretch.          *)
MutMergedEnd(fe, gone, e) == e + Max({0} \cup {fe[k].removeLen : k \in gone})

MergedEnd(fe, gone, e) == Max({e} \cup {EndOf(fe, k) : k \in gone})

(* A stretch is merged with those it overlaps; the text of the first stays. *)
CommitRemove(fe, b, n) ==
  LET e == b + n
      met == {k \in From(fe, b) : b < EndOf(fe, k)}
      first == Min(met)
      Merged(top, above) ==
        LET gone == Swallowed(fe, above, e)
            kept == [k \in DOMAIN fe \ gone |-> fe[k]]
        IN SetEdit(kept, top, FileEdit(TextAt(fe, top), MergedEnd(fe, gone, e) - top))
  IN IF met = {} THEN SetEdit(fe, b, FileEdit(TextAt(fe, b), n))
     ELSE IF b < first THEN Merged(b, {k \in DOMAIN fe : k >= first})
     ELSE IF EndOf(fe, first) >= e THEN fe
     ELSE Merged(first, {k \in DOMAIN fe : k > first})

Rewrite(o, n, str) == [at |-> o, len |-> n, text |-> str]

(* A mutant: the stretch that the edit removes is not added.                *)
MutJoined(r, e) == [r EXCEPT !.text = @ \o e.text]

Joined(r, e) == [r EXCEPT !.len = @ + e.removeLen, !.text = @ \o e.text]

(* applyRewrites: the edits in order; one that begins where the last one ended
   is joined to it, though not a third one to the two.                      *)
Rewrites(fe) ==
  LET Step(acc, o) ==
        IF acc # <<>> /\ Last(acc).end = o
        THEN Append(Front(acc), [Last(acc) EXCEPT !.r = Joined(@, fe[o])])
        ELSE Append(acc, [end |-> EndOf(fe, o),
                          r |-> Rewrite(o, fe[o].removeLen, fe[o].text)])
      upTo[o \in 0..Size + 1] ==
        IF o = 0 THEN <<>>
        ELSE IF o - 1 \in DOMAIN fe THEN Step(upTo[o - 1], o - 1) ELSE upTo[o - 1]
      steps == upTo[Size + 1]
  IN [i \in DOMAIN steps |-> steps[i].r]

-----------------------------------------------------------------------------
(* Commit: the calls that collect edits                                     *)

InsertEdit(o, arg, str, beforePrev) ==
  [kind |-> "Insert", at |-> o, arg |-> arg, text |-> str, beforePrev |-> beforePrev]
RangeEdit(o, arg, b, n, beforePrev) ==
  [kind |-> "InsertFromRange", at |-> o, arg |-> arg, from |-> b, len |-> n,
   beforePrev |-> beforePrev]
RemoveEdit(b, n) == [kind |-> "Remove", at |-> b, len |-> n]

IsInside(o, e) == e.kind = "Remove" /\ o > e.at /\ o < e.at + e.len

(* A mutant: the edits of the commit itself are not looked at.              *)
MutCanInsert(cached, o) == CanInsertInOffset(fileEdits, o)

(* Whether o is still there; that it is in the argument of a macro is not
   known any more, the location having been traced to the file.             *)
CanInsert(cached, o) ==
  /\ \A i \in DOMAIN cached : ~IsInside(o, cached[i])
  /\ CanInsertInOffset(fileEdits, o)

AddRemove(cached, b, n) == IF n = 0 THEN cached ELSE Append(cached, RemoveEdit(b, n))

Calling ==
  /\ ~committing /\ commitable /\ calls < MaxCalls[commits]
  /\ calls' = calls + 1
  /\ UNCHANGED <<fileEdits, written, committing, commits>>

(* A call that fails spoils the commit.                                     *)
Add(ok, cached) == IF ok THEN edits' = cached /\ UNCHANGED commitable
                   ELSE commitable' = FALSE /\ UNCHANGED edits

(* What is inserted by this call.                                           *)
NewText(n) == << <<commits, calls, n>> >>

Insert(o, afterToken, beforePrev) ==
  LET at == IF afterToken THEN o + 1 ELSE o IN
  /\ Calling /\ at \in Offsets
  /\ Add(CanInsert(edits, at),
         Append(edits, InsertEdit(at, ArgAt[o], NewText(1), beforePrev)))

InsertFromRange(o, b, n, beforePrev) ==
  /\ Calling
  /\ Add(CanInsert(edits, o),
         IF n = 0 THEN edits
         ELSE Append(edits, RangeEdit(o, ArgAt[o], b, n, beforePrev)))

InsertWrap(b, n) ==
  LET one == Append(edits, InsertEdit(b, ArgAt[b], NewText(1), TRUE))
      two == Append(one, InsertEdit(b + n, ArgAt[b + n - 1], NewText(2), FALSE))
  IN Calling /\ n > 0 /\ Add(CanInsert(edits, b) /\ CanInsert(one, b + n), two)

RemoveRange(b, n) == Calling /\ Add(TRUE, AddRemove(edits, b, n))

Replace(b, n) ==
  /\ Calling
  /\ Add(CanInsert(edits, b),
         Append(AddRemove(edits, b, n), InsertEdit(b, ArgAt[b], NewText(1), FALSE)))

(* All of the outer range is removed but for the inner one.                 *)
ReplaceWithInner(b, n, inner, m) ==
  /\ Calling
  /\ Add(inner >= b /\ inner <= b + n /\ inner + m <= b + n,
         AddRemove(AddRemove(edits, b, inner - b), inner + m, b + n - inner - m))

(* A location in the body of a macro or in a system header is not usable.   *)
NoPlace == Calling /\ Add(FALSE, edits)

-----------------------------------------------------------------------------
(* EditedSource::commit                                                     *)

NextCommit ==
  /\ commits < MaxCommits /\ commits' = commits + 1
  /\ calls' = 0 /\ edits' = <<>> /\ commitable' = TRUE

CommitFails ==
  /\ ~committing /\ ~commitable
  /\ NextCommit
  /\ UNCHANGED <<fileEdits, written, committing>>

BeginCommit ==
  /\ ~committing /\ commitable /\ edits # <<>>
  /\ committing' = TRUE
  /\ UNCHANGED <<fileEdits, written, edits, commitable, commits, calls>>

(* The argument may be written, as no other one of its macro has been.      *)
Writable(e) == e.arg = None \/ written \in {None, e.arg}
TextToInsert(e) ==
  IF e.kind = "Insert" THEN e.text ELSE EditedRange(fileEdits, e.from, e.len)

(* One round of the loop; an insertion that is refused is passed over.      *)
CommitEdit ==
  LET e == Head(edits) IN
  /\ committing /\ edits # <<>>
  /\ edits' = Tail(edits)
  /\ IF e.kind = "Remove"
     THEN fileEdits' = CommitRemove(fileEdits, e.at, e.len) /\ UNCHANGED written
     ELSE IF CanInsertInOffset(fileEdits, e.at) /\ Writable(e) /\ TextToInsert(e) # <<>>
     THEN /\ fileEdits' = CommitInsert(fileEdits, e.at, TextToInsert(e), e.beforePrev)
          /\ written' = IF e.arg = None THEN written ELSE e.arg
     ELSE UNCHANGED <<fileEdits, written>>
  /\ UNCHANGED <<commitable, committing, commits, calls>>

EndCommit ==
  /\ committing /\ edits = <<>>
  /\ committing' = FALSE
  /\ NextCommit
  /\ UNCHANGED <<fileEdits, written>>

ClearRewrites ==
  /\ ~committing /\ calls = 0 /\ fileEdits # <<>>
  /\ fileEdits' = <<>>
  /\ UNCHANGED <<written, edits, commitable, committing, commits, calls>>

Next ==
  \/ \E o \in Offsets, after, before \in BOOLEAN : Insert(o, after, before)
  \/ \E b \in Offsets : \E n \in 0..Size - b :
       \/ RemoveRange(b, n) \/ Replace(b, n) \/ InsertWrap(b, n)
       \/ \E o \in Offsets : InsertFromRange(o, b, n, FALSE)
       \/ \E i \in Offsets : \E m \in 0..Size - i : ReplaceWithInner(b, n, i, m)
  \/ NoPlace \/ CommitFails \/ BeginCommit \/ CommitEdit \/ EndCommit \/ ClearRewrites

Spec == Init /\ [][Next]_vars

-----------------------------------------------------------------------------
(* Properties                                                               *)

(* The variables are of these types: the edits of a file are at its offsets
   and remove no more than the file has (EditedSource.h, FileEditsTy).      *)
TypeOK ==
  /\ DOMAIN fileEdits \subseteq Offsets
  /\ \A b \in DOMAIN fileEdits : EndOf(fileEdits, b) \in Offsets
  /\ written \in {None} \cup {ArgAt[o] : o \in Offsets}
  /\ \A i \in DOMAIN edits : edits[i].kind \in {"Insert", "InsertFromRange", "Remove"}
  /\ commitable \in BOOLEAN /\ committing \in BOOLEAN
  /\ commits \in 1..MaxCommits /\ calls \in 0..MaxCalls[commits]

(* What a commit has checked when the call was made is still so when the
   editor gets to it, whatever the edits before it do: an insertion that was
   accepted has its place, so that only another argument of the same macro
   can make the editor drop a part of a commit (Commit::canInsertInOffset,
   EditedSource::commit, which looks at no result).                         *)
CheckedStillHolds ==
  \A i \in DOMAIN edits :
    edits[i].kind # "Remove" =>
      /\ CanInsertInOffset(fileEdits, edits[i].at)
      /\ \A j \in 1..i - 1 : ~IsInside(edits[i].at, edits[j])

(* The edits of a file do not overlap, and each inserts or removes something:
   what applyRewrites and applyRewrite assert, after any commits.           *)
EditsDisjoint ==
  \A b \in DOMAIN fileEdits :
    /\ fileEdits[b].text # <<>> \/ fileEdits[b].removeLen > 0
    /\ \A o \in DOMAIN fileEdits : o > b => o >= EndOf(fileEdits, b)

(* What the map of edits says of the text.                                  *)
Abstract == INSTANCE EditedText WITH
  removed <- UNION {b..EndOf(fileEdits, b) - 1 : b \in DOMAIN fileEdits},
  inside <- UNION {b + 1..EndOf(fileEdits, b) - 1 : b \in DOMAIN fileEdits},
  texts <- [o \in Offsets |-> TextAt(fileEdits, o)]

(* The text after rewrites, each at its place of the source as it was.      *)
Rewritten(rs) ==
  LET Put(acc, r) == [at |-> r.at + r.len,
                      text |-> acc.text \o SubSeq(Original, acc.at + 1, r.at) \o r.text]
      put[i \in 0..Len(rs)] == IF i = 0 THEN [at |-> 0, text |-> <<>>]
                               ELSE Put(put[i - 1], rs[i])
      done == put[Len(rs)]
  IN done.text \o SubSeq(Original, done.at + 1, Size)

(* The rewrites that a receiver gets are in order, apart from each other, and
   make of the source the text that the edits stand for, those joined because
   they are adjacent included (EditedSource::applyRewrites).                *)
RewritesGiveText ==
  LET rs == Rewrites(fileEdits) IN
  /\ \A i \in 1..Len(rs) - 1 : rs[i].at + rs[i].len <= rs[i + 1].at
  /\ Rewritten(rs) = Abstract!Text

CommittingEdit(e) ==
  CASE e.kind = "Remove" -> Abstract!RemoveStretch(e.at, e.len)
    [] e.kind = "Insert" -> Abstract!InsertText(e.at, e.text, e.beforePrev)
    [] e.kind = "InsertFromRange" ->
         Abstract!CopyText(e.at, e.from, e.len, e.beforePrev)

Commits ==
  committing /\ edits # <<>> =>
    LET e == Head(edits) IN
    IF e.kind # "Remove" /\ ~Writable(e) THEN UNCHANGED fileEdits ELSE CommittingEdit(e)

(* The editor keeps an edited text: each edit of a commit has on it just the
   effect that its call describes, whatever edits it meets, overlaps or joins
   there; one for a second argument of a macro has none (EditedSource::commit,
   commitInsert, commitInsertFromRange, commitRemove).                      *)
ImplementsEditedText == Abstract!Init /\ [][Commits]_vars
=============================================================================
