------------------------- MODULE DiagnosticsProofs -------------------------
(* Proofs about Diagnostics for all options, warnings, groups and command
   lines: no error is lost, what is shown is shown in its context, and at each
   place of the text the mappings are those of the pragmas before it.

   First the account.  Which level a warning has does not matter to it: those
   lemmas hold for any level at all.  Then the mappings: what holds of the
   states and the points at any time, what each pragma makes of them, and
   what the reader of an AST file makes of what the writer wrote.           *)
EXTENDS Diagnostics, TLAPS, WellFoundedInduction, SequenceTheorems

-----------------------------------------------------------------------------
(* The account an engine keeps *)

(* No diagnostic but a note will be shown any more.                         *)
Silenced(e) == e.fatalErrorOccurred \/ e.lastDiagLevel = "fatal"

(* The fields, of which the last level may be anything.                     *)
AccountTyped(e) ==
  e \in [lastDiagLevel : {e.lastDiagLevel}, fatalErrorOccurred : BOOLEAN,
         errorOccurred : BOOLEAN, numErrors : Nat, numErrorsSuppressed : Nat,
         delayedDiagID : {None} \cup Delayable, shown : [Levels -> Nat],
         reported : Nat, lastShown : BOOLEAN, delayedShown : BOOLEAN,
         emitted : BOOLEAN]

(* Errors are counted and fail the compilation, and within the limit.       *)
ErrorsCounted(e) ==
  /\ e.reported = e.numErrors
  /\ e.reported > 0 => e.errorOccurred
  /\ e.shown["fatal"] > 0 => e.errorOccurred
  /\ opts.limit # 0 => e.shown["error"] <= opts.limit

(* It is one fatal error, shown, that silences the engine; it may have notes
   until the next diagnostic comes.  One that was delayed silences it for good. *)
OneFatal(e) ==
  /\ e.shown["fatal"] = IF Silenced(e) THEN 1 ELSE 0
  /\ ~e.fatalErrorOccurred /\ e.lastDiagLevel = "fatal" => e.lastShown
  /\ e.delayedShown => e.fatalErrorOccurred

Sound(e) == AccountTyped(e) /\ ErrorsCounted(e) /\ OneFatal(e)

(* Without a fatal error all errors were shown, and so was the diagnostic that
   notes would belong to.                                                   *)
Complete(e) ==
  ~Silenced(e) =>
    /\ e.shown["error"] = e.reported
    /\ e.lastDiagLevel \notin {"ignored", None} => e.lastShown

(* So it is when a report begins ...                                        *)
Ready(e) == Sound(e) /\ Complete(e)

(* ... and between two of them, when one is delayed only behind what Sema kept
   to itself, or where it would not be shown.                               *)
Settled(e) ==
  Ready(e) /\ (e.delayedDiagID # None => e.lastDiagLevel = "ignored" \/ e.fatalErrorOccurred)

IInv == opts \in Options /\ Settled(eng)

(* What may be shown when e becomes f.                                      *)
InContext(e, f) ==
  /\ f.shown["fatal"] <= 1
  /\ e.shown["fatal"] > 0 =>
       \A level \in Levels \ {"note"} : f.shown[level] = e.shown[level]
  /\ e.delayedShown => f.shown = e.shown
  /\ f.shown["note"] > e.shown["note"] => e.lastShown \/ e.lastDiagLevel = None

-----------------------------------------------------------------------------
(* One diagnostic *)

(* What is a level, what may be delayed and None are kept apart.            *)
LEMMA Strings ==
  /\ None \notin Levels \cup Delayable /\ "fatal" \in Levels /\ "note" \in Levels
  /\ "error" \in Levels /\ "error" \notin Delayable /\ "note" \notin Delayable
BY DiagnosticsAssumption DEF Levels, Delayable

(* A typed account with some of its fields replaced.                        *)
Account(e, level, fatalOccurred, shownLast, n) ==
  [e EXCEPT !.emitted = FALSE, !.fatalErrorOccurred = fatalOccurred,
            !.lastDiagLevel = level, !.lastShown = shownLast, !.reported = n]

AccountIs(c, e, level, fatalOccurred, shownLast, n) ==
  /\ AccountTyped(c)
  /\ c.shown = e.shown /\ c.numErrors = e.numErrors
  /\ c.errorOccurred = e.errorOccurred /\ c.delayedDiagID = e.delayedDiagID
  /\ c.numErrorsSuppressed = e.numErrorsSuppressed
  /\ c.delayedShown = e.delayedShown /\ c.emitted = FALSE
  /\ c.reported = n /\ c.fatalErrorOccurred = fatalOccurred
  /\ c.lastDiagLevel = level /\ c.lastShown = shownLast

(* The fields of such an account are those given.                           *)
LEMMA Replaced ==
  ASSUME NEW e, AccountTyped(e), NEW level, NEW fatalOccurred \in BOOLEAN,
         NEW shownLast \in BOOLEAN, NEW n \in Nat
  PROVE  AccountIs(Account(e, level, fatalOccurred, shownLast, n),
                   e, level, fatalOccurred, shownLast, n)
BY DEF AccountTyped, Account, AccountIs

(* Counted, field by field.                                                 *)
LEMMA CountedFields ==
  ASSUME NEW e, AccountTyped(e), NEW level
  PROVE  AccountIs(Counted(e, level), e,
                   IF level = "note" THEN e.lastDiagLevel ELSE level,
                   e.fatalErrorOccurred \/ (level # "note" /\ e.lastDiagLevel = "fatal"),
                   IF level = "note" THEN e.lastShown ELSE FALSE,
                   IF IsError(level) THEN e.reported + 1 ELSE e.reported)
<1> DEFINE b == e.fatalErrorOccurred \/ (level # "note" /\ e.lastDiagLevel = "fatal")
           l == IF level = "note" THEN e.lastDiagLevel ELSE level
           s == IF level = "note" THEN e.lastShown ELSE FALSE
           n == IF IsError(level) THEN e.reported + 1 ELSE e.reported
<1>1. b \in BOOLEAN /\ s \in BOOLEAN
  BY DEF AccountTyped
<1>2. n \in Nat
  BY DEF AccountTyped
<1>3. Counted(e, level) = Account(e, l, b, s, n)
  BY DEF Counted, Account
<1>4. AccountIs(Account(e, l, b, s, n), e, l, b, s, n)
  <2> HIDE DEF b, l, s, n
  <2>1. QED  BY <1>1, <1>2, Replaced
<1>5. QED  BY <1>3, <1>4, Zenon

-----------------------------------------------------------------------------
(* ProcessDiag, field by field: what becomes of every diagnostic, and the three
   ends it may come to.                                                    *)

SilentFor(e, level) ==
  e.fatalErrorOccurred \/ (level # "note" /\ e.lastDiagLevel = "fatal")

Taken(f, e, level) ==
  /\ AccountTyped(f)
  /\ f.lastDiagLevel = IF level = "note" THEN e.lastDiagLevel ELSE level
  /\ f.fatalErrorOccurred = SilentFor(e, level) /\ f.delayedShown = e.delayedShown
  /\ f.reported = IF IsError(level) THEN e.reported + 1 ELSE e.reported
  /\ f.numErrors = IF IsError(level) THEN e.numErrors + 1 ELSE e.numErrors

KeptBack(f, e, level) ==
  /\ SilentFor(e, level) \/ level = "ignored" \/ (level = "note" /\ e.lastDiagLevel = "ignored")
  /\ f.shown = e.shown /\ f.errorOccurred = e.errorOccurred
  /\ f.delayedDiagID = e.delayedDiagID /\ f.emitted = FALSE
  /\ f.lastShown = IF level = "note" THEN e.lastShown ELSE FALSE

BeyondLimit(f, e, level) ==
  /\ ~SilentFor(e, level) /\ level = "error"
  /\ f.shown = e.shown /\ f.errorOccurred = TRUE
  /\ f.delayedDiagID # None /\ f.emitted = FALSE /\ f.lastShown = FALSE

GivenToClient(f, e, level) ==
  /\ ~SilentFor(e, level) /\ level # "ignored"
  /\ ~(level = "note" /\ e.lastDiagLevel = "ignored")
  /\ level = "error" /\ opts.limit # 0 => f.numErrors <= opts.limit
  /\ f.shown = [e.shown EXCEPT ![level] = @ + 1]
  /\ f.errorOccurred = (e.errorOccurred \/ IsError(level))
  /\ f.delayedDiagID = e.delayedDiagID /\ f.emitted = TRUE
  /\ f.lastShown = IF level = "note" THEN e.lastShown ELSE TRUE

(* An account with an error more, as it is counted.                         *)
Failing(c, failed, n) == [c EXCEPT !.errorOccurred = failed, !.numErrors = n]
Suppressing(c, n, m) == [c EXCEPT !.numErrors = n, !.numErrorsSuppressed = m]
Showing(c, counts, last) ==
  [c EXCEPT !.emitted = TRUE, !.shown = counts, !.lastShown = last]

(* Each of the three replaces the fields it names, and the account is typed. *)
LEMMA FailingTyped ==
  ASSUME NEW c, AccountTyped(c), NEW failed \in BOOLEAN, NEW n \in Nat
  PROVE  LET f == Failing(c, failed, n)
         IN /\ AccountTyped(f) /\ f.errorOccurred = failed /\ f.numErrors = n
            /\ f.shown = c.shown /\ f.delayedDiagID = c.delayedDiagID
            /\ f.reported = c.reported /\ f.fatalErrorOccurred = c.fatalErrorOccurred
            /\ f.lastDiagLevel = c.lastDiagLevel /\ f.lastShown = c.lastShown
            /\ f.emitted = c.emitted /\ f.delayedShown = c.delayedShown
BY DEF AccountTyped, Failing

(* ... where a fatal error went before.                                     *)
LEMMA SuppressingTyped ==
  ASSUME NEW c, AccountTyped(c), NEW n \in Nat, NEW m \in Nat
  PROVE  LET f == Suppressing(c, n, m)
         IN /\ AccountTyped(f) /\ f.errorOccurred = c.errorOccurred /\ f.numErrors = n
            /\ f.shown = c.shown /\ f.delayedDiagID = c.delayedDiagID
            /\ f.reported = c.reported /\ f.fatalErrorOccurred = c.fatalErrorOccurred
            /\ f.lastDiagLevel = c.lastDiagLevel /\ f.lastShown = c.lastShown
            /\ f.emitted = c.emitted /\ f.delayedShown = c.delayedShown
BY DEF AccountTyped, Suppressing

(* ... where the client is given the diagnostic.                            *)
LEMMA ShowingTyped ==
  ASSUME NEW c, AccountTyped(c), NEW counts \in [Levels -> Nat], NEW last \in BOOLEAN
  PROVE  LET f == Showing(c, counts, last)
         IN /\ AccountTyped(f) /\ f.errorOccurred = c.errorOccurred
            /\ f.numErrors = c.numErrors /\ f.shown = counts
            /\ f.delayedDiagID = c.delayedDiagID
            /\ f.reported = c.reported /\ f.fatalErrorOccurred = c.fatalErrorOccurred
            /\ f.lastDiagLevel = c.lastDiagLevel /\ f.lastShown = last
            /\ f.emitted = TRUE /\ f.delayedShown = c.delayedShown
BY DEF AccountTyped, Showing

(* EmitDiag is Showing, with one more of the level.                         *)
LEMMA EmitShows ==
  ASSUME NEW c, AccountTyped(c), NEW level
  PROVE  EmitDiag(c, level) =
           Showing(c, [c.shown EXCEPT ![level] = @ + 1],
                   IF level = "note" THEN c.lastShown ELSE TRUE)
BY DEF EmitDiag, Showing, AccountTyped

(* SetDelayed changes nothing but what is delayed, and then something is.   *)
LEMMA SetDelayedFields ==
  ASSUME NEW c, AccountTyped(c), NEW id \in Delayable
  PROVE  LET f == SetDelayed(c, id)
         IN /\ AccountTyped(f) /\ f.errorOccurred = c.errorOccurred
            /\ f.numErrors = c.numErrors /\ f.shown = c.shown
            /\ f.delayedDiagID # None
            /\ f.reported = c.reported /\ f.fatalErrorOccurred = c.fatalErrorOccurred
            /\ f.lastDiagLevel = c.lastDiagLevel /\ f.lastShown = c.lastShown
            /\ f.emitted = c.emitted /\ f.delayedShown = c.delayedShown
<1>1. id # None
  BY Strings
<1>2. CASE c.delayedDiagID # None
  BY <1>2 DEF SetDelayed
<1>3. CASE c.delayedDiagID = None
  BY <1>1, <1>3 DEF SetDelayed, AccountTyped
<1>4. QED  BY <1>2, <1>3

(* One more of a level counts, one of no level does not.                    *)
LEMMA OneMore ==
  ASSUME NEW counts \in [Levels -> Nat], NEW level
  PROVE  [counts EXCEPT ![level] = @ + 1] \in [Levels -> Nat]
<1>1. CASE level \in Levels
  BY <1>1
<1>2. CASE level \notin Levels
  <2>1. [counts EXCEPT ![level] = @ + 1] = counts
    BY <1>2
  <2>2. QED  BY <2>1
<1>3. QED  BY <1>1, <1>2

(* Every diagnostic is taken, and comes to one of three ends.               *)
LEMMA Processed ==
  ASSUME NEW e, AccountTyped(e), NEW level, opts \in Options
  PROVE  LET f == ProcessDiag(e, level)
         IN /\ Taken(f, e, level)
            /\ \/ KeptBack(f, e, level) \/ BeyondLimit(f, e, level)
               \/ GivenToClient(f, e, level)
<1> DEFINE c == Counted(e, level)
           n == IF IsError(level) THEN 1 ELSE 0
           failed == [c EXCEPT !.errorOccurred = @ \/ IsError(level), !.numErrors = @ + n]
           b == c.errorOccurred \/ IsError(level)
           f == ProcessDiag(e, level)
           m == c.numErrors + n
           k == c.numErrorsSuppressed + n
           oneMore == [c.shown EXCEPT ![level] = @ + 1]
           last == IF level = "note" THEN c.lastShown ELSE TRUE
<1>0. /\ AccountTyped(c)
      /\ c.shown = e.shown /\ c.numErrors = e.numErrors
      /\ c.errorOccurred = e.errorOccurred /\ c.delayedDiagID = e.delayedDiagID
      /\ c.numErrorsSuppressed = e.numErrorsSuppressed
      /\ c.delayedShown = e.delayedShown /\ c.emitted = FALSE
      /\ c.reported = (IF IsError(level) THEN e.reported + 1 ELSE e.reported)
      /\ c.fatalErrorOccurred = SilentFor(e, level)
      /\ c.lastDiagLevel = (IF level = "note" THEN e.lastDiagLevel ELSE level)
      /\ c.lastShown = (IF level = "note" THEN e.lastShown ELSE FALSE)
  <2> HIDE DEF n, failed, f, oneMore, last, b
  <2>1. AccountIs(c, e, IF level = "note" THEN e.lastDiagLevel ELSE level,
                  e.fatalErrorOccurred \/ (level # "note" /\ e.lastDiagLevel = "fatal"),
                  IF level = "note" THEN e.lastShown ELSE FALSE,
                  IF IsError(level) THEN e.reported + 1 ELSE e.reported)
    BY CountedFields
  <2> HIDE DEF c
  <2>2. QED  BY <2>1, Zenon DEF AccountIs, SilentFor
<1>1. /\ n \in Nat /\ m \in Nat /\ k \in Nat
      /\ m = (IF IsError(level) THEN e.numErrors + 1 ELSE e.numErrors)
      /\ b \in BOOLEAN
      /\ last \in BOOLEAN /\ oneMore \in [Levels -> Nat]
  <2> HIDE DEF c
  <2>1. AccountTyped(c) /\ c.numErrors = e.numErrors
    BY <1>0
  <2>2. n \in Nat /\ b \in BOOLEAN
    OBVIOUS
  <2>3. /\ c.numErrors + n \in Nat /\ c.numErrorsSuppressed + n \in Nat
        /\ last \in BOOLEAN /\ oneMore \in [Levels -> Nat]
    <3> HIDE DEF n, b
    <3>1. c \in [lastDiagLevel : {c.lastDiagLevel}, fatalErrorOccurred : BOOLEAN,
         errorOccurred : BOOLEAN, numErrors : Nat, numErrorsSuppressed : Nat,
         delayedDiagID : {None} \cup Delayable, shown : [Levels -> Nat],
         reported : Nat, lastShown : BOOLEAN, delayedShown : BOOLEAN,
         emitted : BOOLEAN]
      BY <2>1 DEF AccountTyped
    <3>2. c.numErrors + n \in Nat /\ c.numErrorsSuppressed + n \in Nat
      BY <3>1, <2>2
    <3>3. last \in BOOLEAN
      BY <3>1
    <3>4. oneMore \in [Levels -> Nat]
      BY <3>1, OneMore
    <3>5. QED  BY <3>2, <3>3, <3>4
  <2>4. c.numErrors + n = (IF IsError(level) THEN e.numErrors + 1 ELSE e.numErrors)
    BY <2>1 DEF AccountTyped
  <2>5. QED  BY <2>2, <2>3, <2>4
<1>2. failed = Failing(c, b, m)
  BY DEF Failing
<1>3. /\ AccountTyped(failed) /\ failed.numErrors = m
      /\ failed.errorOccurred = b
      /\ failed.shown = c.shown /\ failed.delayedDiagID = c.delayedDiagID
      /\ failed.reported = c.reported /\ failed.fatalErrorOccurred = c.fatalErrorOccurred
      /\ failed.lastDiagLevel = c.lastDiagLevel /\ failed.lastShown = c.lastShown
      /\ failed.emitted = c.emitted /\ failed.delayedShown = c.delayedShown
  <2> HIDE DEF c, n, m, k, failed, b, f, oneMore, last
  <2>1. AccountTyped(c) /\ b \in BOOLEAN /\ m \in Nat
    BY <1>0, <1>1
  <2>2. LET g == Failing(c, b, m)
        IN /\ AccountTyped(g) /\ g.errorOccurred = b /\ g.numErrors = m
           /\ g.shown = c.shown /\ g.delayedDiagID = c.delayedDiagID
           /\ g.reported = c.reported /\ g.fatalErrorOccurred = c.fatalErrorOccurred
           /\ g.lastDiagLevel = c.lastDiagLevel /\ g.lastShown = c.lastShown
           /\ g.emitted = c.emitted /\ g.delayedShown = c.delayedShown
    BY <2>1, FailingTyped
  <2>3. QED  BY <2>2, <1>2
<1>4. CASE c.fatalErrorOccurred
  <2>1. f = Suppressing(c, m, k)
    BY <1>4 DEF ProcessDiag, Suppressing
  <2> HIDE DEF c, n, m, k, f, failed, b, oneMore, last
  <2>2. Taken(f, e, level) /\ KeptBack(f, e, level)
    <3>1. /\ AccountTyped(f) /\ f.errorOccurred = c.errorOccurred
          /\ f.numErrors = m
          /\ f.shown = c.shown /\ f.delayedDiagID = c.delayedDiagID
          /\ f.reported = c.reported /\ f.fatalErrorOccurred = c.fatalErrorOccurred
          /\ f.lastDiagLevel = c.lastDiagLevel /\ f.lastShown = c.lastShown
          /\ f.emitted = c.emitted /\ f.delayedShown = c.delayedShown
      <4>1. AccountTyped(c) /\ m \in Nat /\ k \in Nat
        BY <1>0, <1>1
      <4>2. QED  BY <4>1, <2>1, SuppressingTyped, ZenonT(60)
    <3>2. Taken(f, e, level)
      BY <1>0, <1>1, <3>1, Zenon DEF Taken
    <3>3. KeptBack(f, e, level)
      BY <1>0, <1>4, <3>1, Zenon DEF KeptBack
    <3>4. QED  BY <3>2, <3>3
  <2>3. QED  BY <2>2 DEF f
<1>5. CASE /\ ~c.fatalErrorOccurred
           /\ level = "ignored" \/ (level = "note" /\ c.lastDiagLevel = "ignored")
  <2>1. f = c /\ ~IsError(level)
    BY <1>5 DEF ProcessDiag, IsError
  <2> HIDE DEF c, n, m, k, f, failed, b, oneMore, last
  <2>2. Taken(f, e, level) /\ KeptBack(f, e, level)
    BY <1>0, <1>5, <2>1 DEF Taken, KeptBack
  <2>3. QED  BY <2>2 DEF f
<1>6. CASE /\ ~c.fatalErrorOccurred /\ level = "error"
           /\ opts.limit # 0 /\ failed.numErrors > opts.limit
  <2>1. f = SetDelayed(failed, "fatal_too_many_errors")
    BY <1>6 DEF ProcessDiag
  <2>2. IsError(level) /\ "fatal_too_many_errors" \in Delayable
    BY <1>6 DEF IsError, Delayable
  <2> HIDE DEF c, n, m, k, f, failed, b, oneMore, last
  <2>3. Taken(f, e, level) /\ BeyondLimit(f, e, level)
    <3>1. /\ AccountTyped(f) /\ f.errorOccurred = failed.errorOccurred
          /\ f.numErrors = failed.numErrors /\ f.shown = failed.shown
          /\ f.delayedDiagID # None
          /\ f.reported = failed.reported
          /\ f.fatalErrorOccurred = failed.fatalErrorOccurred
          /\ f.lastDiagLevel = failed.lastDiagLevel /\ f.lastShown = failed.lastShown
          /\ f.emitted = failed.emitted /\ f.delayedShown = failed.delayedShown
      BY <1>3, <2>1, <2>2, SetDelayedFields, Zenon
    <3>2. Taken(f, e, level)
      BY <1>0, <1>1, <1>3, <3>1, Zenon DEF Taken
    <3>3. f.errorOccurred = TRUE /\ level # "note"
      BY <1>3, <1>6, <2>2, <3>1 DEF b
    <3>4. BeyondLimit(f, e, level)
      BY <1>0, <1>3, <1>6, <3>1, <3>3, Zenon DEF BeyondLimit
    <3>5. QED  BY <3>2, <3>4
  <2>4. QED  BY <2>3 DEF f
<1>7. CASE /\ ~c.fatalErrorOccurred /\ level # "ignored"
           /\ ~(level = "note" /\ c.lastDiagLevel = "ignored")
           /\ ~(level = "error" /\ opts.limit # 0 /\ failed.numErrors > opts.limit)
  <2>1. f = EmitDiag(failed, level)
    BY <1>7 DEF ProcessDiag
  <2> HIDE DEF c, n, m, k, f, failed, b
  <2>2. EmitDiag(failed, level) = Showing(failed, oneMore, last)
    <3>1. AccountTyped(failed) /\ failed.shown = c.shown /\ failed.lastShown = c.lastShown
      BY <1>3
    <3>2. EmitDiag(failed, level) =
            Showing(failed, [failed.shown EXCEPT ![level] = @ + 1],
                    IF level = "note" THEN failed.lastShown ELSE TRUE)
      BY <3>1, EmitShows
    <3>3. QED  BY <3>1, <3>2
  <2>3. level = "error" /\ opts.limit # 0 => failed.numErrors <= opts.limit
    <3>1. failed.numErrors \in Nat
      BY <1>1, <1>3
    <3>2. opts.limit \in Nat
      BY DiagnosticsAssumption
    <3>3. QED  BY <1>7, <3>1, <3>2
  <2> HIDE DEF oneMore, last
  <2>4. /\ AccountTyped(f) /\ f.errorOccurred = failed.errorOccurred
        /\ f.numErrors = failed.numErrors /\ f.shown = oneMore
        /\ f.delayedDiagID = failed.delayedDiagID
        /\ f.reported = failed.reported /\ f.fatalErrorOccurred = failed.fatalErrorOccurred
        /\ f.lastDiagLevel = failed.lastDiagLevel /\ f.lastShown = last
        /\ f.emitted = TRUE /\ f.delayedShown = failed.delayedShown
    <3>1. AccountTyped(failed) /\ oneMore \in [Levels -> Nat] /\ last \in BOOLEAN
      BY <1>1, <1>3
    <3>2. f = Showing(failed, oneMore, last)
      BY <2>1, <2>2
    <3>3. LET g == Showing(failed, oneMore, last)
          IN /\ AccountTyped(g) /\ g.errorOccurred = failed.errorOccurred
             /\ g.numErrors = failed.numErrors /\ g.shown = oneMore
             /\ g.delayedDiagID = failed.delayedDiagID
             /\ g.reported = failed.reported
             /\ g.fatalErrorOccurred = failed.fatalErrorOccurred
             /\ g.lastDiagLevel = failed.lastDiagLevel /\ g.lastShown = last
             /\ g.emitted = TRUE /\ g.delayedShown = failed.delayedShown
      BY <3>1, ShowingTyped
    <3>4. QED  BY <3>2, <3>3
  <2>5. Taken(f, e, level) /\ GivenToClient(f, e, level)
    <3>1. Taken(f, e, level)
      BY <1>0, <1>1, <1>3, <2>4, Zenon DEF Taken
    <3>2. /\ f.errorOccurred = (e.errorOccurred \/ IsError(level))
          /\ f.lastShown = IF level = "note" THEN e.lastShown ELSE TRUE
      BY <1>0, <1>3, <2>4, Zenon DEF b, last
    <3>3. f.shown = [e.shown EXCEPT ![level] = @ + 1]
      BY <1>0, <2>4 DEF oneMore
    <3>4. /\ f.delayedDiagID = e.delayedDiagID /\ f.emitted = TRUE
          /\ f.numErrors = failed.numErrors
      BY <1>0, <1>3, <2>4, Zenon
    <3>5. GivenToClient(f, e, level)
      BY <1>0, <1>7, <2>3, <3>2, <3>3, <3>4, Zenon DEF GivenToClient
    <3>6. QED  BY <3>1, <3>5
  <2>6. QED  BY <2>5 DEF f
<1>8. QED  BY <1>4, <1>5, <1>6, <1>7, Zenon

-----------------------------------------------------------------------------
(* Sound and silenced *)

(* Nothing but notes is shown when e becomes f, if a fatal error was.       *)
OnlyNotes(e, f) ==
  e.shown["fatal"] > 0 =>
    \A level \in Levels \ {"note"} : f.shown[level] = e.shown[level]

(* The types of the fields that the argument needs.                         *)
LEMMA Typed ==
  ASSUME NEW e, AccountTyped(e)
  PROVE  /\ e.numErrors \in Nat /\ e.reported \in Nat
         /\ e.errorOccurred \in BOOLEAN /\ e.fatalErrorOccurred \in BOOLEAN
         /\ e.lastShown \in BOOLEAN /\ e.delayedDiagID \in {None} \cup Delayable
         /\ e.delayedShown \in BOOLEAN /\ e.shown \in [Levels -> Nat]
         /\ \A level \in Levels : e.shown[level] \in Nat
BY DEF AccountTyped

(* What is kept back: a diagnostic while the engine is silenced, and one that
   is ignored.                                                              *)
LEMMA KeptBackSound ==
  ASSUME NEW e, Sound(e), NEW level, Complete(e) \/ level = "fatal",
         NEW f, Taken(f, e, level), KeptBack(f, e, level)
  PROVE  Sound(f) /\ Complete(f) /\ (level = "fatal" => f.fatalErrorOccurred)
<1>1. AccountTyped(f)
  BY DEF Taken
<1>2. ErrorsCounted(f)
  BY Typed DEF Sound, ErrorsCounted, Taken, KeptBack, OneFatal, Silenced, SilentFor, IsError
<1>3. OneFatal(f)
  BY Typed DEF Sound, Taken, KeptBack, OneFatal, Silenced, SilentFor, IsError
<1>4. Complete(f)
  BY Typed DEF Sound, Taken, KeptBack, Complete, Silenced, SilentFor, IsError
<1>5. level = "fatal" => f.fatalErrorOccurred
  BY DEF Taken, KeptBack, SilentFor
<1>6. QED  BY <1>1, <1>2, <1>3, <1>4, <1>5 DEF Sound

(* The first error that is one too many: what is delayed then stands for it. *)
LEMMA BeyondLimitSound ==
  ASSUME NEW e, Sound(e), NEW f, Taken(f, e, "error"), BeyondLimit(f, e, "error")
  PROVE  Sound(f)
<1>1. AccountTyped(f)
  BY DEF Taken
<1>2. ErrorsCounted(f)
  BY Typed DEF Sound, ErrorsCounted, Taken, BeyondLimit, IsError
<1>3. OneFatal(f)
  BY Typed DEF Sound, Taken, BeyondLimit, OneFatal, Silenced, SilentFor
<1>4. QED  BY <1>1, <1>2, <1>3 DEF Sound

(* What is shown: it is within the limit, and a fatal error is the first.   *)
LEMMA GivenSound ==
  ASSUME NEW e, Sound(e), NEW level, Complete(e) \/ level = "fatal",
         NEW f, Taken(f, e, level), GivenToClient(f, e, level)
  PROVE  Sound(f) /\ Complete(f)
<1>1. AccountTyped(f)
  BY DEF Taken
<1>2. /\ e.shown \in [Levels -> Nat]
      /\ f.shown["fatal"] = IF level = "fatal" THEN e.shown["fatal"] + 1 ELSE e.shown["fatal"]
      /\ f.shown["error"] = IF level = "error" THEN e.shown["error"] + 1 ELSE e.shown["error"]
  BY Typed, Strings DEF Sound, GivenToClient
<1>3. ErrorsCounted(f)
  BY <1>2, Typed
  DEF Sound, Complete, ErrorsCounted, OneFatal, Silenced, Taken, GivenToClient, SilentFor, IsError
<1>4. OneFatal(f)
  BY <1>2, Typed DEF Sound, OneFatal, Silenced, Taken, GivenToClient, SilentFor, IsError
<1>5. Complete(f)
  BY <1>2, Typed DEF Sound, Taken, GivenToClient, Complete, Silenced, SilentFor, IsError
<1>6. QED  BY <1>1, <1>3, <1>4, <1>5 DEF Sound

(* What ProcessDiag keeps, and which levels it may show.                    *)
LEMMA ProcessSound ==
  ASSUME opts \in Options, NEW e, Sound(e), NEW level,
         Complete(e) \/ level = "fatal",
         NEW f, f = ProcessDiag(e, level)
  PROVE  /\ Sound(f)
         /\ Complete(f) \/ (level = "error" /\ ~f.emitted /\ f.delayedDiagID # None)
         /\ level = "fatal" => f.fatalErrorOccurred \/ f.emitted
         /\ OnlyNotes(e, f)
         /\ e.fatalErrorOccurred => f.fatalErrorOccurred /\ f.shown = e.shown
         /\ level # "note" => f.shown["note"] = e.shown["note"]
         /\ f.shown["note"] > e.shown["note"] =>
              ~e.fatalErrorOccurred /\ e.lastDiagLevel # "ignored"
<1>1. /\ Taken(f, e, level)
      /\ \/ KeptBack(f, e, level) \/ BeyondLimit(f, e, level)
         \/ GivenToClient(f, e, level)
  BY Processed DEF Sound
<1>2. AccountTyped(e) /\ e.shown \in [Levels -> Nat]
  BY Typed DEF Sound
<1>3. e.shown["fatal"] > 0 => Silenced(e)
  BY DEF Sound, OneFatal
<1>4. CASE KeptBack(f, e, level)
  <2>1. Sound(f) /\ Complete(f) /\ (level = "fatal" => f.fatalErrorOccurred)
    BY <1>1, <1>4, KeptBackSound
  <2>2. OnlyNotes(e, f) /\ f.shown = e.shown /\ (e.fatalErrorOccurred => f.fatalErrorOccurred)
    BY <1>1, <1>4 DEF KeptBack, OnlyNotes, Taken, SilentFor
  <2>3. ~(f.shown["note"] > e.shown["note"])
    BY <1>2, <2>2, Strings
  <2>4. QED  BY <2>1, <2>2, <2>3
<1>5. CASE BeyondLimit(f, e, level)
  <2>1. level = "error" /\ ~f.emitted /\ f.delayedDiagID # None /\ ~e.fatalErrorOccurred
    BY <1>5 DEF BeyondLimit, SilentFor
  <2>2. Sound(f)
    BY <1>1, <1>5, <2>1, BeyondLimitSound
  <2>3. OnlyNotes(e, f) /\ f.shown = e.shown
    BY <1>5 DEF BeyondLimit, OnlyNotes
  <2>4. ~(f.shown["note"] > e.shown["note"])
    BY <1>2, <2>3, Strings
  <2>5. QED  BY <2>1, <2>2, <2>3, <2>4
<1>6. CASE GivenToClient(f, e, level)
  <2>1. Sound(f) /\ Complete(f) /\ f.emitted /\ ~e.fatalErrorOccurred
    BY <1>1, <1>6, GivenSound DEF GivenToClient, SilentFor
  <2>2. Silenced(e) => level = "note"
    BY <1>6 DEF GivenToClient, SilentFor, Silenced
  <2>3. OnlyNotes(e, f)
    BY <1>2, <1>3, <1>6, <2>2 DEF GivenToClient, OnlyNotes
  <2>4. level # "note" => f.shown["note"] = e.shown["note"]
    BY <1>2, <1>6, Strings DEF GivenToClient
  <2>5. f.shown["note"] > e.shown["note"] =>
          ~e.fatalErrorOccurred /\ e.lastDiagLevel # "ignored"
    <3>1. SUFFICES ASSUME f.shown["note"] > e.shown["note"]
                   PROVE  ~e.fatalErrorOccurred /\ e.lastDiagLevel # "ignored"
      OBVIOUS
    <3>2. level = "note"
      BY <1>2, <2>4, <3>1, Strings
    <3>3. QED  BY <1>6, <3>2 DEF GivenToClient, SilentFor
  <2>6. QED  BY <2>1, <2>3, <2>4, <2>5
<1>7. QED  BY <1>1, <1>4, <1>5, <1>6

(* Neither is an account disturbed by a file that is found to be gone.      *)
LEMMA FileGoneSound ==
  ASSUME NEW e, Sound(e), NEW f, f = FileGone(e)
  PROVE  /\ Sound(f) /\ (Complete(e) => Complete(f))
         /\ f.shown = e.shown /\ f.emitted = e.emitted /\ f.delayedDiagID # None
         /\ f.fatalErrorOccurred = e.fatalErrorOccurred
         /\ f.lastDiagLevel = e.lastDiagLevel /\ f.lastShown = e.lastShown
         /\ f.delayedShown = e.delayedShown
<1>1. AccountTyped(e) /\ "err_cannot_open_file" \in Delayable
  BY DEF Sound, Delayable
<1>2. /\ AccountTyped(f) /\ f.errorOccurred = e.errorOccurred
      /\ f.numErrors = e.numErrors /\ f.shown = e.shown
      /\ f.delayedDiagID # None
      /\ f.reported = e.reported /\ f.fatalErrorOccurred = e.fatalErrorOccurred
      /\ f.lastDiagLevel = e.lastDiagLevel /\ f.lastShown = e.lastShown
      /\ f.emitted = e.emitted /\ f.delayedShown = e.delayedShown
  BY <1>1, SetDelayedFields DEF FileGone
<1>3. ErrorsCounted(f) /\ OneFatal(f) /\ (Complete(e) => Complete(f))
  BY <1>2 DEF Sound, ErrorsCounted, OneFatal, Complete, Silenced
<1>4. QED  BY <1>2, <1>3 DEF Sound

-----------------------------------------------------------------------------
(* What was delayed *)

(* A fatal error is shown or finds the engine silenced, and what is delayed
   stays so.                                                                *)
LEMMA FatalProcessed ==
  ASSUME opts \in Options, NEW e, AccountTyped(e), NEW f, f = ProcessDiag(e, "fatal")
  PROVE  /\ Taken(f, e, "fatal") /\ f.delayedDiagID = e.delayedDiagID
         /\ KeptBack(f, e, "fatal") \/ GivenToClient(f, e, "fatal")
<1>1. /\ Taken(f, e, "fatal")
      /\ \/ KeptBack(f, e, "fatal") \/ BeyondLimit(f, e, "fatal")
         \/ GivenToClient(f, e, "fatal")
  BY Processed
<1>2. ~BeyondLimit(f, e, "fatal")
  BY DEF BeyondLimit
<1>3. QED  BY <1>1, <1>2 DEF KeptBack, GivenToClient

(* Reported a second time it is not shown, and so there is no third time: the
   recursion of ReportDelayed ends where its definition ends.               *)
LEMMA NoThirdTime ==
  ASSUME opts \in Options, NEW e, AccountTyped(e),
         NEW first, first = ProcessDiag(e, "fatal"),
         NEW second, second = ProcessDiag(first, "fatal")
  PROVE  /\ ~Awaited(second, e.delayedDiagID)
         /\ second.fatalErrorOccurred /\ second.shown = first.shown
<1>1. Taken(first, e, "fatal") /\ first.delayedDiagID = e.delayedDiagID
  BY FatalProcessed
<1>2. AccountTyped(first) /\ SilentFor(first, "fatal")
  BY <1>1 DEF Taken, SilentFor
<1>3. /\ Taken(second, first, "fatal") /\ second.delayedDiagID = first.delayedDiagID
      /\ KeptBack(second, first, "fatal")
  BY <1>2, FatalProcessed DEF GivenToClient
<1>4. QED  BY <1>1, <1>2, <1>3 DEF Awaited, Taken, KeptBack

(* Whatever was delayed, once it is reported the engine is silenced for good. *)
LEMMA ReportDelayedSettles ==
  ASSUME opts \in Options, NEW e, Sound(e), e.delayedDiagID # None,
         NEW f, f = ReportDelayed(e)
  PROVE  /\ Settled(f) /\ OnlyNotes(e, f) /\ f.shown["note"] = e.shown["note"]
         /\ e.fatalErrorOccurred => f.shown = e.shown
<1> DEFINE first == ProcessDiag(e, "fatal")
           second == ProcessDiag(first, "fatal")
           both == IF Awaited(first, e.delayedDiagID) THEN second ELSE first
           b == both.delayedShown \/ first.emitted
<1>1. /\ Sound(first) /\ OnlyNotes(e, first)
      /\ first.fatalErrorOccurred \/ first.emitted
      /\ e.fatalErrorOccurred => first.shown = e.shown
      /\ first.shown["note"] = e.shown["note"]
      /\ first.delayedDiagID = e.delayedDiagID
  <2> HIDE DEF first
  <2>1. first = ProcessDiag(e, "fatal") /\ AccountTyped(e)
    BY DEF first, Sound
  <2>2. first.delayedDiagID = e.delayedDiagID
    BY <2>1, FatalProcessed
  <2>3. QED  BY <2>1, <2>2, ProcessSound
<1>2. Sound(second) /\ second.fatalErrorOccurred /\ second.shown = first.shown
  <2> HIDE DEF first, second
  <2>1. /\ first = ProcessDiag(e, "fatal") /\ second = ProcessDiag(first, "fatal")
        /\ AccountTyped(e)
    BY DEF first, second, Sound
  <2>2. Sound(second)
    BY <1>1, <2>1, ProcessSound
  <2>3. QED  BY <2>1, <2>2, NoThirdTime
<1>3. first.emitted => Awaited(first, e.delayedDiagID)
  BY <1>1 DEF Awaited
<1>4. f = [both EXCEPT !.delayedDiagID = None, !.delayedShown = b]
  BY DEF ReportDelayed
<1> HIDE DEF first, second
<1>5. Sound(both) /\ both.fatalErrorOccurred /\ both.shown = first.shown
  BY <1>1, <1>2, <1>3
<1>6. b \in BOOLEAN
  <2>1. both.delayedShown \in BOOLEAN
    BY <1>5, Typed DEF Sound
  <2>2. first.emitted \in BOOLEAN
    BY <1>1 DEF Sound, AccountTyped
  <2>3. QED  BY <2>1, <2>2
<1> HIDE DEF both, b
<1>7. /\ AccountTyped(f) /\ f.errorOccurred = both.errorOccurred
      /\ f.numErrors = both.numErrors /\ f.shown = both.shown /\ f.delayedDiagID = None
      /\ f.reported = both.reported /\ f.fatalErrorOccurred = both.fatalErrorOccurred
      /\ f.lastDiagLevel = both.lastDiagLevel /\ f.lastShown = both.lastShown
  BY <1>4, <1>5, <1>6 DEF Sound, AccountTyped
<1>8. ErrorsCounted(f) /\ OneFatal(f) /\ Complete(f)
  BY <1>5, <1>7 DEF Sound, ErrorsCounted, OneFatal, Complete, Silenced
<1>9. OnlyNotes(e, f)
  BY <1>1, <1>5, <1>7 DEF OnlyNotes
<1>10. QED  BY <1>1, <1>5, <1>7, <1>8, <1>9 DEF Settled, Ready, Sound

-----------------------------------------------------------------------------
(* A report *)

(* Once a report is over nothing is left delayed that would be shown: of what
   was, the guard of ReportDelayed lets by only what is reported itself, and
   was not shown.                                                           *)
LEMMA EmitSettled ==
  ASSUME opts \in Options, NEW e, Ready(e), NEW level,
         NEW id, id \in Delayable => level = "fatal",
         NEW gone, NEW f, f = EmitCurrent(e, id, level, gone)
  PROVE  Settled(f) /\ InContext(e, f)
<1> DEFINE built == IF gone = "built" THEN FileGone(e) ELSE e
           done == ProcessDiag(built, level)
           read == IF gone = "shown" /\ done.emitted THEN FileGone(done) ELSE done
<1>1. /\ Ready(built) /\ built.shown = e.shown
      /\ built.fatalErrorOccurred = e.fatalErrorOccurred
      /\ built.lastDiagLevel = e.lastDiagLevel /\ built.lastShown = e.lastShown
  BY FileGoneSound DEF Ready
<1>2. /\ Sound(done) /\ OnlyNotes(built, done)
      /\ Complete(done) \/ (level = "error" /\ ~done.emitted /\ done.delayedDiagID # None)
      /\ level = "fatal" => done.fatalErrorOccurred \/ done.emitted
      /\ built.fatalErrorOccurred => done.fatalErrorOccurred /\ done.shown = built.shown
      /\ done.shown["note"] > built.shown["note"] =>
           ~built.fatalErrorOccurred /\ built.lastDiagLevel # "ignored"
  <2> HIDE DEF built, done
  <2>1. done = ProcessDiag(built, level)
    BY DEF done
  <2>2. QED  BY <1>1, <2>1, ProcessSound DEF Ready
<1>3. /\ Sound(read) /\ read.shown = done.shown
      /\ read.fatalErrorOccurred = done.fatalErrorOccurred
      /\ Complete(read) \/ (level = "error" /\ ~read.emitted /\ read.delayedDiagID # None)
      /\ level = "fatal" => read.fatalErrorOccurred \/ read.emitted
  <2> HIDE DEF built, done
  <2>1. CASE gone = "shown" /\ done.emitted
    <3>1. read = FileGone(done)
      BY <2>1
    <3>2. QED  BY <1>2, <2>1, <3>1, FileGoneSound
  <2>2. CASE ~(gone = "shown" /\ done.emitted)
    BY <1>2, <2>2
  <2>3. QED  BY <2>1, <2>2
<1>4. f = IF Awaited(read, id) THEN ReportDelayed(read) ELSE read
  BY DEF EmitCurrent
<1> HIDE DEF built, done, read
<1>5. /\ Settled(f) /\ OnlyNotes(read, f) /\ f.shown["note"] = read.shown["note"]
      /\ read.fatalErrorOccurred => f.shown = read.shown
  <2>1. CASE Awaited(read, id)
    <3>1. read.delayedDiagID # None /\ f = ReportDelayed(read)
      BY <1>4, <2>1 DEF Awaited
    <3>2. QED  BY <1>3, <3>1, ReportDelayedSettles
  <2>2. CASE ~Awaited(read, id)
    <3>1. f = read
      BY <1>4, <2>2
    <3>2. read.delayedDiagID # None => read.fatalErrorOccurred /\ level = "fatal"
      <4>1. SUFFICES ASSUME read.delayedDiagID # None
                     PROVE  read.fatalErrorOccurred /\ level = "fatal"
        OBVIOUS
      <4>2. ~read.emitted /\ read.delayedDiagID = id
        BY <2>2, <4>1 DEF Awaited
      <4>3. id \in Delayable
        BY <1>3, <4>1, <4>2, Typed DEF Sound
      <4>4. QED  BY <1>3, <4>2, <4>3
    <3>3. Complete(read)
      BY <1>3, <3>2
    <3>4. QED  BY <1>3, <3>1, <3>2, <3>3 DEF Settled, Ready, OnlyNotes
  <2>3. QED  BY <2>1, <2>2
<1>6. f.shown["fatal"] <= 1
  BY <1>5, Typed DEF Settled, Ready, Sound, OneFatal
<1>7. OnlyNotes(e, f)
  <2>1. OnlyNotes(e, done) /\ OnlyNotes(done, f)
    BY <1>1, <1>2, <1>3, <1>5 DEF OnlyNotes
  <2>2. QED  BY <2>1, Strings DEF OnlyNotes
<1>8. e.delayedShown => f.shown = e.shown
  <2>1. SUFFICES ASSUME e.fatalErrorOccurred PROVE f.shown = e.shown
    BY DEF Ready, Sound, OneFatal
  <2>2. done.shown = e.shown /\ done.fatalErrorOccurred
    BY <1>1, <1>2, <2>1
  <2>3. QED  BY <1>3, <1>5, <2>2
<1>9. f.shown["note"] > e.shown["note"] => e.lastShown \/ e.lastDiagLevel = None
  <2>1. SUFFICES ASSUME f.shown["note"] > e.shown["note"]
                 PROVE  e.lastShown \/ e.lastDiagLevel = None
    OBVIOUS
  <2>2. ~e.fatalErrorOccurred /\ e.lastDiagLevel # "ignored"
    BY <1>1, <1>2, <1>3, <1>5, <2>1
  <2>3. QED  BY <2>2 DEF Ready, Sound, OneFatal, Complete, Silenced
<1>10. QED  BY <1>5, <1>6, <1>7, <1>8, <1>9 DEF InContext, OnlyNotes

(* A fatal error takes effect where Sema keeps the next diagnostic to itself. *)
LEMMA LastIgnoredSettled ==
  ASSUME NEW e, Ready(e), NEW f, f = LastIgnored(e)
  PROVE  /\ Settled(f) /\ f.shown = e.shown
         /\ f.lastDiagLevel = "ignored" /\ f.lastShown = FALSE
         /\ f.delayedShown = e.delayedShown
<1>1. AccountTyped(e)
  BY DEF Ready, Sound
<1> DEFINE b == e.fatalErrorOccurred \/ e.lastDiagLevel = "fatal"
<1>2. b \in BOOLEAN
  BY <1>1 DEF AccountTyped
<1>3. f = [e EXCEPT !.fatalErrorOccurred = b, !.lastDiagLevel = "ignored",
                    !.lastShown = FALSE]
  BY DEF LastIgnored
<1> HIDE DEF b
<1>4. /\ AccountTyped(f) /\ f.errorOccurred = e.errorOccurred
      /\ f.numErrors = e.numErrors /\ f.shown = e.shown
      /\ f.delayedDiagID = e.delayedDiagID /\ f.delayedShown = e.delayedShown
      /\ f.reported = e.reported /\ f.fatalErrorOccurred = b
      /\ f.lastDiagLevel = "ignored" /\ f.lastShown = FALSE
  BY <1>1, <1>2, <1>3 DEF AccountTyped
<1>5. (Silenced(f) <=> Silenced(e)) /\ (e.fatalErrorOccurred => f.fatalErrorOccurred)
  BY <1>4 DEF Silenced, b
<1>6. ErrorsCounted(f) /\ OneFatal(f)
  BY <1>4, <1>5 DEF Ready, Sound, ErrorsCounted, OneFatal
<1>7. Complete(f)
  BY <1>4, <1>5 DEF Ready, Complete
<1>8. QED  BY <1>4, <1>6, <1>7 DEF Settled, Ready, Sound

(* ... whatever file turned out to be gone while it was built.              *)
LEMMA KeptToSemaSettled ==
  ASSUME NEW e, Ready(e), NEW gone, NEW f, f = KeptToSema(e, gone)
  PROVE  /\ Settled(f) /\ f.shown = e.shown
         /\ f.lastDiagLevel = "ignored" /\ f.lastShown = FALSE
         /\ f.delayedShown = e.delayedShown
<1> DEFINE built == IF gone = "built" THEN FileGone(e) ELSE e
<1>1. Ready(built) /\ built.shown = e.shown /\ built.delayedShown = e.delayedShown
  BY FileGoneSound DEF Ready
<1>2. f = LastIgnored(built)
  BY DEF KeptToSema
<1> HIDE DEF built
<1>3. QED  BY <1>1, <1>2, LastIgnoredSettled

(* A settled account that does not change shows nothing.                    *)
LEMMA NothingShown ==
  ASSUME NEW e, Ready(e), NEW f, f.shown = e.shown
  PROVE  InContext(e, f)
<1>1. \A level \in Levels : e.shown[level] \in Nat
  BY Typed DEF Ready, Sound
<1>2. e.shown["fatal"] <= 1
  BY DEF Ready, Sound, OneFatal
<1>3. ~(f.shown["note"] > e.shown["note"])
  BY <1>1, Strings
<1>4. QED  BY <1>2, <1>3 DEF InContext

-----------------------------------------------------------------------------
(* The engine *)

(* A fresh engine has nothing to account for.                               *)
LEMMA InitSettled == Init => IInv
<1>1. SUFFICES ASSUME Init PROVE IInv
  OBVIOUS
<1>2. eng = Fresh /\ opts \in Options
  BY <1>1 DEF Init
<1>3. AccountTyped(eng)
  BY <1>2 DEF AccountTyped, Fresh
<1>4. opts.limit \in Nat
  BY <1>2, DiagnosticsAssumption
<1>5. ErrorsCounted(eng) /\ OneFatal(eng) /\ Complete(eng) /\ eng.delayedDiagID = None
  BY <1>2, <1>4, Strings DEF ErrorsCounted, OneFatal, Complete, Silenced, Fresh
<1>6. QED  BY <1>2, <1>3, <1>5 DEF IInv, Settled, Ready, Sound

(* The options stay what they are.                                          *)
LEMMA SettledNext ==
  ASSUME opts \in Options, opts' = opts, Settled(eng')
  PROVE  IInv'
BY DEF IInv, Settled, Ready, Sound, AccountTyped, ErrorsCounted, OneFatal,
       Complete, Silenced

(* A report, of whatever level, as the actions make one.                    *)
LEMMA ReportSettled ==
  ASSUME IInv, opts' = opts, NEW level, NEW id, id \in Delayable => level = "fatal",
         NEW gone, eng' = EmitCurrent(eng, id, level, gone)
  PROVE  IInv' /\ InContext(eng, eng')
<1>1. Settled(eng') /\ InContext(eng, eng')
  BY EmitSettled DEF IInv, Settled
<1>2. QED  BY <1>1, SettledNext DEF IInv

(* One that Sema keeps to itself.                                           *)
LEMMA SuppressSettled ==
  ASSUME IInv, NEW gone, Suppress(gone)
  PROVE  IInv' /\ InContext(eng, eng')
<1>1. eng' = KeptToSema(eng, gone) /\ opts' = opts
  BY DEF Suppress, Reporting
<1>2. Settled(eng') /\ eng'.shown = eng.shown
  BY <1>1, KeptToSemaSettled DEF IInv, Settled
<1>3. InContext(eng, eng')
  BY <1>2, NothingShown DEF IInv, Settled
<1>4. QED  BY <1>1, <1>2, <1>3, SettledNext DEF IInv

(* One that is ignored before it and after it: no note can be shown.        *)
LEMMA SuppressAccessSettled ==
  ASSUME IInv, NEW d \in Warnings, NEW loc, NEW gone, SuppressAccess(d, loc, gone)
  PROVE  IInv' /\ InContext(eng, eng')
<1> DEFINE a == KeptToSema(eng, gone)
           b == EmitCurrent(a, d, Level(d, loc), gone)
<1>1. opts' = opts /\ eng' = LastIgnored(b)
  BY DEF SuppressAccess, Reporting
<1>2. /\ Settled(a) /\ a.shown = eng.shown /\ a.delayedShown = eng.delayedShown
      /\ a.lastDiagLevel = "ignored" /\ a.lastShown = FALSE
  BY KeptToSemaSettled DEF IInv, Settled
<1>3. Settled(b) /\ InContext(a, b)
  <2> HIDE DEF a
  <2>1. d \notin Delayable
    BY DiagnosticsAssumption
  <2>2. QED  BY <1>2, <2>1, EmitSettled DEF IInv, Settled
<1> HIDE DEF a, b
<1>4. Settled(eng') /\ eng'.shown = b.shown
  BY <1>1, <1>3, LastIgnoredSettled DEF Settled
<1>5. InContext(eng, eng')
  <2>1. ~(b.shown["note"] > a.shown["note"])
    BY <1>2, <1>3, DiagnosticsAssumption DEF InContext, Levels
  <2>2. QED  BY <1>2, <1>3, <1>4, <2>1 DEF InContext
<1>6. QED  BY <1>1, <1>4, <1>5, SettledNext DEF IInv

(* Every step leaves the account settled and shows what it shows in context. *)
LEMMA StepSettled ==
  ASSUME IInv, [Next]_vars
  PROVE  IInv' /\ (eng' = eng \/ InContext(eng, eng'))
<1>1. CASE opts' = opts /\ eng' = eng
  BY <1>1, SettledNext DEF IInv
<1>2. ASSUME NEW gone \in Times, ReportError(gone)
      PROVE  IInv' /\ InContext(eng, eng')
  <2>1. opts' = opts /\ eng' = EmitCurrent(eng, "error", ErrorLevel, gone)
    BY <1>2 DEF ReportError, Reporting
  <2>2. QED  BY <2>1, Strings, ReportSettled
<1>3. ASSUME NEW gone \in Times, ReportNote(gone)
      PROVE  IInv' /\ InContext(eng, eng')
  <2>1. opts' = opts /\ eng' = EmitCurrent(eng, "note", "note", gone)
    BY <1>3 DEF ReportNote, Reporting
  <2>2. QED  BY <2>1, Strings, ReportSettled
<1>4. ASSUME NEW gone \in Times, ReportUnreadable(gone)
      PROVE  IInv' /\ InContext(eng, eng')
  <2>1. opts' = opts
        /\ eng' = EmitCurrent(eng, "err_cannot_open_file", "fatal", gone)
    BY <1>4 DEF ReportUnreadable, Reporting
  <2>2. QED  BY <2>1, ReportSettled
<1>5. ASSUME NEW gone \in Times, NEW d \in Warnings, NEW loc \in 0..pos,
             ReportWarning(d, loc, gone)
      PROVE  IInv' /\ InContext(eng, eng')
  <2>1. opts' = opts /\ eng' = EmitCurrent(eng, d, Level(d, loc), gone)
    BY <1>5 DEF ReportWarning, Reporting
  <2>2. d \notin Delayable
    BY DiagnosticsAssumption
  <2>3. QED  BY <2>1, <2>2, ReportSettled
<1>6. ASSUME NEW gone \in Times, NEW d \in Warnings, NEW loc \in 0..pos,
             SuppressAccess(d, loc, gone)
      PROVE  IInv' /\ InContext(eng, eng')
  BY <1>6, SuppressAccessSettled
<1>7. ASSUME NEW gone \in Times, Suppress(gone)
      PROVE  IInv' /\ InContext(eng, eng')
  BY <1>7, SuppressSettled
<1>8. UNCHANGED vars => opts' = opts /\ eng' = eng
  BY DEF vars
<1>9. QED  BY <1>1, <1>2, <1>3, <1>4, <1>5, <1>6, <1>7, <1>8 DEF Next

-----------------------------------------------------------------------------
(* Numbers and recursion                                                    *)

(* A set of naturals has a least element.                                   *)
LEMMA Smallest ==
  ASSUME NEW S, S \subseteq Nat, S # {}
  PROVE  \E n \in S : \A m \in S : n <= m
<1>1. PICK n \in S : \A m \in S : ~(<<m, n>> \in OpToRel(<, Nat))
  BY NatLessThanWellFounded, WFMin
<1>2. OpToRel(<, Nat) = {ss \in Nat \X Nat : ss[1] < ss[2]}
  BY DEF OpToRel
<1>3. ASSUME NEW m \in S PROVE n <= m
  <2>1. ~(<<m, n>> \in {ss \in Nat \X Nat : ss[1] < ss[2]})
    BY <1>1, <1>2, Zenon
  <2>2. m \in Nat /\ n \in Nat
    OBVIOUS
  <2> QED
    BY <2>1, <2>2
<1> QED
  BY <1>3

(* What holds of a number, and of each next one, holds up to the last.      *)
LEMMA Reaches ==
  ASSUME NEW a \in Nat, NEW c \in Nat, NEW T, a \in T,
         \A i \in a..c - 1 : i \in T => i + 1 \in T
  PROVE  a..c \subseteq T
<1> DEFINE Rest == {i \in a..c : i \notin T}
<1>1. SUFFICES ASSUME Rest # {} PROVE FALSE
  OBVIOUS
<1>2. PICK n \in Rest : \A m \in Rest : n <= m
  <2>1. Rest \subseteq Nat
    OBVIOUS
  <2> HIDE DEF Rest
  <2> QED
    BY <1>1, <2>1, Smallest
<1>3. n \in a..c /\ n \notin T /\ n # a
  OBVIOUS
<1>4. n - 1 \in a..c - 1 /\ (n - 1) + 1 = n
  BY <1>3
<1>5. n - 1 \in T
  <2>1. n - 1 \in a..c /\ ~(n <= n - 1)
    BY <1>3
  <2>2. n - 1 \notin Rest
    <3> HIDE DEF Rest
    <3> QED
      BY <1>2, <2>1
  <2> QED
    BY <2>1, <2>2
<1> QED
  BY <1>3, <1>4, <1>5

(* A step for each number up to N, and the values that the steps lead to.   *)
Advances(G, N, S) == G \in [1..N -> [S -> S]]
Computed(f, G, N, S, base) ==
  f \in [0..N -> S] /\ f[0] = base /\ \A i \in 1..N : f[i] = G[i][f[i - 1]]

(* The values are there up to each number, or there were a least one up to
   which they are not.                                                      *)
LEMMA Recursion ==
  ASSUME NEW N \in Nat, NEW S, NEW base \in S, NEW G, Advances(G, N, S)
  PROVE  \E f : Computed(f, G, N, S, base)
<1> USE DEF Advances, Computed
<1> DEFINE Follows(f, n) == f[0] = base /\ \A i \in 1..n : f[i] = G[i][f[i - 1]]
           Defined(n) == \E f \in [0..n -> S] : Follows(f, n)
           Undefined == {n \in 0..N : ~Defined(n)}
<1>1. Undefined = {}
  <2>1. SUFFICES ASSUME Undefined # {} PROVE FALSE
    OBVIOUS
  <2>2. PICK n \in Undefined : \A m \in Undefined : n <= m
    <3>1. Undefined \subseteq Nat
      <4> HIDE DEF Defined
      <4> QED
        OBVIOUS
    <3> HIDE DEF Undefined
    <3> QED
      BY <2>1, <3>1, Smallest
  <2>3. n \in 0..N /\ ~Defined(n)
    <3> HIDE DEF Defined
    <3> QED
      BY <2>2
  <2>4. CASE n = 0
    <3> DEFINE f == [i \in 0..0 |-> base]
    <3>1. f \in [0..0 -> S] /\ Follows(f, 0)
      OBVIOUS
    <3> QED
      BY <2>3, <2>4, <3>1
  <2>5. CASE n # 0
    <3>1. n - 1 \in 0..N /\ ~(n <= n - 1)
      BY <2>3, <2>5
    <3>2. Defined(n - 1)
      <4> HIDE DEF Defined
      <4> QED
        BY <2>2, <3>1
    <3>3. PICK f \in [0..n - 1 -> S] : Follows(f, n - 1)
      BY <3>2
    <3> DEFINE v == G[n][f[n - 1]]
               g == [i \in 0..n |-> IF i = n THEN v ELSE f[i]]
    <3>4. v \in S
      BY <2>3, <2>5, <3>1
    <3>5. g \in [0..n -> S]
      BY <2>3, <2>5, <3>4
    <3>6. g[0] = base
      BY <2>3, <2>5, <3>3
    <3>7. ASSUME NEW i \in 1..n PROVE g[i] = G[i][g[i - 1]]
      <4>1. i - 1 \in 0..n /\ i - 1 # n /\ g[i - 1] = f[i - 1]
        BY <2>3
      <4>2. CASE i = n
        BY <2>3, <4>1, <4>2
      <4>3. CASE i # n
        <5>1. i \in 1..n - 1 /\ g[i] = f[i]
          BY <2>3, <4>3
        <5>2. f[i] = G[i][f[i - 1]]
          BY <3>3, <5>1
        <5> HIDE DEF g
        <5> QED
          BY <4>1, <5>1, <5>2
      <4> QED
        BY <4>2, <4>3
    <3>8. Follows(g, n)
      <4> HIDE DEF g
      <4> QED
        BY <3>6, <3>7
    <3> HIDE DEF g, Follows
    <3> QED
      BY <2>3, <3>5, <3>8
  <2> QED
    BY <2>4, <2>5
<1>2. Defined(N)
  <2> HIDE DEF Defined
  <2> QED
    BY <1>1
<1> QED
  BY <1>2

(* A set of naturals that has a bound has a greatest element.               *)
LEMMA Greatest ==
  ASSUME NEW S, S \subseteq Nat, S # {}, NEW N \in Nat, \A i \in S : i <= N
  PROVE  Max(S) \in S /\ \A i \in S : i <= Max(S)
<1> DEFINE Bounds == {n \in Nat : \A i \in S : i <= n}
<1>1. PICK n \in Bounds : \A m \in Bounds : n <= m
  <2>1. Bounds \subseteq Nat /\ N \in Bounds
    OBVIOUS
  <2> HIDE DEF Bounds
  <2> QED
    BY <2>1, Smallest
<1>2. n \in Nat /\ \A i \in S : i <= n /\ i \in Nat
  BY <1>1
<1>3. n \in S
  <2>1. SUFFICES ASSUME n \notin S PROVE FALSE
    OBVIOUS
  <2>2. \A i \in S : i <= n - 1
    BY <1>2, <2>1
  <2>3. n - 1 \in Nat
    <3>1. PICK i \in S : TRUE
      OBVIOUS
    <3> QED
      BY <1>2, <2>2, <3>1
  <2>4. n - 1 \in Bounds /\ ~(n <= n - 1)
    BY <1>2, <2>2, <2>3
  <2> QED
    BY <1>1, <2>4
<1>4. \E x \in S : \A y \in S : x >= y
  BY <1>2, <1>3
<1>5. Max(S) \in S /\ \A y \in S : Max(S) >= y
  BY <1>4 DEF Max
<1> QED
  BY <1>2, <1>5

-----------------------------------------------------------------------------
(* Points                                                                   *)

(* Points in the order of the source, the command line's first, of states up
   to the number N.                                                         *)
InOrder(ps, N) ==
  /\ ps \in Seq([state : 1..N, loc : Nat]) /\ Len(ps) >= 1
  /\ ps[1] = Point(1, 0)
  /\ \A i, j \in 1..Len(ps) : i < j => ps[i].loc < ps[j].loc

(* The k-th point is the last up to loc.                                    *)
Under(ps, loc, k) ==
  /\ k \in 1..Len(ps) /\ ps[k].loc <= loc
  /\ \A j \in 1..Len(ps) : k < j => loc < ps[j].loc

(* What is known of the elements.                                           *)
LEMMA PointFacts ==
  ASSUME NEW N \in Nat, NEW ps, InOrder(ps, N)
  PROVE  /\ Len(ps) \in Nat /\ Len(ps) \in 1..Len(ps) /\ 1 \in 1..Len(ps)
         /\ DOMAIN ps = 1..Len(ps)
         /\ \A i \in 1..Len(ps) : /\ ps[i] \in [state : 1..N, loc : Nat]
                                  /\ ps[i].state \in 1..N /\ ps[i].loc \in Nat
         /\ Last(ps) = ps[Len(ps)]
<1>1. ps \in Seq([state : 1..N, loc : Nat]) /\ Len(ps) >= 1
  BY DEF InOrder
<1>2. Len(ps) \in Nat /\ DOMAIN ps = 1..Len(ps)
  BY <1>1, LenProperties
<1>3. \A i \in 1..Len(ps) : ps[i] \in [state : 1..N, loc : Nat]
  BY <1>1, ElementOfSeq
<1>4. \A i \in 1..Len(ps) : ps[i].state \in 1..N /\ ps[i].loc \in Nat
  BY <1>3
<1> QED
  BY <1>1, <1>2, <1>3, <1>4 DEF Last

(* There is one last point up to loc.                                       *)
LEMMA UnderExists ==
  ASSUME NEW N \in Nat, NEW ps, InOrder(ps, N), NEW loc \in Nat
  PROVE  LET k == Max({i \in DOMAIN ps : ps[i].loc <= loc}) IN Under(ps, loc, k)
<1> DEFINE S == {i \in DOMAIN ps : ps[i].loc <= loc}
           n == Len(ps)
<1>1. n \in Nat /\ DOMAIN ps = 1..n /\ 1 \in 1..n /\ \A i \in 1..n : ps[i].loc \in Nat
  BY PointFacts
<1>2. ps[1].loc = 0
  BY DEF InOrder, Point
<1>3. S \subseteq 1..n /\ 1 \in S
  BY <1>1, <1>2
<1>4. Max(S) \in S /\ \A i \in S : i <= Max(S)
  <2>1. S \subseteq Nat /\ S # {} /\ \A i \in S : i <= n
    <3> HIDE DEF S, n
    <3> QED
      BY <1>1, <1>3
  <2> HIDE DEF S, n
  <2> QED
    BY <1>1, <2>1, Greatest
<1> DEFINE k == Max(S)
<1>5. k \in 1..n /\ ps[k].loc <= loc
  <2> HIDE DEF k, n
  <2> QED
    BY <1>1, <1>4 DEF k
<1>6. ASSUME NEW j \in 1..n, k < j PROVE loc < ps[j].loc
  <2>1. j \notin S
    <3> HIDE DEF S, n
    <3> QED
      BY <1>1, <1>4, <1>5, <1>6
  <2> QED
    BY <1>1, <2>1
<1> QED
  <2> HIDE DEF k
  <2>1. Under(ps, loc, k)
    BY <1>5, <1>6 DEF Under
  <2> QED
    BY <2>1 DEF k

(* There is no other such point.                                            *)
LEMMA UnderUnique ==
  ASSUME NEW N \in Nat, NEW ps, InOrder(ps, N), NEW loc \in Nat,
         NEW i, NEW j, Under(ps, loc, i), Under(ps, loc, j)
  PROVE  i = j
<1>1. Len(ps) \in Nat /\ \A h \in 1..Len(ps) : ps[h].loc \in Nat
  BY PointFacts
<1> QED
  BY <1>1 DEF Under

(* And it is the one that is found.                                         *)
LEMMA PointForIs ==
  ASSUME NEW N \in Nat, NEW ps, InOrder(ps, N), NEW loc \in Nat, loc # 0,
         NEW k, Under(ps, loc, k)
  PROVE  PointFor(ps, loc) = ps[k]
<1>1. /\ Len(ps) \in Nat /\ Len(ps) \in 1..Len(ps) /\ Last(ps) = ps[Len(ps)]
      /\ \A h \in 1..Len(ps) : ps[h].loc \in Nat
  BY PointFacts
<1>2. CASE loc >= Last(ps).loc
  <2>1. Under(ps, loc, Len(ps))
    BY <1>1, <1>2 DEF Under
  <2>2. k = Len(ps)
    BY <2>1, UnderUnique
  <2> QED
    BY <1>1, <1>2, <2>2 DEF PointFor
<1>3. CASE ~(loc >= Last(ps).loc)
  <2>1. Max({i \in DOMAIN ps : ps[i].loc <= loc}) = k
    BY UnderExists, UnderUnique
  <2> QED
    BY <1>3, <2>1 DEF PointFor
<1> QED
  BY <1>2, <1>3

(* The state at a place is that of the last point up to it.                 *)
LEMMA StateAtIs ==
  ASSUME NEW N \in Nat, NEW ps, InOrder(ps, N), NEW i \in Nat, i >= 1,
         NEW k, Under(ps, i - 1, k)
  PROVE  StateAt(ps, i) = ps[k].state /\ StateAt(ps, i) \in 1..N
<1>1. ps[k].state \in 1..N /\ ps[k].loc \in Nat /\ k \in Nat /\ k >= 1 /\ Len(ps) \in Nat
  BY PointFacts DEF Under
<1>2. CASE i = 1
  <2>1. ps[1].loc = 0 /\ ps[1].state = 1
    BY DEF InOrder, Point
  <2>2. k = 1
    BY <1>1, <1>2, <2>1 DEF Under, InOrder
  <2> QED
    BY <1>1, <1>2, <2>1, <2>2 DEF StateAt
<1>3. CASE i # 1
  <2>1. i - 1 \in Nat /\ i - 1 # 0
    BY <1>3
  <2>2. PointFor(ps, i - 1) = ps[k]
    BY <2>1, PointForIs
  <2> QED
    BY <1>1, <1>3, <2>2 DEF StateAt
<1> QED
  BY <1>2, <1>3

-----------------------------------------------------------------------------
(* What is in force                                                         *)

(* A sequence over a set is one over a larger set.                          *)
LEMMA SeqWithin ==
  ASSUME NEW A, NEW B, A \subseteq B, NEW s \in Seq(A)
  PROVE  s \in Seq(B)
<1>1. Len(s) \in Nat /\ s \in [1..Len(s) -> A]
  BY LenProperties
<1>2. s \in [1..Len(s) -> B]
  BY <1>1
<1> QED
  BY <1>1, <1>2

(* Points up to n, the last pragma passed.                                  *)
Passed(ps, N, n) ==
  n \in Nat /\ InOrder(ps, N) /\ \A i \in 1..Len(ps) : ps[i].loc <= n

ForceOf(S, ps, n) == [i \in 1..n + 1 |-> S[StateAt(ps, i)]]

(* After all pragmas it is the last point of all.                           *)
LEMMA LastUnder ==
  ASSUME NEW N \in Nat, NEW n, NEW ps, Passed(ps, N, n), NEW loc \in Nat, loc >= n
  PROVE  Under(ps, loc, Len(ps))
<1>1. Len(ps) \in 1..Len(ps) /\ Len(ps) \in Nat /\ \A i \in 1..Len(ps) : ps[i].loc \in Nat
  BY PointFacts DEF Passed
<1> QED
  BY <1>1 DEF Passed, Under

(* The mappings at each place are states, the last those of the last point. *)
LEMMA ForceFacts ==
  ASSUME NEW M, NEW S \in Seq(M), NEW n, NEW ps, Passed(ps, Len(S), n)
  PROVE  /\ \A i \in 1..n + 1 : StateAt(ps, i) \in 1..Len(S)
         /\ ForceOf(S, ps, n) \in Seq(M) /\ Len(ForceOf(S, ps, n)) = n + 1
         /\ \A i \in 1..n + 1 : ForceOf(S, ps, n)[i] = S[StateAt(ps, i)]
         /\ StateAt(ps, n + 1) = Last(ps).state
         /\ Last(ForceOf(S, ps, n)) = S[Last(ps).state]
<1>1. Len(S) \in Nat /\ n \in Nat /\ InOrder(ps, Len(S)) /\ DOMAIN S = 1..Len(S)
  BY LenProperties DEF Passed
<1>2. ASSUME NEW i \in 1..n + 1 PROVE StateAt(ps, i) \in 1..Len(S)
  <2>1. i \in Nat /\ i >= 1 /\ i - 1 \in Nat
    BY <1>1
  <2> QED
    BY <1>1, <2>1, UnderExists, StateAtIs
<1>3. \A i \in 1..n + 1 : S[StateAt(ps, i)] \in M
  BY <1>2, ElementOfSeq
<1>4. /\ ForceOf(S, ps, n) \in Seq(M) /\ Len(ForceOf(S, ps, n)) = n + 1
      /\ \A i \in 1..n + 1 : ForceOf(S, ps, n)[i] = S[StateAt(ps, i)]
  <2>1. n + 1 \in Nat
    BY <1>1
  <2>2. ForceOf(S, ps, n) \in [1..n + 1 -> M]
    BY <1>3 DEF ForceOf
  <2> QED
    BY <2>1, <2>2 DEF ForceOf
<1>5. StateAt(ps, n + 1) = ps[Len(ps)].state
  <2>1. n + 1 \in Nat /\ n + 1 >= 1 /\ (n + 1) - 1 = n
    BY <1>1
  <2>2. Under(ps, (n + 1) - 1, Len(ps))
    BY <1>1, <2>1, LastUnder
  <2> QED
    BY <1>1, <2>1, <2>2, StateAtIs
<1>6. Last(ps) = ps[Len(ps)]
  BY <1>1, PointFacts
<1>7. Last(ForceOf(S, ps, n)) = ForceOf(S, ps, n)[n + 1] /\ n + 1 \in 1..n + 1
  BY <1>1, <1>4 DEF Last
<1> QED
  BY <1>2, <1>4, <1>5, <1>6, <1>7

(* A pragma after which the last point is the last one still.               *)
LEMMA ForceGoesOn ==
  ASSUME NEW M, NEW S \in Seq(M), NEW n, NEW ps, Passed(ps, Len(S), n)
  PROVE  /\ Passed(ps, Len(S), n + 1)
         /\ ForceOf(S, ps, n + 1) = Append(ForceOf(S, ps, n), Last(ForceOf(S, ps, n)))
<1>1. Len(S) \in Nat /\ n \in Nat /\ InOrder(ps, Len(S))
  BY LenProperties DEF Passed
<1>2. Passed(ps, Len(S), n + 1)
  BY <1>1, PointFacts DEF Passed
<1>3. /\ ForceOf(S, ps, n) \in Seq(M) /\ Len(ForceOf(S, ps, n)) = n + 1
      /\ \A i \in 1..n + 1 : ForceOf(S, ps, n)[i] = S[StateAt(ps, i)]
      /\ Last(ForceOf(S, ps, n)) = S[Last(ps).state]
  BY ForceFacts
<1>4. /\ ForceOf(S, ps, n + 1) \in Seq(M) /\ Len(ForceOf(S, ps, n + 1)) = (n + 1) + 1
      /\ \A i \in 1..(n + 1) + 1 : ForceOf(S, ps, n + 1)[i] = S[StateAt(ps, i)]
      /\ StateAt(ps, (n + 1) + 1) = Last(ps).state
  BY <1>2, ForceFacts
<1> DEFINE f == ForceOf(S, ps, n)
           g == ForceOf(S, ps, n + 1)
           h == Append(f, Last(f))
<1>5. /\ h \in Seq(M) /\ Len(h) = (n + 1) + 1 /\ h[(n + 1) + 1] = Last(f)
      /\ \A i \in 1..n + 1 : h[i] = f[i]
  <2>1. Last(f) \in M
    BY <1>1, <1>3 DEF Last
  <2> HIDE DEF f
  <2> QED
    BY <1>1, <1>3, <2>1, AppendProperties DEF f
<1>6. \A i \in 1..(n + 1) + 1 : g[i] = h[i]
  <2> HIDE DEF h
  <2>1. ASSUME NEW i \in 1..(n + 1) + 1 PROVE g[i] = h[i]
    <3>1. CASE i \in 1..n + 1
      BY <1>3, <1>4, <1>5, <3>1
    <3>2. CASE i = (n + 1) + 1
      BY <1>3, <1>4, <1>5, <3>2
    <3> QED
      BY <1>1, <3>1, <3>2
  <2> QED
    BY <2>1
<1> QED
  <2> HIDE DEF g, h
  <2>1. g = h
    BY <1>4, <1>5, <1>6, SeqEqual DEF g
  <2> QED
    BY <1>2, <2>1 DEF g, h

(* A pragma at which the state q becomes active, and states may be new.     *)
Continues(T, S) == Len(T) >= Len(S) /\ \A i \in 1..Len(S) : T[i] = S[i]
IsNext(qs, ps, p) == qs = Append(ps, p)

(* The mappings before it are what they were, and those at it the state's.  *)
LEMMA ForceChanges ==
  ASSUME NEW M, NEW S \in Seq(M), NEW n, NEW ps, Passed(ps, Len(S), n),
         NEW T \in Seq(M), Continues(T, S),
         NEW q \in 1..Len(T), NEW qs, IsNext(qs, ps, Point(q, n + 1))
  PROVE  /\ Passed(qs, Len(T), n + 1) /\ Len(qs) = Len(ps) + 1
         /\ qs[Len(ps) + 1] = Point(q, n + 1)
         /\ \A i \in 1..Len(ps) : qs[i] = ps[i]
         /\ ForceOf(T, qs, n + 1) = Append(ForceOf(S, ps, n), T[q])
<1>1. /\ Len(S) \in Nat /\ n \in Nat /\ InOrder(ps, Len(S)) /\ Len(T) \in Nat
      /\ Len(T) >= Len(S) /\ \A i \in 1..Len(S) : T[i] = S[i]
  BY LenProperties DEF Passed, Continues
<1>2. /\ Len(ps) \in Nat /\ Len(ps) >= 1 /\ \A i \in 1..Len(ps) : ps[i].loc \in Nat /\ ps[i].loc <= n
      /\ ps \in Seq([state : 1..Len(S), loc : Nat]) /\ ps[1] = Point(1, 0)
      /\ \A i, j \in 1..Len(ps) : i < j => ps[i].loc < ps[j].loc
  BY <1>1, PointFacts DEF Passed, InOrder
<1> DEFINE R == [state : 1..Len(T), loc : Nat]
           p == Point(q, n + 1)
<1>3. p \in R /\ p.state = q /\ p.loc = n + 1
  BY <1>1 DEF Point
<1>4. ps \in Seq(R)
  <2>1. [state : 1..Len(S), loc : Nat] \subseteq R
    BY <1>1
  <2> HIDE DEF R
  <2> QED
    BY <1>2, <2>1, SeqWithin
<1>5. /\ qs \in Seq(R) /\ Len(qs) = Len(ps) + 1 /\ qs[Len(ps) + 1] = p
      /\ \A i \in 1..Len(ps) : qs[i] = ps[i]
  <2>1. qs = Append(ps, p)
    BY DEF IsNext
  <2> HIDE DEF R, p
  <2> QED
    BY <1>3, <1>4, <2>1, AppendProperties
<1> HIDE DEF p
<1>6. Passed(qs, Len(T), n + 1)
  <2>1. qs[1] = Point(1, 0) /\ Len(qs) >= 1 /\ n + 1 \in Nat
    BY <1>1, <1>2, <1>5
  <2>2. ASSUME NEW i \in 1..Len(qs) PROVE qs[i].loc <= n + 1
    <3>1. CASE i \in 1..Len(ps)
      <4>1. qs[i] = ps[i] /\ ps[i].loc \in Nat /\ ps[i].loc <= n
        BY <1>2, <1>5, <3>1
      <4> QED
        BY <1>1, <4>1
    <3>2. CASE i = Len(ps) + 1
      BY <1>1, <1>3, <1>5, <3>2
    <3> QED
      BY <1>2, <1>5, <3>1, <3>2
  <2>3. ASSUME NEW i \in 1..Len(qs), NEW j \in 1..Len(qs), i < j PROVE qs[i].loc < qs[j].loc
    <3>1. i \in 1..Len(ps)
      BY <1>2, <1>5, <2>3
    <3>2. qs[i] = ps[i] /\ ps[i].loc \in Nat /\ ps[i].loc <= n
      BY <1>2, <1>5, <3>1
    <3>3. CASE j \in 1..Len(ps)
      <4>1. qs[j] = ps[j] /\ ps[i].loc < ps[j].loc
        BY <1>2, <1>5, <2>3, <3>1, <3>3
      <4> QED
        BY <3>2, <4>1
    <3>4. CASE j = Len(ps) + 1
      BY <1>1, <1>3, <1>5, <3>2, <3>4
    <3> QED
      BY <1>2, <1>5, <3>3, <3>4
  <2> QED
    BY <1>5, <2>1, <2>2, <2>3 DEF Passed, InOrder
<1>7. /\ ForceOf(S, ps, n) \in Seq(M) /\ Len(ForceOf(S, ps, n)) = n + 1
      /\ \A i \in 1..n + 1 : ForceOf(S, ps, n)[i] = S[StateAt(ps, i)] /\ StateAt(ps, i) \in 1..Len(S)
  BY ForceFacts
<1>8. /\ ForceOf(T, qs, n + 1) \in Seq(M) /\ Len(ForceOf(T, qs, n + 1)) = (n + 1) + 1
      /\ \A i \in 1..(n + 1) + 1 : ForceOf(T, qs, n + 1)[i] = T[StateAt(qs, i)]
      /\ StateAt(qs, (n + 1) + 1) = Last(qs).state
  BY <1>6, ForceFacts
<1> DEFINE f == ForceOf(S, ps, n)
           g == ForceOf(T, qs, n + 1)
           h == Append(f, T[q])
<1>9. /\ h \in Seq(M) /\ Len(h) = (n + 1) + 1 /\ h[(n + 1) + 1] = T[q]
      /\ \A i \in 1..n + 1 : h[i] = f[i]
  <2>1. T[q] \in M
    BY ElementOfSeq
  <2> HIDE DEF f
  <2> QED
    BY <1>7, <2>1, AppendProperties DEF f
<1>10. ASSUME NEW i \in 1..n + 1 PROVE StateAt(qs, i) = StateAt(ps, i)
  <2>1. i \in Nat /\ i >= 1 /\ i - 1 \in Nat /\ i - 1 < n + 1
    BY <1>1
  <2>2. PICK k : Under(ps, i - 1, k)
    BY <1>1, <2>1, UnderExists
  <2>3. k \in 1..Len(ps) /\ ps[k].loc <= i - 1 /\ \A j \in 1..Len(ps) : k < j => i - 1 < ps[j].loc
    BY <2>2 DEF Under
  <2>6. k \in 1..Len(qs) /\ qs[k].loc <= i - 1
    <3>1. qs[k] = ps[k]
      BY <1>5, <2>3
    <3>2. k \in 1..Len(qs)
      BY <1>2, <1>5, <2>3
    <3> QED
      BY <2>3, <3>1, <3>2
  <2>7. ASSUME NEW j \in 1..Len(qs), k < j PROVE i - 1 < qs[j].loc
    <3>1. CASE j \in 1..Len(ps)
      <4>1. qs[j] = ps[j] /\ i - 1 < ps[j].loc
        BY <1>5, <2>3, <2>7, <3>1
      <4> QED
        BY <4>1
    <3>2. CASE j = Len(ps) + 1
      BY <1>1, <1>3, <1>5, <2>1, <3>2
    <3> QED
      BY <1>2, <1>5, <3>1, <3>2
  <2>8. Under(qs, i - 1, k)
    BY <2>6, <2>7 DEF Under
  <2>4. StateAt(ps, i) = ps[k].state
    BY <1>1, <2>1, <2>2, StateAtIs
  <2>5. StateAt(qs, i) = qs[k].state
    <3>1. InOrder(qs, Len(T))
      BY <1>6 DEF Passed
    <3> QED
      BY <1>1, <2>1, <2>8, <3>1, StateAtIs
  <2> QED
    BY <1>5, <2>3, <2>4, <2>5
<1>11. StateAt(qs, (n + 1) + 1) = q
  BY <1>2, <1>3, <1>5, <1>8 DEF Last
<1>12. ASSUME NEW i \in 1..(n + 1) + 1 PROVE g[i] = h[i]
  <2> HIDE DEF h
  <2>1. CASE i \in 1..n + 1
    <3>1. g[i] = T[StateAt(ps, i)] /\ StateAt(ps, i) \in 1..Len(S)
      BY <1>1, <1>7, <1>8, <1>10, <2>1
    <3>2. h[i] = S[StateAt(ps, i)]
      BY <1>7, <1>9, <2>1
    <3> HIDE DEF f, g
    <3> QED
      BY <1>1, <3>1, <3>2
  <2>2. CASE i = (n + 1) + 1
    BY <1>8, <1>9, <1>11, <2>2
  <2> QED
    BY <1>1, <2>1, <2>2
<1>13. g = h
  <2> HIDE DEF g, h
  <2> QED
    BY <1>8, <1>9, <1>12, SeqEqual DEF g
<1> QED
  BY <1>5, <1>6, <1>13 DEF p

-----------------------------------------------------------------------------
(* Mapping a group                                                          *)

(* A mapping that is made is one of the mappings.                           *)
LEMMA InfoTyped ==
  ASSUME NEW map \in Mappings, NEW user \in BOOLEAN, NEW pragma \in BOOLEAN
  PROVE  Info(map, user, pragma) \in Infos
BY DEF Info, Infos

(* What a pragma makes of a mapping.                                        *)
ByPragma(m, d, to) == Info(Kept(m, d, to), TRUE, TRUE)

(* It is a mapping of its own, that says it is a pragma's.                  *)
LEMMA ByPragmaFacts ==
  ASSUME NEW m \in [Warnings -> Infos], NEW d \in Warnings, NEW to \in Mappings
  PROVE  /\ ByPragma(m, d, to) \in Infos /\ ByPragma(m, d, to).pragma
         /\ ByPragma(m, d, to).map = Kept(m, d, to)
<1> DEFINE k == Kept(m, d, to)
           yes == TRUE
<1>1. m[d].map \in Mappings
  BY DEF Infos
<1>2. k \in Mappings
  BY <1>1 DEF Kept
<1>3. yes \in BOOLEAN /\ yes
  BY Zenon
<1>4. Info(k, yes, yes) = [map |-> k, user |-> yes, pragma |-> yes,
                           noWarningAsError |-> yes, noErrorAsFatal |-> yes]
  BY Zenon DEF Info
<1>5. Info(k, yes, yes) \in Infos /\ Info(k, yes, yes).map = k /\ Info(k, yes, yes).pragma = yes
  <2> HIDE DEF k, yes
  <2>1. Info(k, yes, yes) \in Infos
    BY <1>2, <1>3, InfoTyped, Zenon
  <2>2. Info(k, yes, yes).map = k
    BY <1>4
  <2>3. Info(k, yes, yes).pragma = yes
    BY <1>4
  <2> QED
    BY <2>1, <2>2, <2>3
<1>6. ByPragma(m, d, to) = Info(k, yes, yes)
  BY Zenon DEF ByPragma
<1> QED
  <2> HIDE DEF yes
  <2> QED
    BY <1>3, <1>5, <1>6, Zenon DEF k

(* A state after the first n diagnostics of a group.                        *)
GroupState(m, g, n, to) ==
  [d \in Warnings |-> IF \E i \in 1..n : g[i] = d THEN ByPragma(m, d, to) ELSE m[d]]

(* In it, what is no pragma's is as it was before.                          *)
LEMMA GroupStateTyped ==
  ASSUME NEW m \in [Warnings -> Infos], NEW g, NEW n, NEW to \in Mappings
  PROVE  /\ GroupState(m, g, n, to) \in [Warnings -> Infos]
         /\ \A d \in Warnings : GroupState(m, g, n, to)[d] \in {ByPragma(m, d, to), m[d]}
         /\ \A d \in Warnings : ~GroupState(m, g, n, to)[d].pragma => GroupState(m, g, n, to)[d] = m[d]
<1>1. \A d \in Warnings : ByPragma(m, d, to) \in Infos /\ ByPragma(m, d, to).pragma
  BY ByPragmaFacts
<1>2. \A d \in Warnings : GroupState(m, g, n, to)[d] =
        IF \E i \in 1..n : g[i] = d THEN ByPragma(m, d, to) ELSE m[d]
  BY DEF GroupState
<1> QED
  BY <1>1, <1>2 DEF GroupState

(* One more: it is mapped as from the state before the group.               *)
IsMapped(t, s, d, to) == t = [s EXCEPT ![d] = ByPragma(s, d, to)]

(* It makes no difference that the group may name a diagnostic twice: what is kept
   the first time is kept the second.                                       *)
LEMMA GroupStateMore ==
  ASSUME NEW m \in [Warnings -> Infos], NEW g, NEW n \in Nat, NEW to \in Mappings,
         g[n + 1] \in Warnings
  PROVE  IsMapped(GroupState(m, g, n + 1, to), GroupState(m, g, n, to), g[n + 1], to)
<1> DEFINE s == GroupState(m, g, n, to)
           t == GroupState(m, g, n + 1, to)
           x == g[n + 1]
<1>1. s \in [Warnings -> Infos] /\ s[x] \in {ByPragma(m, x, to), m[x]}
  BY GroupStateTyped
<1>2. Kept(s, x, to) = Kept(m, x, to)
  <2>1. CASE s[x] = m[x]
    BY <2>1 DEF Kept
  <2>2. CASE s[x] = ByPragma(m, x, to)
    <3>1. s[x].map = Kept(m, x, to)
      BY <2>2, ByPragmaFacts
    <3> HIDE DEF s
    <3> QED
      BY <3>1 DEF Kept
  <2> QED
    BY <1>1, <2>1, <2>2
<1>3. ByPragma(s, x, to) = ByPragma(m, x, to)
  BY <1>2, Zenon DEF ByPragma
<1> DEFINE e == [s EXCEPT ![x] = ByPragma(s, x, to)]
<1>4. ASSUME NEW d \in Warnings PROVE e[d] = t[d]
  <2>1. (\E i \in 1..n + 1 : g[i] = d) <=> d = x \/ \E i \in 1..n : g[i] = d
    OBVIOUS
  <2>2. /\ s[d] = IF \E i \in 1..n : g[i] = d THEN ByPragma(m, d, to) ELSE m[d]
        /\ t[d] = IF \E i \in 1..n + 1 : g[i] = d THEN ByPragma(m, d, to) ELSE m[d]
    BY DEF GroupState
  <2>3. e[d] = IF d = x THEN ByPragma(m, x, to) ELSE s[d]
    <3> HIDE DEF s
    <3> QED
      BY <1>1, <1>3
  <2> HIDE DEF s, t, e, x
  <2>4. CASE d = x
    BY <2>1, <2>2, <2>3, <2>4, Zenon
  <2>5. CASE d # x
    BY <2>1, <2>2, <2>3, <2>5, Zenon
  <2> QED
    BY <2>4, <2>5
<1>5. e \in [Warnings -> {e[d] : d \in Warnings}] /\ t \in [Warnings -> {t[d] : d \in Warnings}]
  <2>1. DOMAIN s = Warnings
    BY <1>1
  <2> HIDE DEF s
  <2> QED
    BY <2>1 DEF GroupState
<1>6. e = t
  <2> HIDE DEF e, t
  <2> QED
    BY <1>4, <1>5
<1> QED
  BY <1>6 DEF IsMapped

Maps == [Warnings -> Infos]

(* The states and points after the first n diagnostics of a group: the first
   makes a state, the others add to it.                                     *)
Current(S, ps) == S[Last(ps).state]
AfterGroup(S, ps, g, n, to, loc) ==
  IF n = 0 THEN [states |-> S, points |-> ps]
  ELSE [states |-> Append(S, GroupState(Current(S, ps), g, n, to)),
        points |-> Append(ps, Point(Len(S) + 1, loc))]

(* At the first, the place is past the last point: a copy becomes active.   *)
LEMMA FirstOfGroup ==
  ASSUME NEW S \in Seq(Maps), NEW n, NEW ps, Passed(ps, Len(S), n),
         NEW g \in Seq(Warnings), 1 <= Len(g), NEW to \in Mappings
  PROVE  SetMapping(AfterGroup(S, ps, g, 0, to, n + 1), g[1], to, n + 1)
           = AfterGroup(S, ps, g, 1, to, n + 1)
<1> DEFINE m == Current(S, ps)
           a == AfterGroup(S, ps, g, 0, to, n + 1)
<1>1. a = [states |-> S, points |-> ps] /\ a.states = S /\ a.points = ps
  BY DEF AfterGroup
<1>2. m \in Maps /\ n \in Nat /\ Last(ps).loc # n + 1
  <2>1. Len(S) \in Nat /\ n \in Nat /\ InOrder(ps, Len(S))
    BY LenProperties DEF Passed
  <2>2. /\ Last(ps) = ps[Len(ps)] /\ Len(ps) \in 1..Len(ps)
        /\ ps[Len(ps)].state \in 1..Len(S) /\ ps[Len(ps)].loc \in Nat
    BY <2>1, PointFacts
  <2>3. ps[Len(ps)].loc <= n
    BY <2>2 DEF Passed
  <2>4. S[Last(ps).state] \in Maps
    BY <2>2, ElementOfSeq
  <2> QED
    BY <2>1, <2>2, <2>3, <2>4 DEF Current
<1>3. g[1] \in Warnings
  BY ElementOfSeq, LenProperties
<1>4. [m EXCEPT ![g[1]] = ByPragma(m, g[1], to)] = GroupState(m, g, 1, to)
  <2>1. GroupState(m, g, 0, to) = m
    <3>1. m = [d \in Warnings |-> m[d]]
      BY <1>2 DEF Maps
    <3>2. \A d \in Warnings : ~\E i \in 1..0 : g[i] = d
      OBVIOUS
    <3>3. GroupState(m, g, 0, to) = [d \in Warnings |-> m[d]]
      <4> HIDE DEF m
      <4> QED
        BY <3>2 DEF GroupState
    <3> QED
      BY <3>1, <3>3
  <2>2. PICK z \in Nat : z = 0 /\ z + 1 = 1
    OBVIOUS
  <2> HIDE DEF m, a
  <2>3. m \in [Warnings -> Infos] /\ g[z + 1] \in Warnings
    BY <1>2, <1>3, <2>2 DEF Maps
  <2>4. IsMapped(GroupState(m, g, z + 1, to), GroupState(m, g, z, to), g[z + 1], to)
    BY <2>2, <2>3, GroupStateMore
  <2>5. IsMapped(GroupState(m, g, 1, to), m, g[1], to)
    BY <2>1, <2>2, <2>4
  <2> QED
    BY <2>5 DEF IsMapped
<1>5. SetMapping(a, g[1], to, n + 1) =
        [states |-> Append(S, [m EXCEPT ![g[1]] = ByPragma(m, g[1], to)]),
         points |-> Append(ps, Point(Len(S) + 1, n + 1))]
  <2> HIDE DEF a
  <2> QED
    BY <1>1, <1>2, Zenon DEF SetMapping, Current, ByPragma
<1> QED
  <2> HIDE DEF m, a
  <2>1. SetMapping(a, g[1], to, n + 1) =
          [states |-> Append(S, GroupState(m, g, 1, to)),
           points |-> Append(ps, Point(Len(S) + 1, n + 1))]
    BY <1>4, <1>5
  <2>2. 1 # 0
    OBVIOUS
  <2> QED
    BY <2>1, <2>2, Zenon DEF AfterGroup, m, a

(* At the others, the place is that of the last point: the copy is changed. *)
LEMMA RestOfGroup ==
  ASSUME NEW S \in Seq(Maps), NEW n, NEW ps, Passed(ps, Len(S), n),
         NEW g \in Seq(Warnings), NEW to \in Mappings, NEW i \in 1..Len(g) - 1
  PROVE  SetMapping(AfterGroup(S, ps, g, i, to, n + 1), g[i + 1], to, n + 1)
           = AfterGroup(S, ps, g, i + 1, to, n + 1)
<1> DEFINE m == Current(S, ps)
           a == AfterGroup(S, ps, g, i, to, n + 1)
           p == Point(Len(S) + 1, n + 1)
           s == GroupState(m, g, i, to)
           t == GroupState(m, g, i + 1, to)
           L == Len(S)
<1>1. L \in Nat /\ n \in Nat /\ InOrder(ps, L) /\ Len(g) \in Nat /\ i \in Nat /\ i # 0 /\ i + 1 # 0
  BY LenProperties DEF Passed
<1>2. a.states = Append(S, s) /\ a.points = Append(ps, p)
      /\ a = [states |-> Append(S, s), points |-> Append(ps, p)]
  BY <1>1 DEF AfterGroup
<1>3. m \in Maps
  <2>1. Last(ps) = ps[Len(ps)] /\ ps[Len(ps)].state \in 1..Len(S)
    BY <1>1, PointFacts
  <2> QED
    BY <2>1, ElementOfSeq DEF Current
<1>4. s \in Maps /\ t \in Maps
  <2> HIDE DEF m
  <2> QED
    BY <1>3, GroupStateTyped DEF Maps
<1>5. p.state = L + 1 /\ p.loc = n + 1
  BY DEF Point
<1>6. Last(Append(ps, p)) = p
  <2>1. ps \in Seq([state : 1..L, loc : Nat]) /\ Len(ps) \in Nat
    BY <1>1, PointFacts DEF InOrder
  <2>2. ps \in Seq([state : 1..L, loc : Nat] \cup {p}) /\ p \in [state : 1..L, loc : Nat] \cup {p}
    <3> HIDE DEF p
    <3>1. [state : 1..L, loc : Nat] \subseteq [state : 1..L, loc : Nat] \cup {p}
      OBVIOUS
    <3> QED
      BY <2>1, <3>1, SeqWithin
  <2> HIDE DEF p
  <2>3. Len(Append(ps, p)) = Len(ps) + 1 /\ Append(ps, p)[Len(ps) + 1] = p
    BY <2>1, <2>2, AppendProperties
  <2> QED
    BY <2>3 DEF Last
<1>7. /\ Append(S, s) \in Seq(Maps) /\ Append(S, t) \in Seq(Maps)
      /\ Len(Append(S, s)) = L + 1 /\ Len(Append(S, t)) = L + 1
      /\ Append(S, s)[L + 1] = s /\ Append(S, t)[L + 1] = t
      /\ \A j \in 1..L : Append(S, s)[j] = S[j] /\ Append(S, t)[j] = S[j]
  <2> HIDE DEF s, t
  <2> QED
    BY <1>4, AppendProperties
<1>8. [s EXCEPT ![g[i + 1]] = ByPragma(s, g[i + 1], to)] = t
  <2>1. g[i + 1] \in Warnings
    BY <1>1, ElementOfSeq
  <2>2. m \in [Warnings -> Infos]
    BY <1>3 DEF Maps
  <2> HIDE DEF m
  <2>3. IsMapped(GroupState(m, g, i + 1, to), GroupState(m, g, i, to), g[i + 1], to)
    BY <1>1, <2>1, <2>2, GroupStateMore
  <2> QED
    BY <2>3 DEF IsMapped
<1>9. [Append(S, s) EXCEPT ![L + 1] = t] = Append(S, t)
  <2> DEFINE u == Append(S, s)
             v == Append(S, t)
             w == [u EXCEPT ![L + 1] = t]
  <2> HIDE DEF s, t, u, v, L
  <2>1. L + 1 \in 1..Len(u) /\ u \in Seq(Maps) /\ v \in Seq(Maps)
    BY <1>1, <1>7 DEF u, v
  <2>2. w \in Seq(Maps) /\ Len(w) = Len(u) /\ \A j \in 1..Len(u) : w[j] = IF j = L + 1 THEN t ELSE u[j]
    BY <1>4, <2>1, ExceptSeq
  <2>3. ASSUME NEW j \in 1..Len(w) PROVE w[j] = v[j]
    <3>1. CASE j = L + 1
      BY <1>7, <2>1, <2>2, <3>1 DEF u, v
    <3>2. CASE j # L + 1
      <4>1. j \in 1..L
        BY <1>1, <1>7, <2>2, <3>2 DEF u
      <4> QED
        BY <1>7, <2>2, <3>2, <4>1 DEF u, v
    <3> QED
      BY <3>1, <3>2
  <2>4. Len(w) = Len(v)
    BY <1>7, <2>2 DEF u, v
  <2>5. w = v
    <3> HIDE DEF w
    <3> QED
      BY <2>1, <2>2, <2>3, <2>4, SeqEqual
  <2> QED
    BY <2>5 DEF u, v
<1>10. SetMapping(a, g[i + 1], to, n + 1) =
         [states |-> [Append(S, s) EXCEPT ![L + 1] = [s EXCEPT ![g[i + 1]] = ByPragma(s, g[i + 1], to)]],
          points |-> Append(ps, p)]
  <2>1. /\ a.states = Append(S, s) /\ a.points = Append(ps, p)
        /\ Last(a.points).state = L + 1 /\ Last(a.points).loc = n + 1
        /\ a.states[Last(a.points).state] = s
    <3> HIDE DEF a, s, p, L
    <3> QED
      BY <1>2, <1>5, <1>6, <1>7
  <2> HIDE DEF a, s, p, L
  <2> QED
    BY <2>1, Zenon DEF SetMapping, ByPragma
<1>11. AfterGroup(S, ps, g, i + 1, to, n + 1) = [states |-> Append(S, t), points |-> Append(ps, p)]
  BY <1>1, Zenon DEF AfterGroup
<1> QED
  <2> HIDE DEF a, s, t, p, L, m
  <2>1. SetMapping(a, g[i + 1], to, n + 1) = [states |-> Append(S, t), points |-> Append(ps, p)]
    BY <1>8, <1>9, <1>10
  <2> QED
    BY <1>11, <2>1 DEF a

(* Which is what mapping a group amounts to.                                *)
LEMMA GroupMapped ==
  ASSUME NEW S \in Seq(Maps), NEW n, NEW ps, Passed(ps, Len(S), n),
         NEW g \in Seq(Warnings), NEW to \in Mappings
  PROVE  SetGroupMapping([states |-> S, points |-> ps], g, to, n + 1)
           = AfterGroup(S, ps, g, Len(g), to, n + 1)
<1> DEFINE base == [states |-> S, points |-> ps]
           A(i) == AfterGroup(S, ps, g, i, to, n + 1)
           Moves(f, x) == IF x = 0 THEN base ELSE SetMapping(f[x - 1], g[x], to, n + 1)
           after == CHOOSE f : f = [x \in 0..Len(g) |-> Moves(f, x)]
           closed == [x \in 0..Len(g) |-> A(x)]
<1>1. Len(g) \in Nat
  BY LenProperties
<1>2. A(0) = base
  BY DEF AfterGroup
<1>3. ASSUME NEW x \in 1..Len(g) PROVE SetMapping(A(x - 1), g[x], to, n + 1) = A(x)
  <2>1. CASE x = 1
    <3>1. x - 1 = 0 /\ 1 <= Len(g)
      BY <1>1, <2>1
    <3> HIDE DEF A
    <3>2. SetMapping(A(0), g[1], to, n + 1) = A(1)
      BY <3>1, FirstOfGroup DEF A
    <3> QED
      BY <2>1, <3>1, <3>2
  <2>2. CASE x # 1
    <3>1. x - 1 \in 1..Len(g) - 1 /\ (x - 1) + 1 = x
      BY <1>1, <2>2
    <3>2. SetMapping(A(x - 1), g[(x - 1) + 1], to, n + 1) = A((x - 1) + 1)
      BY <3>1, RestOfGroup
    <3> HIDE DEF A
    <3> QED
      BY <3>1, <3>2
  <2> QED
    BY <2>1, <2>2
<1> HIDE DEF A, base
<1>4. closed = [x \in 0..Len(g) |-> Moves(closed, x)]
  <2>1. ASSUME NEW x \in 0..Len(g) PROVE closed[x] = Moves(closed, x)
    <3>1. CASE x = 0
      BY <1>2, <3>1
    <3>2. CASE x # 0
      <4>1. x \in 1..Len(g) /\ x - 1 \in 0..Len(g)
        BY <1>1, <3>2
      <4> QED
        BY <1>3, <3>2, <4>1
    <3> QED
      BY <3>1, <3>2
  <2> QED
    BY <2>1
<1>5. after = [x \in 0..Len(g) |-> Moves(after, x)]
  BY <1>4, Zenon
<1>6. /\ after[0] = base
      /\ \A x \in 1..Len(g) : after[x] = SetMapping(after[x - 1], g[x], to, n + 1)
  <2> HIDE DEF after
  <2> QED
    BY <1>1, <1>5
<1>7. after[Len(g)] = A(Len(g))
  <2> DEFINE T == {x \in 0..Len(g) : after[x] = A(x)}
  <2>1. 0 \in T
    BY <1>1, <1>2, <1>6
  <2>2. ASSUME NEW x \in 0..Len(g) - 1, x \in T PROVE x + 1 \in T
    <3>1. x + 1 \in 1..Len(g) /\ (x + 1) - 1 = x
      BY <1>1
    <3> HIDE DEF after
    <3> QED
      BY <1>3, <1>6, <2>2, <3>1
  <2> HIDE DEF T
  <2>3. 0..Len(g) \subseteq T
    BY <1>1, <2>1, <2>2, Reaches
  <2> QED
    BY <1>1, <2>3 DEF T
<1>8. SetGroupMapping([states |-> S, points |-> ps], g, to, n + 1) = after[Len(g)]
  BY Zenon DEF SetGroupMapping, base
<1> QED
  BY <1>7, <1>8 DEF A

-----------------------------------------------------------------------------
(* What holds of the states                                                 *)

(* What a pragma said is as setDiagnosticMapping makes it.                  *)
FromPragmas(S) ==
  \A s \in 1..Len(S), d \in Warnings :
    S[s][d].pragma => S[s][d] = Info(S[s][d].map, TRUE, TRUE)

(* A state that becomes active for the first time has, but for what pragmas
   said, come from the one before it.                                       *)
FirstUse(ps, k) == \A j \in 1..k - 1 : ps[j].state # ps[k].state
ComesFrom(m, before) == \A d \in Warnings : ~m[d].pragma => m[d] = before[d]
FromCurrent(S, ps) ==
  \A k \in 2..Len(ps) : FirstUse(ps, k) => ComesFrom(S[ps[k].state], S[ps[k - 1].state])

(* What is pushed has been active.                                          *)
WasActive(ps, s) == \E k \in 1..Len(ps) : ps[k].state = s

StatesHold(S, ps, pu, n) ==
  /\ S \in Seq(Maps) /\ Passed(ps, Len(S), n)
  /\ FromPragmas(S) /\ FromCurrent(S, ps)
  /\ pu \in Seq(1..Len(S)) /\ \A h \in 1..Len(pu) : WasActive(ps, pu[h])

(* What is known of all these.                                              *)
LEMMA HoldFacts ==
  ASSUME NEW S, NEW ps, NEW pu, NEW n, StatesHold(S, ps, pu, n)
  PROVE  /\ S \in Seq(Maps) /\ Len(S) \in Nat /\ n \in Nat /\ InOrder(ps, Len(S))
         /\ Passed(ps, Len(S), n) /\ Len(ps) \in Nat /\ Len(ps) >= 1
         /\ \A i \in 1..Len(ps) : ps[i].state \in 1..Len(S)
         /\ Last(ps) = ps[Len(ps)] /\ Last(ps).state \in 1..Len(S)
         /\ WasActive(ps, Last(ps).state)
         /\ pu \in Seq(1..Len(S)) /\ Len(pu) \in Nat /\ DOMAIN pu = 1..Len(pu)
         /\ \A h \in 1..Len(pu) : pu[h] \in 1..Len(S)
<1>1. S \in Seq(Maps) /\ Passed(ps, Len(S), n) /\ pu \in Seq(1..Len(S))
  BY DEF StatesHold
<1>2. Len(S) \in Nat /\ n \in Nat /\ InOrder(ps, Len(S))
  BY <1>1, LenProperties DEF Passed
<1>3. /\ Len(ps) \in Nat /\ Len(ps) \in 1..Len(ps) /\ Last(ps) = ps[Len(ps)]
      /\ \A i \in 1..Len(ps) : ps[i].state \in 1..Len(S)
  BY <1>2, PointFacts
<1>4. Len(pu) \in Nat /\ DOMAIN pu = 1..Len(pu)
  BY <1>1, LenProperties
<1>5. \A h \in 1..Len(pu) : pu[h] \in 1..Len(S)
  BY <1>1, ElementOfSeq
<1>6. WasActive(ps, Last(ps).state) /\ Len(ps) >= 1
  BY <1>3 DEF WasActive
<1> QED
  BY <1>1, <1>2, <1>3, <1>4, <1>5, <1>6

(* One more point, at which q becomes active.                               *)
LEMMA CurrentGoesOn ==
  ASSUME NEW S \in Seq(Maps), NEW n, NEW ps, Passed(ps, Len(S), n), FromCurrent(S, ps),
         NEW T, Continues(T, S), NEW q, NEW qs, Len(qs) = Len(ps) + 1, qs[Len(ps) + 1].state = q,
         \A i \in 1..Len(ps) : qs[i] = ps[i],
         WasActive(ps, q) \/ ComesFrom(T[q], S[Last(ps).state])
  PROVE  FromCurrent(T, qs)
<1>1. /\ Len(ps) \in Nat /\ Len(ps) \in 1..Len(ps) /\ Last(ps) = ps[Len(ps)]
      /\ \A i \in 1..Len(ps) : ps[i].state \in 1..Len(S)
  BY LenProperties, PointFacts DEF Passed
<1>2. SUFFICES ASSUME NEW k \in 2..Len(qs), FirstUse(qs, k)
               PROVE  ComesFrom(T[qs[k].state], T[qs[k - 1].state])
  BY DEF FromCurrent
<1>3. k \in Nat /\ k - 1 \in 1..Len(ps) /\ qs[k - 1] = ps[k - 1]
  BY <1>1
<1>4. T[qs[k - 1].state] = S[ps[k - 1].state]
  BY <1>1, <1>3 DEF Continues
<1>5. CASE k \in 1..Len(ps)
  <2>1. \A j \in 1..k - 1 : qs[j] = ps[j] /\ j \in 1..Len(ps)
    BY <1>1, <1>5
  <2>2. qs[k] = ps[k]
    BY <1>5
  <2>3. FirstUse(ps, k)
    BY <1>2, <2>1, <2>2 DEF FirstUse
  <2>4. ComesFrom(S[ps[k].state], S[ps[k - 1].state])
    BY <1>2, <1>5, <2>3 DEF FromCurrent
  <2>5. T[qs[k].state] = S[ps[k].state]
    BY <1>1, <1>5, <2>2 DEF Continues
  <2> QED
    BY <1>4, <2>4, <2>5
<1>6. CASE k = Len(ps) + 1
  <2>1. k - 1 = Len(ps) /\ qs[k].state = q
    BY <1>1, <1>6
  <2>2. ~WasActive(ps, q)
    <3>1. ASSUME NEW j \in 1..Len(ps) PROVE ps[j].state # q
      BY <1>2, <2>1 DEF FirstUse
    <3> QED
      BY <3>1 DEF WasActive
  <2> QED
    BY <1>1, <1>4, <2>1, <2>2
<1> QED
  BY <1>1, <1>5, <1>6

(* What was active is so still.                                             *)
LEMMA ActiveGoesOn ==
  ASSUME NEW ps, NEW qs, Len(ps) \in Nat, Len(qs) = Len(ps) + 1,
         \A i \in 1..Len(ps) : qs[i] = ps[i], NEW s, WasActive(ps, s)
  PROVE  WasActive(qs, s)
<1>1. PICK k \in 1..Len(ps) : ps[k].state = s
  BY DEF WasActive
<1>2. k \in 1..Len(qs) /\ qs[k] = ps[k]
  BY <1>1
<1> QED
  BY <1>1, <1>2 DEF WasActive

-----------------------------------------------------------------------------
(* The pragmas                                                              *)

(* The mappings at the pushes.                                              *)
SavedOf(S, pu) == [i \in DOMAIN pu |-> S[pu[i]]]

(* They are those of states.                                                *)
LEMMA SavedFacts ==
  ASSUME NEW S, NEW ps, NEW pu, NEW n, StatesHold(S, ps, pu, n)
  PROVE  /\ SavedOf(S, pu) \in Seq(Maps) /\ Len(SavedOf(S, pu)) = Len(pu)
         /\ \A i \in 1..Len(pu) : SavedOf(S, pu)[i] = S[pu[i]]
<1>1. /\ S \in Seq(Maps) /\ Len(pu) \in Nat /\ DOMAIN pu = 1..Len(pu)
      /\ \A h \in 1..Len(pu) : pu[h] \in 1..Len(S)
  BY HoldFacts
<1>2. \A h \in 1..Len(pu) : S[pu[h]] \in Maps
  BY <1>1, ElementOfSeq
<1>3. SavedOf(S, pu) \in [1..Len(pu) -> Maps]
  BY <1>1, <1>2 DEF SavedOf
<1> QED
  BY <1>1, <1>3 DEF SavedOf

(* A push (pushMappings).                                                   *)
LEMMA PushHolds ==
  ASSUME NEW S, NEW ps, NEW pu, NEW n, StatesHold(S, ps, pu, n)
  PROVE  /\ StatesHold(S, ps, Append(pu, Last(ps).state), n + 1)
         /\ ForceOf(S, ps, n + 1) = Append(ForceOf(S, ps, n), Last(ForceOf(S, ps, n)))
         /\ SavedOf(S, Append(pu, Last(ps).state))
              = Append(SavedOf(S, pu), Last(ForceOf(S, ps, n)))
<1> DEFINE q == Last(ps).state
           po == Append(pu, q)
<1>1. /\ S \in Seq(Maps) /\ Passed(ps, Len(S), n) /\ q \in 1..Len(S)
      /\ pu \in Seq(1..Len(S)) /\ Len(pu) \in Nat /\ WasActive(ps, q)
  BY HoldFacts
<1>2. /\ Passed(ps, Len(S), n + 1)
      /\ ForceOf(S, ps, n + 1) = Append(ForceOf(S, ps, n), Last(ForceOf(S, ps, n)))
      /\ Last(ForceOf(S, ps, n)) = S[q]
  BY <1>1, ForceGoesOn, ForceFacts
<1> HIDE DEF q
<1>3. /\ po \in Seq(1..Len(S)) /\ Len(po) = Len(pu) + 1 /\ po[Len(pu) + 1] = q
      /\ \A i \in 1..Len(pu) : po[i] = pu[i]
  BY <1>1, AppendProperties
<1> HIDE DEF po
<1>4. StatesHold(S, ps, po, n + 1)
  <2>1. ASSUME NEW h \in 1..Len(po) PROVE WasActive(ps, po[h])
    <3>1. CASE h \in 1..Len(pu)
      BY <1>3, <3>1 DEF StatesHold
    <3>2. CASE h = Len(pu) + 1
      BY <1>1, <1>3, <3>2
    <3> QED
      BY <1>1, <1>3, <3>1, <3>2
  <2> QED
    BY <1>1, <1>2, <1>3, <2>1 DEF StatesHold
<1>5. SavedOf(S, po) = Append(SavedOf(S, pu), S[q])
  <2> DEFINE u == SavedOf(S, pu)
             v == SavedOf(S, po)
             w == Append(u, S[q])
  <2>1. u \in Seq(Maps) /\ Len(u) = Len(pu) /\ \A i \in 1..Len(pu) : u[i] = S[pu[i]]
    BY SavedFacts
  <2>2. v \in Seq(Maps) /\ Len(v) = Len(po) /\ \A i \in 1..Len(po) : v[i] = S[po[i]]
    BY <1>4, SavedFacts
  <2>3. S[q] \in Maps
    BY <1>1, ElementOfSeq
  <2> HIDE DEF u, v
  <2>4. w \in Seq(Maps) /\ Len(w) = Len(u) + 1 /\ w[Len(u) + 1] = S[q]
        /\ \A i \in 1..Len(u) : w[i] = u[i]
    BY <2>1, <2>3, AppendProperties
  <2> HIDE DEF w
  <2>5. ASSUME NEW i \in 1..Len(v) PROVE v[i] = w[i]
    <3>1. CASE i \in 1..Len(pu)
      BY <1>3, <2>1, <2>2, <2>4, <3>1
    <3>2. CASE i = Len(pu) + 1
      BY <1>3, <2>1, <2>2, <2>4, <3>2
    <3> QED
      BY <1>1, <1>3, <2>2, <3>1, <3>2
  <2>6. v = w
    BY <1>3, <2>1, <2>2, <2>4, <2>5, SeqEqual
  <2> QED
    BY <2>6 DEF u, v, w
<1> QED
  BY <1>2, <1>4, <1>5 DEF po, q

(* The sequence but its last element.                                       *)
LEMMA FrontFacts ==
  ASSUME NEW S, NEW s \in Seq(S), s # <<>>
  PROVE  /\ Len(s) \in Nat /\ Len(s) >= 1 /\ Last(s) = s[Len(s)] /\ Last(s) \in S
         /\ Front(s) \in Seq(S) /\ Len(Front(s)) = Len(s) - 1
         /\ \A i \in 1..Len(s) : s[i] \in S
         /\ \A i \in 1..Len(s) - 1 : Front(s)[i] = s[i]
<1> DEFINE n == Len(s)
           p == SubSeq(s, 1, n - 1)
<1>1. n \in Nat /\ n # 0
  BY LenProperties, EmptySeq
<1>2. \A i \in 1..n : s[i] \in S
  BY ElementOfSeq
<1>3. Front(s) = p /\ Last(s) = s[n]
  BY DEF Front, Last
<1> HIDE DEF n
<1>4. \A i \in 1..n - 1 : s[i] \in S
  BY <1>1, <1>2
<1>5. /\ p \in Seq(S)
      /\ Len(p) = IF 1 <= n - 1 THEN n - 1 - 1 + 1 ELSE 0
      /\ \A i \in 1..n - 1 - 1 + 1 : p[i] = s[1 + i - 1]
  <2>1. 1 \in Int /\ n - 1 \in Int
    BY <1>1
  <2> QED
    BY <1>4, <2>1, SubSeqProperties
<1> HIDE DEF p
<1>6. Len(p) = n - 1
  BY <1>1, <1>5
<1>7. \A i \in 1..n - 1 : p[i] = s[i]
  <2>1. \A i \in 1..n - 1 : i \in 1..n - 1 - 1 + 1 /\ 1 + i - 1 = i
    BY <1>1
  <2> QED
    BY <1>5, <2>1
<1>8. n \in 1..n /\ n >= 1
  BY <1>1
<1>9. n = Len(s)
  BY DEF n
<1> QED
  BY <1>1, <1>2, <1>3, <1>5, <1>6, <1>7, <1>8, <1>9

IsPopped(qs, ps, pu, loc) ==
  qs = IF Last(pu) = Last(ps).state THEN ps ELSE Append(ps, Point(Last(pu), loc))

(* A pop (popMappings).                                                     *)
LEMMA PopHolds ==
  ASSUME NEW S, NEW ps, NEW pu, NEW n, StatesHold(S, ps, pu, n), pu # <<>>,
         NEW qs, IsPopped(qs, ps, pu, n + 1)
  PROVE  /\ StatesHold(S, qs, Front(pu), n + 1)
         /\ ForceOf(S, qs, n + 1) = Append(ForceOf(S, ps, n), Last(SavedOf(S, pu)))
         /\ SavedOf(S, Front(pu)) = Front(SavedOf(S, pu)) /\ SavedOf(S, pu) # <<>>
<1> DEFINE q == Last(pu)
           po == Front(pu)
           N == Len(S)
<1>1. /\ S \in Seq(Maps) /\ Passed(ps, N, n) /\ N \in Nat /\ Len(ps) \in Nat
      /\ pu \in Seq(1..N) /\ Len(pu) \in Nat
  BY HoldFacts
<1>2. /\ po \in Seq(1..N) /\ Len(po) = Len(pu) - 1 /\ Len(pu) - 1 \in Nat
      /\ \A i \in 1..Len(pu) - 1 : po[i] = pu[i]
      /\ q = pu[Len(pu)] /\ q \in 1..N
  <2> HIDE DEF N
  <2>1. /\ Len(pu) >= 1 /\ q = pu[Len(pu)] /\ q \in 1..N
        /\ po \in Seq(1..N) /\ Len(po) = Len(pu) - 1
        /\ \A i \in 1..Len(pu) - 1 : po[i] = pu[i]
    BY <1>1, FrontFacts
  <2>2. Len(pu) - 1 \in Nat
    BY <1>1, <2>1
  <2> QED
    BY <2>1, <2>2
<1> HIDE DEF po, q
<1>3. WasActive(ps, q) /\ \A h \in 1..Len(po) : WasActive(ps, po[h])
  <2>1. \A h \in 1..Len(pu) : WasActive(ps, pu[h])
    BY DEF StatesHold
  <2>2. Len(pu) \in 1..Len(pu)
    BY <1>1, <1>2
  <2>3. ASSUME NEW h \in 1..Len(po) PROVE WasActive(ps, po[h])
    <3>1. h \in 1..Len(pu) - 1 /\ h \in 1..Len(pu)
      BY <1>1, <1>2
    <3> QED
      BY <1>2, <2>1, <3>1
  <2> QED
    BY <1>2, <2>1, <2>2, <2>3
<1>4. /\ Passed(qs, N, n + 1) /\ FromCurrent(S, qs)
      /\ ForceOf(S, qs, n + 1) = Append(ForceOf(S, ps, n), S[q])
      /\ \A s : WasActive(ps, s) => WasActive(qs, s)
  <2>1. CASE q = Last(ps).state
    <3>1. qs = ps
      BY <2>1 DEF q, IsPopped
    <3>2. Passed(ps, N, n + 1) /\ FromCurrent(S, ps)
      BY <1>1, ForceGoesOn DEF StatesHold
    <3>3. ForceOf(S, ps, n + 1) = Append(ForceOf(S, ps, n), Last(ForceOf(S, ps, n)))
      BY <1>1, ForceGoesOn
    <3>4. Last(ForceOf(S, ps, n)) = S[Last(ps).state]
      BY <1>1, ForceFacts
    <3> QED
      BY <2>1, <3>1, <3>2, <3>3, <3>4
  <2>2. CASE q # Last(ps).state
    <3>1. IsNext(qs, ps, Point(q, n + 1))
      BY <2>2 DEF q, IsPopped, IsNext
    <3>2. Continues(S, S)
      BY <1>1 DEF Continues
    <3> HIDE DEF N
    <3>3. /\ Passed(qs, N, n + 1) /\ Len(qs) = Len(ps) + 1
          /\ qs[Len(ps) + 1] = Point(q, n + 1) /\ \A i \in 1..Len(ps) : qs[i] = ps[i]
          /\ ForceOf(S, qs, n + 1) = Append(ForceOf(S, ps, n), S[q])
      <4>1. S \in Seq(Maps) /\ Passed(ps, Len(S), n) /\ q \in 1..Len(S)
        BY <1>1, <1>2 DEF N
      <4>2. /\ Passed(qs, Len(S), n + 1) /\ Len(qs) = Len(ps) + 1
            /\ qs[Len(ps) + 1] = Point(q, n + 1) /\ \A i \in 1..Len(ps) : qs[i] = ps[i]
            /\ ForceOf(S, qs, n + 1) = Append(ForceOf(S, ps, n), S[q])
        BY <3>1, <3>2, <4>1, ForceChanges
      <4> QED
        BY <4>2 DEF N
    <3>4. qs[Len(ps) + 1].state = q
      BY <3>3 DEF Point
    <3>5. FromCurrent(S, ps) /\ Passed(ps, Len(S), n)
      BY <1>1 DEF StatesHold
    <3>6. FromCurrent(S, qs)
      BY <1>1, <1>3, <3>2, <3>3, <3>4, <3>5, CurrentGoesOn
    <3>7. \A s : WasActive(ps, s) => WasActive(qs, s)
      BY <1>1, <3>3, ActiveGoesOn
    <3> QED
      BY <3>3, <3>6, <3>7
  <2> QED
    BY <2>1, <2>2
<1>5. StatesHold(S, qs, po, n + 1)
  BY <1>1, <1>2, <1>3, <1>4 DEF StatesHold
<1>6. SavedOf(S, po) = Front(SavedOf(S, pu)) /\ Last(SavedOf(S, pu)) = S[q] /\ SavedOf(S, pu) # <<>>
  <2> DEFINE u == SavedOf(S, pu)
             v == SavedOf(S, po)
  <2>1. u \in Seq(Maps) /\ Len(u) = Len(pu) /\ \A i \in 1..Len(pu) : u[i] = S[pu[i]]
    BY SavedFacts
  <2>2. v \in Seq(Maps) /\ Len(v) = Len(po) /\ \A i \in 1..Len(po) : v[i] = S[po[i]]
    BY <1>5, SavedFacts
  <2> HIDE DEF u, v
  <2>3. u # <<>> /\ Len(pu) \in 1..Len(pu)
    BY <1>1, <1>2, <2>1, EmptySeq
  <2>4. /\ Front(u) \in Seq(Maps) /\ Len(Front(u)) = Len(u) - 1
        /\ \A i \in 1..Len(u) - 1 : Front(u)[i] = u[i]
        /\ Last(u) = u[Len(u)]
    BY <2>1, <2>3, FrontFacts
  <2>5. ASSUME NEW i \in 1..Len(v) PROVE v[i] = Front(u)[i]
    <3>1. i \in 1..Len(pu) - 1 /\ i \in 1..Len(pu) /\ i \in 1..Len(po) /\ i \in 1..Len(u) - 1
      BY <1>1, <1>2, <2>1, <2>2
    <3> QED
      BY <1>2, <2>1, <2>2, <2>4, <3>1
  <2>6. v = Front(u)
    BY <1>2, <2>1, <2>2, <2>4, <2>5, SeqEqual
  <2> QED
    BY <1>2, <2>1, <2>3, <2>4, <2>6 DEF u, v
<1> QED
  BY <1>4, <1>5, <1>6 DEF po

(* Nothing to pop.                                                          *)
LEMMA NothingHolds ==
  ASSUME NEW S, NEW ps, NEW pu, NEW n, StatesHold(S, ps, pu, n)
  PROVE  /\ StatesHold(S, ps, pu, n + 1)
         /\ ForceOf(S, ps, n + 1) = Append(ForceOf(S, ps, n), Last(ForceOf(S, ps, n)))
<1>1. S \in Seq(Maps) /\ Passed(ps, Len(S), n)
  BY HoldFacts
<1>2. /\ Passed(ps, Len(S), n + 1)
      /\ ForceOf(S, ps, n + 1) = Append(ForceOf(S, ps, n), Last(ForceOf(S, ps, n)))
  BY <1>1, ForceGoesOn
<1> QED
  BY <1>2 DEF StatesHold

(* After a group's pragma, by which the warnings in it are mapped.          *)
IsGrouped(T, qs, S, ps, g, to, loc) ==
  /\ T = AfterGroup(S, ps, g, Len(g), to, loc).states
  /\ qs = AfterGroup(S, ps, g, Len(g), to, loc).points

(* What a group says, of each of its diagnostics at once.                   *)
LEMMA MappedByIs ==
  ASSUME NEW m \in Maps, NEW g \in Seq(Warnings), NEW to \in Mappings
  PROVE  /\ MappedBy(m, g, to) = GroupState(m, g, Len(g), to)
         /\ Len(g) = 0 => MappedBy(m, g, to) = m
<1>1. DOMAIN g = 1..Len(g) /\ Len(g) \in Nat
  BY LenProperties
<1>2. MappedBy(m, g, to) = GroupState(m, g, Len(g), to)
  BY <1>1 DEF MappedBy, GroupState, ByPragma
<1>3. ASSUME Len(g) = 0 PROVE MappedBy(m, g, to) = m
  <2>1. m = [d \in Warnings |-> m[d]]
    BY DEF Maps
  <2>2. \A d \in Warnings : ~\E i \in DOMAIN g : g[i] = d
    BY <1>1, <1>3
  <2>3. MappedBy(m, g, to) = [d \in Warnings |-> m[d]]
    BY <2>2 DEF MappedBy
  <2> QED
    BY <2>1, <2>3
<1> QED
  BY <1>2, <1>3

(* A pragma that maps a group (setDiagnosticGroupMapping).                  *)
LEMMA MapHolds ==
  ASSUME NEW S, NEW ps, NEW pu, NEW n, StatesHold(S, ps, pu, n),
         NEW g \in Seq(Warnings), NEW to \in Mappings,
         NEW T, NEW qs, IsGrouped(T, qs, S, ps, g, to, n + 1)
  PROVE  /\ StatesHold(T, qs, pu, n + 1)
         /\ ForceOf(T, qs, n + 1)
              = Append(ForceOf(S, ps, n), MappedBy(Last(ForceOf(S, ps, n)), g, to))
         /\ SavedOf(T, pu) = SavedOf(S, pu)
<1> DEFINE m == S[Last(ps).state]
           new == Len(S) + 1
<1>1. /\ S \in Seq(Maps) /\ Passed(ps, Len(S), n) /\ Len(S) \in Nat /\ Len(ps) \in Nat
      /\ Last(ps) = ps[Len(ps)] /\ Last(ps).state \in 1..Len(S)
      /\ pu \in Seq(1..Len(S)) /\ DOMAIN pu = 1..Len(pu)
      /\ \A h \in 1..Len(pu) : pu[h] \in 1..Len(S)
  BY HoldFacts
<1>2. FromPragmas(S) /\ FromCurrent(S, ps) /\ \A h \in 1..Len(pu) : WasActive(ps, pu[h])
  BY DEF StatesHold
<1>3. m \in Maps /\ Last(ForceOf(S, ps, n)) = m
  <2>1. Last(ForceOf(S, ps, n)) = m
    BY <1>1, ForceFacts
  <2> QED
    BY <1>1, <2>1, ElementOfSeq
<1>4. Len(g) \in Nat
  BY LenProperties
<1>5. CASE Len(g) = 0
  <2>1. T = S /\ qs = ps
    BY <1>5 DEF IsGrouped, AfterGroup
  <2>2. MappedBy(m, g, to) = m
    <3> HIDE DEF m
    <3> QED
      BY <1>3, <1>5, MappedByIs
  <2>3. StatesHold(S, ps, pu, n + 1)
        /\ ForceOf(S, ps, n + 1) = Append(ForceOf(S, ps, n), Last(ForceOf(S, ps, n)))
    BY NothingHolds
  <2> HIDE DEF m
  <2> QED
    BY <1>3, <2>1, <2>2, <2>3
<1>6. CASE Len(g) # 0
  <2> DEFINE t == GroupState(m, g, Len(g), to)
  <2>1. T = Append(S, t) /\ IsNext(qs, ps, Point(new, n + 1))
    BY <1>6 DEF IsGrouped, AfterGroup, Current, IsNext
  <2>2. /\ t = MappedBy(m, g, to) /\ t \in Maps
        /\ \A d \in Warnings : t[d] \in {ByPragma(m, d, to), m[d]}
        /\ ComesFrom(t, m)
    <3> HIDE DEF m
    <3>1. m \in [Warnings -> Infos]
      BY <1>3 DEF Maps
    <3> QED
      BY <1>3, <3>1, MappedByIs, GroupStateTyped DEF ComesFrom, Maps
  <2> HIDE DEF t, m
  <2>3. /\ T \in Seq(Maps) /\ Len(T) = new /\ T[new] = t
        /\ \A i \in 1..Len(S) : T[i] = S[i]
    BY <1>1, <2>1, <2>2, AppendProperties
  <2>4. Continues(T, S) /\ new \in 1..Len(T)
    BY <1>1, <2>3 DEF Continues
  <2>5. /\ Passed(qs, Len(T), n + 1) /\ Len(qs) = Len(ps) + 1
        /\ qs[Len(ps) + 1] = Point(new, n + 1)
        /\ \A i \in 1..Len(ps) : qs[i] = ps[i]
        /\ ForceOf(T, qs, n + 1) = Append(ForceOf(S, ps, n), T[new])
    <3>1. S \in Seq(Maps) /\ Passed(ps, Len(S), n) /\ T \in Seq(Maps)
      BY <1>1, <2>3
    <3>2. IsNext(qs, ps, Point(new, n + 1))
      BY <2>1
    <3> HIDE DEF new
    <3> QED
      BY <2>4, <3>1, <3>2, ForceChanges
  <2>6. FromPragmas(T)
    <3>1. SUFFICES ASSUME NEW s \in 1..Len(T), NEW d \in Warnings, T[s][d].pragma
                   PROVE  T[s][d] = Info(T[s][d].map, TRUE, TRUE)
      BY DEF FromPragmas
    <3>2. CASE s \in 1..Len(S)
      <4>1. T[s] = S[s]
        BY <2>3, <3>2
      <4> QED
        BY <1>2, <3>1, <3>2, <4>1, Zenon DEF FromPragmas
    <3>3. CASE s = new
      <4>1. T[s][d] = t[d]
        BY <2>3, <3>3
      <4>2. CASE t[d] = ByPragma(m, d, to)
        <5>1. ByPragma(m, d, to).map = Kept(m, d, to)
          BY <1>3, ByPragmaFacts DEF Maps
        <5>2. t[d] = Info(t[d].map, TRUE, TRUE)
          BY <4>2, <5>1, Zenon DEF ByPragma
        <5> QED
          BY <4>1, <5>2, Zenon
      <4>3. CASE t[d] = m[d]
        <5>1. T[s][d] = S[Last(ps).state][d]
          BY <4>1, <4>3, Zenon DEF m
        <5> QED
          BY <1>1, <1>2, <3>1, <5>1, Zenon DEF FromPragmas
      <4> QED
        BY <2>2, <4>2, <4>3
    <3>4. s \in 1..Len(S) \/ s = new
      BY <1>1, <2>3
    <3> QED
      BY <3>2, <3>3, <3>4, Zenon
  <2>7. FromCurrent(T, qs)
    <3>1. ComesFrom(T[new], S[Last(ps).state])
      <4>1. ComesFrom(t, m) /\ T[new] = t
        BY <2>2, <2>3
      <4> HIDE DEF new
      <4>2. ComesFrom(T[new], m)
        BY <4>1
      <4> QED
        BY <4>2 DEF m
    <3>2. qs[Len(ps) + 1].state = new
      BY <2>5 DEF Point
    <3>3. /\ S \in Seq(Maps) /\ Passed(ps, Len(S), n) /\ FromCurrent(S, ps)
          /\ Len(qs) = Len(ps) + 1 /\ \A i \in 1..Len(ps) : qs[i] = ps[i]
      BY <1>1, <1>2, <2>5
    <3> HIDE DEF new
    <3> QED
      BY <2>4, <3>1, <3>2, <3>3, CurrentGoesOn
  <2>8. \A h \in 1..Len(pu) : WasActive(qs, pu[h])
    BY <1>1, <1>2, <2>5, ActiveGoesOn
  <2>9. pu \in Seq(1..Len(T))
    <3>1. 1..Len(S) \subseteq 1..Len(T)
      BY <1>1, <2>3
    <3> QED
      BY <1>1, <3>1, SeqWithin
  <2>10. StatesHold(T, qs, pu, n + 1)
    BY <2>3, <2>5, <2>6, <2>7, <2>8, <2>9 DEF StatesHold
  <2>11. SavedOf(T, pu) = SavedOf(S, pu)
    <3>1. \A i \in DOMAIN pu : T[pu[i]] = S[pu[i]]
      BY <1>1, <2>3
    <3> QED
      BY <3>1 DEF SavedOf
  <2> QED
    BY <1>3, <2>2, <2>3, <2>5, <2>10, <2>11
<1> QED
  BY <1>5, <1>6

-----------------------------------------------------------------------------
(* What is written                                                          *)

(* The writer's numbers, the next of them, and the records.                 *)
Records(S) ==
  [loc : Nat, id : Nat, maps : {<<>>} \cup {PragmaMaps(S[s]) : s \in 1..Len(S)}]
Numbers == UNION {[T -> Nat] : T \in SUBSET Nat}
Writers(S) == [ids : Numbers, next : Nat, out : Seq(Records(S))]

StartsWriting == [ids |-> [s \in {1} |-> 1], next |-> FirstStateID, out |-> <<>>]

Record(S, w, p) ==
  IF p.state \in DOMAIN w.ids
  THEN [loc |-> p.loc, id |-> w.ids[p.state], maps |-> <<>>]
  ELSE [loc |-> p.loc, id |-> 0, maps |-> PragmaMaps(S[p.state])]

(* The states of ids and one more, numbered n.                              *)
Numbered(ids, s, n) == [t \in DOMAIN ids \cup {s} |-> IF t = s THEN n ELSE ids[t]]

(* The writer v after w has written the point p.                            *)
Writes(v, S, w, p) ==
  /\ v \in Writers(S) /\ v.out = Append(w.out, Record(S, w, p))
  /\ p.state \in DOMAIN w.ids => v.ids = w.ids /\ v.next = w.next
  /\ p.state \notin DOMAIN w.ids =>
       v.ids = Numbered(w.ids, p.state, w.next) /\ v.next = w.next + 1

(* The numbers are numbers, of states.                                      *)
LEMMA NumbersFacts ==
  ASSUME NEW ids \in Numbers
  PROVE  DOMAIN ids \subseteq Nat /\ \A s \in DOMAIN ids : ids[s] \in Nat
<1>1. PICK T \in SUBSET Nat : ids \in [T -> Nat]
  BY DEF Numbers
<1> QED
  BY <1>1

(* So they are with one more.                                               *)
LEMMA NumberedTyped ==
  ASSUME NEW ids \in Numbers, NEW s \in Nat, NEW n \in Nat
  PROVE  Numbered(ids, s, n) \in Numbers
<1> DEFINE T == DOMAIN ids \cup {s}
<1>1. DOMAIN ids \subseteq Nat /\ \A t \in DOMAIN ids : ids[t] \in Nat
  BY NumbersFacts
<1>2. T \in SUBSET Nat
  BY <1>1
<1>3. Numbered(ids, s, n) \in [T -> Nat]
  BY <1>1 DEF Numbered
<1> HIDE DEF T
<1> QED
  BY <1>2, <1>3 DEF Numbers

(* A point is written with its state, or with the number of it.             *)
LEMMA WritePointIs ==
  ASSUME NEW S, NEW w \in Writers(S), NEW p \in [state : 1..Len(S), loc : Nat],
         Len(S) \in Nat, p.loc # 0
  PROVE  Writes(WritePoint(S, w, p), S, w, p)
<1> DEFINE r == Record(S, w, p)
           v == WritePoint(S, w, p)
<1>1. w.ids \in Numbers /\ w.next \in Nat /\ w.out \in Seq(Records(S))
  BY DEF Writers
<1>2. p.state \in 1..Len(S) /\ p.state \in Nat /\ p.loc \in Nat
  OBVIOUS
<1>3. r \in Records(S)
  <2>1. CASE p.state \in DOMAIN w.ids
    <3>1. w.ids[p.state] \in Nat
      BY <1>1, <2>1, NumbersFacts
    <3> QED
      BY <1>2, <2>1, <3>1 DEF Record, Records
  <2>2. CASE p.state \notin DOMAIN w.ids
    BY <1>2, <2>2 DEF Record, Records
  <2> QED
    BY <2>1, <2>2
<1>4. Append(w.out, r) \in Seq(Records(S))
  <2> HIDE DEF r
  <2> QED
    BY <1>1, <1>3, AppendProperties
<1>5. CASE p.state \in DOMAIN w.ids
  <2>1. v = [w EXCEPT !.out = Append(w.out, r)]
    BY <1>5 DEF WritePoint, Record
  <2>2. v = [ids |-> w.ids, next |-> w.next, out |-> Append(w.out, r)]
    <3> HIDE DEF v, r
    <3> QED
      BY <2>1 DEF Writers
  <2> HIDE DEF v, r
  <2>3. v.ids = w.ids /\ v.next = w.next /\ v.out = Append(w.out, r) /\ v \in Writers(S)
    BY <1>1, <1>4, <2>2 DEF Writers
  <2> QED
    BY <1>5, <2>3 DEF Writes, v, r
<1>6. CASE p.state \notin DOMAIN w.ids
  <2> DEFINE ids == Numbered(w.ids, p.state, w.next)
  <2>1. v = [ids |-> ids, next |-> w.next + 1, out |-> Append(w.out, r)]
    BY <1>6 DEF WritePoint, Record, Numbered
  <2>2. ids \in Numbers /\ w.next + 1 \in Nat
    <3>1. ids \in Numbers
      <4> HIDE DEF r, v
      <4> QED
        BY <1>1, <1>2, NumberedTyped, Zenon
    <3>2. w.next + 1 \in Nat
      BY <1>1
    <3> QED
      BY <3>1, <3>2
  <2> HIDE DEF v, r, ids
  <2>3. v.ids = ids /\ v.next = w.next + 1 /\ v.out = Append(w.out, r) /\ v \in Writers(S)
    BY <1>4, <2>1, <2>2 DEF Writers
  <2> QED
    BY <1>6, <2>3 DEF Writes, v, r, ids
<1> QED
  BY <1>5, <1>6

(* The writer after each point: the first, before any pragma, is no record. *)
WritersOf(w, S, ps) ==
  /\ w[1] = StartsWriting /\ w[1] \in Writers(S)
  /\ \A k \in 1..Len(ps) - 1 : Writes(w[k + 1], S, w[k], ps[k + 1])
  /\ \A k \in 1..Len(ps) : w[k] \in Writers(S)

(* What is written is what the last of them holds.                          *)
LEMMA WritersExist ==
  ASSUME NEW S, NEW ps, Len(S) \in Nat, InOrder(ps, Len(S))
  PROVE  \E w : WritersOf(w, S, ps) /\ Written(S, ps) = w[Len(ps)].out
<1> DEFINE N == Len(ps)
           Z == Writers(S)
           Moves(f, n) == IF n = 0 THEN StartsWriting ELSE WritePoint(S, f[n - 1], ps[n])
           after == CHOOSE f : f = [n \in 0..N |-> Moves(f, n)]
           G == [n \in 1..N |-> [x \in Z |-> WritePoint(S, x, ps[n])]]
<1>1. /\ N \in Nat /\ N >= 1 /\ 1 \in 1..N
      /\ \A i \in 1..N : ps[i] \in [state : 1..Len(S), loc : Nat]
      /\ ps[1].loc = 0
      /\ \A i, j \in 1..N : i < j => ps[i].loc < ps[j].loc
  <2>1. /\ N \in Nat /\ 1 \in 1..N /\ \A i \in 1..N : ps[i] \in [state : 1..Len(S), loc : Nat]
    BY PointFacts
  <2>2. ps[1].loc = 0 /\ N >= 1
    BY DEF InOrder, Point
  <2>3. \A i, j \in 1..N : i < j => ps[i].loc < ps[j].loc
    BY DEF InOrder
  <2> QED
    BY <2>1, <2>2, <2>3
<1>2. ASSUME NEW i \in 2..N PROVE ps[i].loc # 0 /\ i \in 1..N
  <2>1. i \in 1..N /\ 1 < i
    BY <1>1
  <2>2. ps[1].loc < ps[i].loc /\ ps[i].loc \in Nat
    BY <1>1, <2>1
  <2> QED
    BY <1>1, <2>1, <2>2
<1>3. StartsWriting \in Z
  <2> DEFINE one == [s \in {1} |-> 1]
  <2>1. one \in Numbers
    <3>1. {1} \in SUBSET Nat /\ one \in [{1} -> Nat]
      OBVIOUS
    <3> HIDE DEF one
    <3> QED
      BY <3>1 DEF Numbers
  <2>2. <<>> \in Seq(Records(S)) /\ FirstStateID \in Nat
    BY DEF FirstStateID
  <2>3. StartsWriting = [ids |-> one, next |-> FirstStateID, out |-> <<>>]
    BY DEF StartsWriting
  <2> HIDE DEF one
  <2> QED
    BY <2>1, <2>2, <2>3 DEF Writers
<1>4. ASSUME NEW n \in 1..N, NEW x \in Z PROVE WritePoint(S, x, ps[n]) \in Z
  <2>1. CASE n = 1
    BY <1>1, <2>1 DEF WritePoint
  <2>2. CASE n # 1
    <3>1. n \in 2..N
      BY <1>1, <2>2
    <3>2. ps[n].loc # 0 /\ ps[n] \in [state : 1..Len(S), loc : Nat]
      BY <1>1, <1>2, <3>1
    <3>3. Writes(WritePoint(S, x, ps[n]), S, x, ps[n])
      BY <3>2, WritePointIs
    <3> QED
      BY <3>3 DEF Writes
  <2> QED
    BY <2>1, <2>2
<1>5. Advances(G, N, Z)
  <2> HIDE DEF Z, N
  <2> QED
    BY <1>4 DEF Advances
<1>6. PICK f : Computed(f, G, N, Z, StartsWriting)
  <2> HIDE DEF Z, N, G
  <2> QED
    BY <1>1, <1>3, <1>5, Recursion
<1>7. f = [n \in 0..N |-> Moves(f, n)]
  <2>1. f \in [0..N -> Z] /\ f[0] = StartsWriting /\ \A n \in 1..N : f[n] = G[n][f[n - 1]]
    BY <1>6, Zenon DEF Computed
  <2>2. ASSUME NEW n \in 0..N PROVE f[n] = Moves(f, n)
    <3>1. CASE n = 0
      BY <2>1, <3>1
    <3>2. CASE n # 0
      <4>1. n \in 1..N /\ n - 1 \in 0..N
        BY <1>1, <3>2
      <4>2. f[n - 1] \in Z /\ f[n] = G[n][f[n - 1]]
        BY <2>1, <4>1
      <4>3. G[n][f[n - 1]] = WritePoint(S, f[n - 1], ps[n])
        <5> HIDE DEF Z, N
        <5> QED
          BY <4>1, <4>2
      <4> QED
        BY <3>2, <4>2, <4>3
    <3> QED
      BY <3>1, <3>2
  <2> HIDE DEF Moves, Z, N, G
  <2> QED
    BY <2>1, <2>2
<1>8. after = [n \in 0..N |-> Moves(after, n)]
  BY <1>7, Zenon
<1> HIDE DEF after
<1>9. after[0] = StartsWriting /\ \A n \in 1..N : after[n] = WritePoint(S, after[n - 1], ps[n])
  BY <1>1, <1>8
<1>10. \A n \in 0..N : after[n] \in Z
  <2> DEFINE T == {n \in 0..N : after[n] \in Z}
  <2>1. 0 \in T
    BY <1>1, <1>3, <1>9
  <2>2. ASSUME NEW n \in 0..N - 1, n \in T PROVE n + 1 \in T
    <3>1. n + 1 \in 1..N /\ n + 1 \in 0..N /\ (n + 1) - 1 = n /\ after[n] \in Z
      BY <1>1, <2>2
    <3>2. after[n + 1] = WritePoint(S, after[n], ps[n + 1])
      BY <1>9, <3>1
    <3> HIDE DEF Z
    <3> QED
      BY <1>4, <3>1, <3>2
  <2> HIDE DEF T, Z
  <2>3. 0..N \subseteq T
    BY <1>1, <2>1, <2>2, Reaches
  <2> QED
    BY <2>3 DEF T
<1>11. after[1] = StartsWriting
  <2>1. after[1] = WritePoint(S, after[0], ps[1])
    BY <1>1, <1>9
  <2> QED
    BY <1>1, <1>9, <2>1 DEF WritePoint
<1>12. ASSUME NEW k \in 1..N - 1 PROVE Writes(after[k + 1], S, after[k], ps[k + 1])
  <2>1. k + 1 \in 2..N /\ k + 1 \in 1..N /\ (k + 1) - 1 = k /\ k \in 0..N
    BY <1>1
  <2>2. after[k + 1] = WritePoint(S, after[k], ps[k + 1]) /\ after[k] \in Writers(S)
    BY <1>9, <1>10, <2>1
  <2>3. ps[k + 1].loc # 0 /\ ps[k + 1] \in [state : 1..Len(S), loc : Nat]
    BY <1>1, <1>2, <2>1
  <2> QED
    BY <2>2, <2>3, WritePointIs
<1>13. WritersOf(after, S, ps)
  <2>1. \A k \in 1..N : after[k] \in Writers(S)
    BY <1>10
  <2> QED
    BY <1>3, <1>11, <1>12, <2>1 DEF WritersOf
<1>14. Written(S, ps) = after[Len(ps)].out
  BY Zenon DEF Written, StartsWriting, after
<1> QED
  BY <1>13, <1>14

(* The records are those of the points after the first.                     *)
LEMMA RecordsAre ==
  ASSUME NEW S, NEW ps, NEW w, Len(ps) \in Nat, Len(ps) >= 1, WritersOf(w, S, ps)
  PROVE  /\ Len(w[Len(ps)].out) = Len(ps) - 1
         /\ \A i \in 1..Len(ps) - 1 : w[Len(ps)].out[i] = Record(S, w[i], ps[i + 1])
<1> DEFINE N == Len(ps)
           Right(k) == /\ Len(w[k].out) = k - 1
                       /\ \A i \in 1..k - 1 : w[k].out[i] = Record(S, w[i], ps[i + 1])
           T == {k \in 1..N : Right(k)}
<1>1. 1 \in T
  <2>1. w[1].out = <<>>
    BY DEF WritersOf, StartsWriting
  <2>2. Len(w[1].out) = 1 - 1 /\ 1..1 - 1 = {} /\ 1 \in 1..N
    BY <2>1
  <2> QED
    BY <2>2
<1>2. ASSUME NEW k \in 1..N - 1, k \in T PROVE k + 1 \in T
  <2>1. k + 1 \in 1..N /\ (k + 1) - 1 = k /\ k \in 1..N /\ k \in Nat
    OBVIOUS
  <2>2. Right(k)
    BY <1>2
  <2> DEFINE r == Record(S, w[k], ps[k + 1])
  <2>3. w[k + 1].out = Append(w[k].out, r) /\ w[k + 1] \in Writers(S) /\ w[k] \in Writers(S)
    BY <2>1 DEF WritersOf, Writes
  <2>4. w[k].out \in Seq(Records(S)) /\ w[k + 1].out \in Seq(Records(S))
    BY <2>3 DEF Writers
  <2>5. w[k].out \in Seq(Records(S) \cup {r}) /\ r \in Records(S) \cup {r}
    <3> HIDE DEF r
    <3>1. Records(S) \subseteq Records(S) \cup {r}
      OBVIOUS
    <3> QED
      BY <2>4, <3>1, SeqWithin
  <2> HIDE DEF r
  <2>6. /\ Len(Append(w[k].out, r)) = Len(w[k].out) + 1
        /\ Append(w[k].out, r)[Len(w[k].out) + 1] = r
        /\ \A i \in 1..Len(w[k].out) : Append(w[k].out, r)[i] = w[k].out[i]
    BY <2>5, AppendProperties
  <2>7. Len(w[k].out) = k - 1 /\ (k - 1) + 1 = k
    BY <2>1, <2>2
  <2>8. Len(w[k + 1].out) = (k + 1) - 1
    BY <2>1, <2>3, <2>6, <2>7
  <2>9. ASSUME NEW i \in 1..(k + 1) - 1 PROVE w[k + 1].out[i] = Record(S, w[i], ps[i + 1])
    <3>1. CASE i = k
      BY <2>3, <2>6, <2>7, <3>1 DEF r
    <3>2. CASE i # k
      <4>1. i \in 1..k - 1
        BY <2>1, <3>2
      <4>2. w[k + 1].out[i] = w[k].out[i]
        BY <2>3, <2>6, <2>7, <4>1
      <4> QED
        BY <2>2, <4>1, <4>2
    <3> QED
      BY <3>1, <3>2
  <2>10. Right(k + 1)
    BY <2>8, <2>9
  <2> HIDE DEF Right
  <2> QED
    BY <2>1, <2>10
<1> HIDE DEF T
<1>3. 1..N \subseteq T
  BY <1>1, <1>2, Reaches
<1>4. N \in T
  BY <1>3
<1> QED
  BY <1>4 DEF T

-----------------------------------------------------------------------------
(* What is read                                                             *)

Readers == [states : Seq(Maps), points : Seq([state : Nat, loc : Nat]), known : Seq(Nat)]
StartsReading(m) == [states |-> <<m>>, points |-> OnlyCommandLine, known |-> <<1>>]

(* The reader a has the states that the writer w numbered, under those
   numbers.                                                                 *)
SameStates(S, w, a) ==
  /\ w.next = Len(a.states) + 1
  /\ Len(a.known) = Len(a.states) /\ \A i \in 1..Len(a.states) : a.known[i] = i
  /\ \A s \in DOMAIN w.ids : w.ids[s] \in 1..Len(a.states) /\ a.states[w.ids[s]] = S[s]
  /\ \A s, t \in DOMAIN w.ids : w.ids[s] = w.ids[t] => s = t
  /\ \A i \in 1..Len(a.states) : \E s \in DOMAIN w.ids : w.ids[s] = i

(* And the first k points, with them.                                       *)
SamePoints(ps, k, w, a) ==
  /\ DOMAIN w.ids = {ps[j].state : j \in 1..k} /\ 1 \in DOMAIN w.ids /\ w.ids[1] = 1
  /\ Len(a.points) = k
  /\ \A j \in 1..k : a.points[j] = Point(w.ids[ps[j].state], ps[j].loc)

Matches(S, ps, k, w, a) == a \in Readers /\ SameStates(S, w, a) /\ SamePoints(ps, k, w, a)

(* Before the first record each knows the state of the command line only.   *)
LEMMA StartsMatching ==
  ASSUME NEW S \in Seq(Maps), NEW ps, InOrder(ps, Len(S))
  PROVE  Matches(S, ps, 1, StartsWriting, StartsReading(S[1]))
<1> DEFINE a == StartsReading(S[1])
           w == StartsWriting
<1>1. ps[1] = Point(1, 0) /\ ps[1].state = 1 /\ ps[1].loc = 0 /\ S[1] \in Maps
  <2>1. ps[1] = Point(1, 0) /\ ps[1].state = 1 /\ ps[1].loc = 0
    BY DEF InOrder, Point
  <2>2. Len(S) \in Nat
    BY LenProperties
  <2>3. ps[1].state \in 1..Len(S)
    BY <2>2, PointFacts
  <2> QED
    BY <2>1, <2>3, ElementOfSeq
<1>2. /\ a.states = <<S[1]>> /\ a.points = <<Point(1, 0)>> /\ a.known = <<1>>
      /\ a = [states |-> <<S[1]>>, points |-> <<Point(1, 0)>>, known |-> <<1>>]
  BY DEF StartsReading, OnlyCommandLine
<1>3. w.ids = [s \in {1} |-> 1] /\ w.next = 2
  BY DEF StartsWriting, FirstStateID
<1>4. a \in Readers
  <2> DEFINE m == S[1]
             p == Point(1, 0)
  <2>1. p \in [state : Nat, loc : Nat]
    BY DEF Point
  <2> HIDE DEF a, p, m
  <2>2. <<m>> \in Seq(Maps)
    BY <1>1 DEF m
  <2>3. <<p>> \in Seq([state : Nat, loc : Nat])
    BY <2>1
  <2>4. <<1>> \in Seq(Nat)
    OBVIOUS
  <2> QED
    BY <1>2, <2>2, <2>3, <2>4, Zenon DEF Readers, m, p
<1>5. SameStates(S, w, a)
  <2> DEFINE m == S[1]
  <2>1. Len(a.states) = 1 /\ Len(a.known) = 1 /\ a.known[1] = 1 /\ a.states[1] = m
    BY <1>2
  <2>2. DOMAIN w.ids = {1} /\ w.ids[1] = 1 /\ w.next = 2
    BY <1>3
  <2>3. 1..Len(a.states) = {1}
    BY <2>1
  <2> HIDE DEF a, w
  <2>4. /\ \A i \in 1..Len(a.states) : a.known[i] = i
        /\ \A s \in DOMAIN w.ids : w.ids[s] \in 1..Len(a.states) /\ a.states[w.ids[s]] = S[s]
        /\ \A s, t \in DOMAIN w.ids : w.ids[s] = w.ids[t] => s = t
        /\ \A i \in 1..Len(a.states) : \E s \in DOMAIN w.ids : w.ids[s] = i
    BY <2>1, <2>2, <2>3
  <2>5. w.next = Len(a.states) + 1 /\ Len(a.known) = Len(a.states)
    BY <2>1, <2>2
  <2> QED
    BY <2>4, <2>5 DEF SameStates
<1>6. SamePoints(ps, 1, w, a)
  <2>1. DOMAIN w.ids = {1} /\ w.ids[1] = 1 /\ Len(a.points) = 1 /\ a.points[1] = Point(1, 0)
    BY <1>2, <1>3
  <2>2. {ps[j].state : j \in 1..1} = {1} /\ \A j \in 1..1 : j = 1
    BY <1>1
  <2> HIDE DEF a, w
  <2> QED
    BY <1>1, <2>1, <2>2 DEF SamePoints
<1> QED
  BY <1>4, <1>5, <1>6 DEF Matches

(* The mappings of the state in a record of the reader.                     *)
Restored(start, maps) ==
  [d \in Warnings |-> IF d \in DOMAIN maps THEN Info(maps[d], TRUE, TRUE) ELSE start[d]]

(* They are those of the state written, if the rest of it came from the one that
   was current.                                                             *)
LEMMA RestoredIs ==
  ASSUME NEW m \in Maps, NEW start, ComesFrom(m, start),
         \A d \in Warnings : m[d].pragma => m[d] = Info(m[d].map, TRUE, TRUE)
  PROVE  Restored(start, PragmaMaps(m)) = m
<1> DEFINE p == PragmaMaps(m)
           r == Restored(start, p)
<1>1. DOMAIN p = {d \in Warnings : m[d].pragma} /\ \A d \in DOMAIN p : p[d] = m[d].map
  BY DEF PragmaMaps
<1> HIDE DEF p
<1>2. ASSUME NEW d \in Warnings PROVE r[d] = m[d]
  <2>1. r[d] = IF d \in DOMAIN p THEN Info(p[d], TRUE, TRUE) ELSE start[d]
    BY Zenon DEF Restored
  <2>2. CASE m[d].pragma
    <3>1. d \in DOMAIN p /\ p[d] = m[d].map
      BY <1>1, <2>2, Zenon
    <3> HIDE DEF r
    <3> QED
      BY <2>1, <2>2, <3>1, Zenon
  <2>3. CASE ~m[d].pragma
    <3>1. d \notin DOMAIN p /\ m[d] = start[d]
      BY <1>1, <2>3, Zenon DEF ComesFrom
    <3> HIDE DEF r
    <3> QED
      BY <2>1, <3>1, Zenon
  <2> QED
    BY <2>2, <2>3
<1>3. r = [d \in Warnings |-> r[d]] /\ m = [d \in Warnings |-> m[d]]
  BY DEF Restored, Maps
<1>4. r = m
  <2> HIDE DEF r
  <2>1. [d \in Warnings |-> r[d]] = [d \in Warnings |-> m[d]]
    BY <1>2
  <2> QED
    BY <1>3, <2>1
<1> QED
  BY <1>4 DEF p

(* A record of a state that was numbered before.                            *)
LEMMA ReadKnown ==
  ASSUME NEW S \in Seq(Maps), NEW ps, InOrder(ps, Len(S)), NEW k \in 1..Len(ps) - 1,
         NEW w \in Writers(S), NEW v, Writes(v, S, w, ps[k + 1]),
         NEW a, Matches(S, ps, k, w, a), ps[k + 1].state \in DOMAIN w.ids
  PROVE  Matches(S, ps, k + 1, v, ReadRecord(a, Record(S, w, ps[k + 1])))
<1> DEFINE p == ps[k + 1]
           id == w.ids[p.state]
           r == Record(S, w, p)
           q == Point(id, p.loc)
           b == ReadRecord(a, r)
<1>1. /\ a \in Readers /\ a.states \in Seq(Maps) /\ a.known \in Seq(Nat)
      /\ a.points \in Seq([state : Nat, loc : Nat])
      /\ SameStates(S, w, a) /\ SamePoints(ps, k, w, a)
  BY DEF Matches, Readers
<1>2. v.ids = w.ids /\ v.next = w.next
  BY DEF Writes
<1>3. /\ Len(ps) \in Nat /\ k \in Nat /\ k + 1 \in 1..Len(ps) /\ k + 1 \in Nat
      /\ p.loc \in Nat
  <2>1. Len(S) \in Nat
    BY LenProperties
  <2>2. Len(ps) \in Nat /\ \A i \in 1..Len(ps) : ps[i].loc \in Nat
    BY <2>1, PointFacts
  <2> QED
    BY <2>2
<1>4. id \in 1..Len(a.states) /\ a.known[id] = id /\ Len(a.states) \in Nat
  BY <1>1, LenProperties DEF SameStates
<1>5. r.id = id /\ r.loc = p.loc
  BY DEF Record
<1>6. b = [a EXCEPT !.points = Append(a.points, q)]
  <2>1. id # 0
    BY <1>4
  <2> HIDE DEF id, r, p
  <2> QED
    BY <1>4, <1>5, <2>1 DEF ReadRecord, q
<1>7. q \in [state : Nat, loc : Nat]
  <2>1. id \in Nat
    BY <1>4
  <2> HIDE DEF id, p
  <2> QED
    BY <1>3, <2>1 DEF Point, q
<1> HIDE DEF b
<1>8. /\ Append(a.points, q) \in Seq([state : Nat, loc : Nat])
      /\ Len(Append(a.points, q)) = Len(a.points) + 1
      /\ Append(a.points, q)[Len(a.points) + 1] = q
      /\ \A i \in 1..Len(a.points) : Append(a.points, q)[i] = a.points[i]
  <2> HIDE DEF q
  <2> QED
    BY <1>1, <1>7, AppendProperties
<1>9. b.states = a.states /\ b.known = a.known /\ b.points = Append(a.points, q) /\ b \in Readers
  <2> HIDE DEF q
  <2> QED
    BY <1>1, <1>6, <1>8 DEF Readers
<1>10. SameStates(S, v, b)
  BY <1>1, <1>2, <1>9 DEF SameStates
<1>11. SamePoints(ps, k + 1, v, b)
  <2>1. {ps[j].state : j \in 1..k + 1} = {ps[j].state : j \in 1..k}
    <3>1. DOMAIN w.ids = {ps[j].state : j \in 1..k}
      BY <1>1 DEF SamePoints
    <3>2. PICK h \in 1..k : ps[h].state = p.state
      BY <3>1
    <3>3. \A j \in 1..k + 1 : j \in 1..k \/ j = k + 1
      BY <1>3
    <3>4. 1..k \subseteq 1..k + 1
      BY <1>3
    <3> QED
      BY <3>2, <3>3, <3>4
  <2>2. Len(b.points) = k + 1
    BY <1>1, <1>8, <1>9 DEF SamePoints
  <2>3. ASSUME NEW j \in 1..k + 1 PROVE b.points[j] = Point(v.ids[ps[j].state], ps[j].loc)
    <3>1. CASE j \in 1..k
      <4>1. b.points[j] = a.points[j] /\ a.points[j] = Point(w.ids[ps[j].state], ps[j].loc)
        BY <1>1, <1>8, <1>9, <3>1 DEF SamePoints
      <4> QED
        BY <1>2, <4>1
    <3>2. CASE j = k + 1
      <4>1. b.points[k + 1] = q
        BY <1>1, <1>8, <1>9 DEF SamePoints
      <4> QED
        BY <1>2, <3>2, <4>1 DEF q, id, p
    <3> QED
      BY <1>3, <3>1, <3>2
  <2>4. DOMAIN w.ids = {ps[j].state : j \in 1..k} /\ 1 \in DOMAIN w.ids /\ w.ids[1] = 1
    BY <1>1 DEF SamePoints
  <2> QED
    BY <1>2, <2>1, <2>2, <2>3, <2>4 DEF SamePoints
<1> QED
  BY <1>9, <1>10, <1>11 DEF Matches, b, r, p

(* A record of a state that was not: the reader makes it from its own last. *)
LEMMA RestoresState ==
  ASSUME NEW S \in Seq(Maps), NEW ps, InOrder(ps, Len(S)), FromPragmas(S), FromCurrent(S, ps),
         NEW k \in 1..Len(ps) - 1, NEW w, NEW a, Matches(S, ps, k, w, a),
         ps[k + 1].state \notin DOMAIN w.ids
  PROVE  Restored(a.states[Last(a.points).state], PragmaMaps(S[ps[k + 1].state]))
           = S[ps[k + 1].state]
<1> DEFINE p == ps[k + 1]
           m == S[p.state]
           start == a.states[Last(a.points).state]
<1>1. SameStates(S, w, a) /\ SamePoints(ps, k, w, a)
  BY DEF Matches
<1>2. /\ Len(S) \in Nat /\ Len(ps) \in Nat /\ k \in 1..k /\ k \in 1..Len(ps)
      /\ k + 1 \in 2..Len(ps) /\ (k + 1) - 1 = k
      /\ p.state \in 1..Len(S) /\ ps[k].state \in 1..Len(S)
  <2>1. Len(S) \in Nat
    BY LenProperties
  <2>2. Len(ps) \in Nat /\ \A i \in 1..Len(ps) : ps[i].state \in 1..Len(S)
    BY <2>1, PointFacts
  <2> QED
    BY <2>1, <2>2
<1>3. m \in Maps
  BY <1>2, ElementOfSeq
<1>4. start = S[ps[k].state]
  <2>1. a.points[k] = Point(w.ids[ps[k].state], ps[k].loc) /\ Len(a.points) = k
        /\ ps[k].state \in DOMAIN w.ids
    BY <1>1, <1>2 DEF SamePoints
  <2>2. Last(a.points).state = w.ids[ps[k].state]
    BY <2>1 DEF Last, Point
  <2> QED
    BY <1>1, <2>1, <2>2 DEF SameStates
<1>5. FirstUse(ps, k + 1)
  <2>1. ASSUME NEW j \in 1..(k + 1) - 1 PROVE ps[j].state # p.state
    <3>1. ps[j].state \in DOMAIN w.ids
      BY <1>1, <1>2, <2>1 DEF SamePoints
    <3> QED
      BY <3>1
  <2> QED
    BY <2>1 DEF FirstUse
<1>6. ComesFrom(m, S[ps[k].state])
  BY <1>2, <1>5 DEF FromCurrent
<1>7. \A d \in Warnings : m[d].pragma => m[d] = Info(m[d].map, TRUE, TRUE)
  BY <1>2, Zenon DEF FromPragmas
<1>8. Restored(start, PragmaMaps(m)) = m
  <2>1. ComesFrom(m, start)
    BY <1>4, <1>6
  <2> HIDE DEF m, start
  <2> QED
    BY <1>3, <1>7, <2>1, RestoredIs
<1> QED
  BY <1>8

(* So a new record adds to the reader the state and the point that were written. *)
LEMMA ReadNew ==
  ASSUME NEW S \in Seq(Maps), NEW ps, InOrder(ps, Len(S)), FromPragmas(S), FromCurrent(S, ps),
         NEW k \in 1..Len(ps) - 1,
         NEW w \in Writers(S), NEW v, Writes(v, S, w, ps[k + 1]),
         NEW a, Matches(S, ps, k, w, a), ps[k + 1].state \notin DOMAIN w.ids
  PROVE  Matches(S, ps, k + 1, v, ReadRecord(a, Record(S, w, ps[k + 1])))
<1> DEFINE p == ps[k + 1]
           m == S[p.state]
           n == Len(a.states) + 1
           r == Record(S, w, p)
           q == Point(n, p.loc)
           b == ReadRecord(a, r)
<1>1. /\ a \in Readers /\ a.states \in Seq(Maps) /\ a.known \in Seq(Nat)
      /\ a.points \in Seq([state : Nat, loc : Nat])
      /\ SameStates(S, w, a) /\ SamePoints(ps, k, w, a)
  BY DEF Matches, Readers
<1>2. Len(a.states) \in Nat /\ n \in Nat /\ w.next = n /\ Len(a.known) = Len(a.states)
  BY <1>1, LenProperties DEF SameStates
<1>3. v.ids = Numbered(w.ids, p.state, n) /\ v.next = n + 1
  BY <1>2 DEF Writes
<1>4. /\ Len(ps) \in Nat /\ k \in Nat /\ k + 1 \in 1..Len(ps) /\ k + 1 \in Nat
      /\ p.loc \in Nat /\ p.state \in 1..Len(S)
  <2>1. Len(S) \in Nat
    BY LenProperties
  <2>2. Len(ps) \in Nat /\ \A i \in 1..Len(ps) : ps[i].loc \in Nat /\ ps[i].state \in 1..Len(S)
    BY <2>1, PointFacts
  <2> QED
    BY <2>2
<1>5. m \in Maps
  BY <1>4, ElementOfSeq
<1>6. r.id = 0 /\ r.loc = p.loc /\ r.maps = PragmaMaps(m)
  BY DEF Record
<1>7. Restored(a.states[Last(a.points).state], PragmaMaps(m)) = m
  <2> HIDE DEF m
  <2>1. Restored(a.states[Last(a.points).state], PragmaMaps(S[ps[k + 1].state])) = S[ps[k + 1].state]
    BY RestoresState
  <2> QED
    BY <2>1 DEF m
<1>8. b = [states |-> Append(a.states, m), points |-> Append(a.points, q), known |-> Append(a.known, n)]
  <2> HIDE DEF m, r, p
  <2>1. ~(r.id # 0)
    BY <1>6
  <2>2. b = [states |-> Append(a.states, Restored(a.states[Last(a.points).state], r.maps)),
             points |-> Append(a.points, Point(n, r.loc)), known |-> Append(a.known, n)]
    BY <2>1, Zenon DEF ReadRecord, Restored
  <2> HIDE DEF b, n
  <2> QED
    BY <1>6, <1>7, <2>2
<1> HIDE DEF b, m
<1>9. /\ Append(a.states, m) \in Seq(Maps) /\ Len(Append(a.states, m)) = n
      /\ Append(a.states, m)[n] = m
      /\ \A i \in 1..Len(a.states) : Append(a.states, m)[i] = a.states[i]
  BY <1>1, <1>5, AppendProperties
<1>10. q \in [state : Nat, loc : Nat]
  <2> HIDE DEF n, p
  <2> QED
    BY <1>2, <1>4 DEF Point, q
<1>11. /\ Append(a.points, q) \in Seq([state : Nat, loc : Nat])
       /\ Len(Append(a.points, q)) = Len(a.points) + 1
       /\ Append(a.points, q)[Len(a.points) + 1] = q
       /\ \A i \in 1..Len(a.points) : Append(a.points, q)[i] = a.points[i]
  <2> HIDE DEF q
  <2> QED
    BY <1>1, <1>10, AppendProperties
<1>12. /\ Append(a.known, n) \in Seq(Nat) /\ Len(Append(a.known, n)) = n
       /\ Append(a.known, n)[n] = n
       /\ \A i \in 1..Len(a.states) : Append(a.known, n)[i] = i
  <2>1. /\ Append(a.known, n) \in Seq(Nat) /\ Len(Append(a.known, n)) = Len(a.known) + 1
        /\ Append(a.known, n)[Len(a.known) + 1] = n
        /\ \A i \in 1..Len(a.known) : Append(a.known, n)[i] = a.known[i]
    <3> HIDE DEF n
    <3> QED
      BY <1>1, <1>2, AppendProperties
  <2>2. \A i \in 1..Len(a.states) : a.known[i] = i
    BY <1>1 DEF SameStates
  <2> QED
    BY <1>2, <2>1, <2>2
<1>13. /\ b.states = Append(a.states, m) /\ b.known = Append(a.known, n)
       /\ b.points = Append(a.points, q) /\ b \in Readers
  <2> HIDE DEF q, n
  <2> QED
    BY <1>8, <1>9, <1>11, <1>12 DEF Readers
<1>14. /\ DOMAIN v.ids = DOMAIN w.ids \cup {p.state} /\ v.ids[p.state] = n
       /\ \A s \in DOMAIN w.ids : v.ids[s] = w.ids[s] /\ s # p.state
  <2> HIDE DEF n
  <2> QED
    BY <1>3 DEF Numbered
<1>15. /\ \A s \in DOMAIN w.ids : w.ids[s] \in 1..Len(a.states) /\ a.states[w.ids[s]] = S[s]
       /\ \A s, t \in DOMAIN w.ids : w.ids[s] = w.ids[t] => s = t
       /\ \A i \in 1..Len(a.states) : \E s \in DOMAIN w.ids : w.ids[s] = i
  BY <1>1 DEF SameStates
<1>16. 1..n = 1..Len(a.states) \cup {n} /\ n \notin 1..Len(a.states)
  BY <1>2
<1> HIDE DEF n
<1>17. SameStates(S, v, b)
  <2>1. Len(b.states) = n /\ Len(b.known) = n /\ v.next = n + 1
    BY <1>3, <1>9, <1>12, <1>13
  <2>2. \A i \in 1..n : b.known[i] = i
    BY <1>12, <1>13, <1>16
  <2>3. ASSUME NEW s \in DOMAIN v.ids
        PROVE  v.ids[s] \in 1..n /\ b.states[v.ids[s]] = S[s]
    <3>1. CASE s = p.state
      BY <1>9, <1>13, <1>14, <1>16, <3>1 DEF m
    <3>2. CASE s \in DOMAIN w.ids
      <4>1. v.ids[s] = w.ids[s] /\ w.ids[s] \in 1..Len(a.states) /\ a.states[w.ids[s]] = S[s]
        BY <1>14, <1>15, <3>2
      <4> QED
        BY <1>9, <1>13, <1>16, <4>1
    <3> QED
      BY <1>14, <3>1, <3>2
  <2>4. ASSUME NEW s \in DOMAIN v.ids, NEW t \in DOMAIN v.ids, v.ids[s] = v.ids[t] PROVE s = t
    <3>1. \A u \in DOMAIN w.ids : v.ids[u] = w.ids[u] /\ v.ids[u] \in 1..Len(a.states)
      BY <1>14, <1>15
    <3>2. CASE s = p.state
      BY <1>14, <1>16, <2>4, <3>1, <3>2
    <3>3. CASE t = p.state
      BY <1>14, <1>16, <2>4, <3>1, <3>3
    <3>4. CASE s \in DOMAIN w.ids /\ t \in DOMAIN w.ids
      BY <1>15, <2>4, <3>1, <3>4
    <3> QED
      BY <1>14, <3>2, <3>3, <3>4
  <2>5. ASSUME NEW i \in 1..n PROVE \E s \in DOMAIN v.ids : v.ids[s] = i
    <3>1. CASE i = n
      BY <1>14, <3>1
    <3>2. CASE i \in 1..Len(a.states)
      <4>1. PICK s \in DOMAIN w.ids : w.ids[s] = i
        BY <1>15, <3>2
      <4> QED
        BY <1>14, <4>1
    <3> QED
      BY <1>16, <3>1, <3>2
  <2> QED
    BY <2>1, <2>2, <2>3, <2>4, <2>5 DEF SameStates
<1>18. SamePoints(ps, k + 1, v, b)
  <2>1. /\ DOMAIN w.ids = {ps[j].state : j \in 1..k} /\ 1 \in DOMAIN w.ids /\ w.ids[1] = 1
        /\ Len(a.points) = k
        /\ \A j \in 1..k : a.points[j] = Point(w.ids[ps[j].state], ps[j].loc)
    BY <1>1 DEF SamePoints
  <2>2. 1..k + 1 = 1..k \cup {k + 1}
    BY <1>4
  <2>3. {ps[j].state : j \in 1..k + 1} = {ps[j].state : j \in 1..k} \cup {p.state}
    BY <2>2
  <2>4. DOMAIN v.ids = {ps[j].state : j \in 1..k + 1} /\ 1 \in DOMAIN v.ids /\ v.ids[1] = 1
    BY <1>14, <2>1, <2>3
  <2>5. Len(b.points) = k + 1
    BY <1>11, <1>13, <2>1
  <2>6. ASSUME NEW j \in 1..k + 1 PROVE b.points[j] = Point(v.ids[ps[j].state], ps[j].loc)
    <3>1. CASE j \in 1..k
      <4>1. b.points[j] = a.points[j] /\ ps[j].state \in DOMAIN w.ids
        BY <1>11, <1>13, <2>1, <3>1
      <4> QED
        BY <1>14, <2>1, <3>1, <4>1
    <3>2. CASE j = k + 1
      <4>1. b.points[k + 1] = q
        BY <1>11, <1>13, <2>1
      <4> QED
        BY <1>14, <3>2, <4>1 DEF q, p
    <3> QED
      BY <2>2, <3>1, <3>2
  <2> QED
    BY <2>4, <2>5, <2>6 DEF SamePoints
<1> QED
  BY <1>13, <1>17, <1>18 DEF Matches, b, r, p

(* The reader of all the records, whatever it would make of others.         *)
RecordsOf(out, w, S, ps) ==
  /\ Len(out) = Len(ps) - 1
  /\ \A i \in 1..Len(ps) - 1 : out[i] = Record(S, w[i], ps[i + 1])
ReadsAll(f, out, m) ==
  /\ f[0] = StartsReading(m)
  /\ \A i \in 1..Len(out) :
       ReadRecord(f[i - 1], out[i]) \in Readers => f[i] = ReadRecord(f[i - 1], out[i])

(* Record for record, the reader follows the writer.                        *)
LEMMA ReaderFollows ==
  ASSUME NEW S \in Seq(Maps), NEW ps, InOrder(ps, Len(S)), FromPragmas(S), FromCurrent(S, ps),
         NEW w, WritersOf(w, S, ps), NEW out, RecordsOf(out, w, S, ps),
         NEW f, ReadsAll(f, out, S[1])
  PROVE  /\ \A i \in 0..Len(out) : Matches(S, ps, i + 1, w[i + 1], f[i])
         /\ \A i \in 1..Len(out) : f[i] = ReadRecord(f[i - 1], out[i]) /\ f[i] \in Readers
<1> DEFINE N == Len(out)
           T == {i \in 0..N : Matches(S, ps, i + 1, w[i + 1], f[i])}
<1>1. Len(ps) \in Nat /\ Len(ps) >= 1 /\ N = Len(ps) - 1 /\ N \in Nat
  <2>1. Len(S) \in Nat
    BY LenProperties
  <2>2. Len(ps) \in Nat
    BY <2>1, PointFacts
  <2> QED
    BY <2>2 DEF InOrder, RecordsOf
<1>2. 0 \in T
  <2>1. Matches(S, ps, 1, StartsWriting, StartsReading(S[1]))
    BY StartsMatching
  <2>2. w[0 + 1] = StartsWriting /\ f[0] = StartsReading(S[1]) /\ 0 + 1 = 1 /\ 0 \in 0..N
    BY <1>1 DEF WritersOf, ReadsAll
  <2> QED
    BY <2>1, <2>2
<1>3. ASSUME NEW i \in 0..N - 1, i \in T
      PROVE  i + 1 \in T /\ f[i + 1] = ReadRecord(f[i], out[i + 1])
  <2> DEFINE k == i + 1
  <2>1. k \in 1..Len(ps) - 1 /\ k \in 1..N /\ k \in 0..N /\ k - 1 = i /\ k \in 1..Len(ps)
    BY <1>1
  <2>2. Matches(S, ps, k, w[k], f[i])
    BY <1>3
  <2>3. w[k] \in Writers(S) /\ Writes(w[k + 1], S, w[k], ps[k + 1])
    BY <2>1 DEF WritersOf
  <2>4. out[k] = Record(S, w[k], ps[k + 1])
    BY <2>1 DEF RecordsOf
  <2>5. ReadRecord(f[i], out[k]) \in Readers => f[k] = ReadRecord(f[i], out[k])
    BY <2>1 DEF ReadsAll
  <2> HIDE DEF k
  <2>6. Matches(S, ps, k + 1, w[k + 1], ReadRecord(f[i], Record(S, w[k], ps[k + 1])))
    <3>1. CASE ps[k + 1].state \in DOMAIN w[k].ids
      BY <2>1, <2>2, <2>3, <3>1, ReadKnown
    <3>2. CASE ps[k + 1].state \notin DOMAIN w[k].ids
      BY <2>1, <2>2, <2>3, <3>2, ReadNew
    <3> QED
      BY <3>1, <3>2
  <2>7. f[k] = ReadRecord(f[i], out[k]) /\ Matches(S, ps, k + 1, w[k + 1], f[k])
    BY <2>4, <2>5, <2>6 DEF Matches
  <2> QED
    BY <2>1, <2>7 DEF k
<1> HIDE DEF N, T
<1>4. 0..N \subseteq T
  BY <1>1, <1>2, <1>3, Reaches
<1>5. ASSUME NEW i \in 1..N PROVE f[i] = ReadRecord(f[i - 1], out[i]) /\ f[i] \in Readers
  <2>1. i - 1 \in 0..N - 1 /\ (i - 1) + 1 = i /\ i \in 0..N /\ i - 1 \in 0..N
    BY <1>1
  <2>2. i - 1 \in T /\ i \in T
    BY <1>4, <2>1
  <2>3. f[(i - 1) + 1] = ReadRecord(f[i - 1], out[(i - 1) + 1])
    BY <1>3, <2>1, <2>2
  <2> QED
    BY <2>1, <2>2, <2>3 DEF T, Matches
<1> QED
  BY <1>4, <1>5 DEF N, T

(* So the states that were written are read back.                           *)
LEMMA ReadBack ==
  ASSUME NEW S \in Seq(Maps), NEW ps, InOrder(ps, Len(S)), FromPragmas(S), FromCurrent(S, ps)
  PROVE  \E w : Matches(S, ps, Len(ps), w, Read(S[1], Written(S, ps)))
<1>1. Len(S) \in Nat /\ Len(ps) \in Nat /\ Len(ps) >= 1
  <2>1. Len(S) \in Nat
    BY LenProperties
  <2>2. Len(ps) \in Nat
    BY <2>1, PointFacts
  <2> QED
    BY <2>1, <2>2 DEF InOrder
<1>2. PICK w : WritersOf(w, S, ps) /\ Written(S, ps) = w[Len(ps)].out
  BY <1>1, WritersExist
<1> DEFINE out == Written(S, ps)
           m == S[1]
           N == Len(out)
           Moves(f, n) == IF n = 0 THEN StartsReading(m) ELSE ReadRecord(f[n - 1], out[n])
           after == CHOOSE f : f = [n \in 0..N |-> Moves(f, n)]
           Tried(x, n) == IF ReadRecord(x, out[n]) \in Readers THEN ReadRecord(x, out[n])
                          ELSE StartsReading(m)
           G == [n \in 1..N |-> [x \in Readers |-> Tried(x, n)]]
<1>3. RecordsOf(out, w, S, ps) /\ N \in Nat /\ N = Len(ps) - 1
  <2>1. /\ Len(w[Len(ps)].out) = Len(ps) - 1
        /\ \A i \in 1..Len(ps) - 1 : w[Len(ps)].out[i] = Record(S, w[i], ps[i + 1])
    BY <1>1, <1>2, RecordsAre
  <2> HIDE DEF out
  <2>2. RecordsOf(w[Len(ps)].out, w, S, ps)
    BY <2>1 DEF RecordsOf
  <2>3. out = w[Len(ps)].out
    BY <1>2 DEF out
  <2> QED
    BY <1>1, <2>1, <2>2, <2>3
<1> HIDE DEF out, m
<1>4. StartsReading(m) \in Readers
  BY StartsMatching DEF Matches, m
<1>5. PICK f : Computed(f, G, N, Readers, StartsReading(m))
  <2>1. ASSUME NEW n \in 1..N, NEW x \in Readers PROVE Tried(x, n) \in Readers
    BY <1>4
  <2> HIDE DEF Tried
  <2>2. Advances(G, N, Readers)
    BY <2>1 DEF Advances
  <2> HIDE DEF G, N
  <2> QED
    BY <1>3, <1>4, <2>2, Recursion
<1>6. f \in [0..N -> Readers] /\ f[0] = StartsReading(m) /\ \A n \in 1..N : f[n] = G[n][f[n - 1]]
  BY <1>5, Zenon DEF Computed
<1>7. ReadsAll(f, out, S[1])
  <2>1. ASSUME NEW n \in 1..N, ReadRecord(f[n - 1], out[n]) \in Readers
        PROVE  f[n] = ReadRecord(f[n - 1], out[n])
    <3>1. n - 1 \in 0..N /\ f[n - 1] \in Readers
      <4>1. n - 1 \in 0..N
        BY <1>3
      <4> QED
        BY <1>6, <4>1
    <3>2. G[n][f[n - 1]] = Tried(f[n - 1], n)
      <4> HIDE DEF Tried, N
      <4> QED
        BY <3>1
    <3>3. f[n] = Tried(f[n - 1], n)
      BY <1>6, <3>2
    <3> HIDE DEF G
    <3> QED
      BY <2>1, <3>3
  <2> QED
    BY <1>6, <2>1 DEF ReadsAll, m
<1>8. \A n \in 1..N : f[n] = ReadRecord(f[n - 1], out[n])
  BY <1>2, <1>3, <1>7, ReaderFollows
<1>9. f = [n \in 0..N |-> Moves(f, n)]
  <2>1. ASSUME NEW n \in 0..N PROVE f[n] = Moves(f, n)
    <3>1. CASE n = 0
      BY <1>6, <3>1
    <3>2. CASE n # 0
      <4>1. n \in 1..N
        BY <1>3, <3>2
      <4> QED
        BY <1>8, <3>2, <4>1
    <3> QED
      BY <3>1, <3>2
  <2> HIDE DEF Moves, N, G
  <2> QED
    BY <1>6, <2>1
<1>10. after = [n \in 0..N |-> Moves(after, n)]
  BY <1>9, Zenon
<1> HIDE DEF after
<1>11. after[0] = StartsReading(m) /\ \A n \in 1..N : after[n] = ReadRecord(after[n - 1], out[n])
  BY <1>3, <1>10
<1>12. ReadsAll(after, out, S[1])
  BY <1>11, Zenon DEF ReadsAll, m
<1>13. \A i \in 0..N : Matches(S, ps, i + 1, w[i + 1], after[i])
  BY <1>2, <1>3, <1>12, ReaderFollows
<1>14. Matches(S, ps, Len(ps), w[Len(ps)], after[N])
  <2>1. N \in 0..N /\ N + 1 = Len(ps)
    BY <1>1, <1>3
  <2> HIDE DEF N
  <2> QED
    BY <1>13, <2>1
<1>15. Read(m, out) = after[Len(out)]
  BY Zenon DEF Read, StartsReading, after
<1> QED
  BY <1>14, <1>15 DEF out, m

(* The reader goes on as the writer would, but that nothing is pushed.      *)
IsReadBack(T, qs, S, ps) ==
  T = Read(S[1], Written(S, ps)).states /\ qs = Read(S[1], Written(S, ps)).points

(* All places find the mappings that they found before (ReadPrefix).        *)
LEMMA PrefixHolds ==
  ASSUME NEW S, NEW ps, NEW pu, NEW n, StatesHold(S, ps, pu, n),
         NEW T, NEW qs, IsReadBack(T, qs, S, ps)
  PROVE  StatesHold(T, qs, <<>>, n) /\ ForceOf(T, qs, n) = ForceOf(S, ps, n)
<1>1. /\ S \in Seq(Maps) /\ InOrder(ps, Len(S)) /\ Len(S) \in Nat /\ n \in Nat
      /\ Len(ps) \in Nat /\ Len(ps) >= 1 /\ Passed(ps, Len(S), n)
      /\ \A i \in 1..Len(ps) : ps[i].state \in 1..Len(S)
  BY HoldFacts
<1>2. FromPragmas(S) /\ FromCurrent(S, ps)
  BY DEF StatesHold
<1>3. PICK w : Matches(S, ps, Len(ps), w, Read(S[1], Written(S, ps)))
  BY <1>1, <1>2, ReadBack
<1> DEFINE a == Read(S[1], Written(S, ps))
           N == Len(ps)
<1>4. a \in Readers /\ SameStates(S, w, a) /\ SamePoints(ps, N, w, a) /\ T = a.states /\ qs = a.points
  BY <1>3 DEF Matches, IsReadBack
<1> HIDE DEF a
<1>5. T \in Seq(Maps) /\ qs \in Seq([state : Nat, loc : Nat]) /\ Len(T) \in Nat
  BY <1>4, LenProperties DEF Readers
<1> DEFINE ids == w.ids
<1>6. /\ \A s \in DOMAIN ids : ids[s] \in 1..Len(T) /\ T[ids[s]] = S[s]
      /\ \A s, t \in DOMAIN ids : ids[s] = ids[t] => s = t
      /\ \A i \in 1..Len(T) : \E s \in DOMAIN ids : ids[s] = i
  BY <1>4 DEF SameStates
<1>7. /\ DOMAIN ids = {ps[j].state : j \in 1..N} /\ ids[1] = 1
      /\ Len(qs) = N /\ \A j \in 1..N : qs[j] = Point(ids[ps[j].state], ps[j].loc)
  BY <1>4 DEF SamePoints
<1>16. N \in Nat /\ N >= 1 /\ DOMAIN ids \subseteq 1..Len(S)
  BY <1>1, <1>7
<1> HIDE DEF ids, N
<1>8. ASSUME NEW j \in 1..N
      PROVE  /\ ps[j].state \in DOMAIN ids
             /\ qs[j].state = ids[ps[j].state] /\ qs[j].loc = ps[j].loc
             /\ T[qs[j].state] = S[ps[j].state]
  <2>1. ps[j].state \in DOMAIN ids /\ qs[j] = Point(ids[ps[j].state], ps[j].loc)
    BY <1>7
  <2>2. qs[j].state = ids[ps[j].state] /\ qs[j].loc = ps[j].loc
    BY <2>1 DEF Point
  <2> QED
    BY <1>6, <2>1, <2>2
<1>9. /\ ps[1] = Point(1, 0) /\ 1 \in 1..N
      /\ \A i \in 1..N : ps[i].loc \in Nat /\ ps[i].loc <= n
      /\ \A i, j \in 1..N : i < j => ps[i].loc < ps[j].loc
  <2>1. \A i \in 1..N : ps[i].loc \in Nat
    BY <1>1, PointFacts DEF N
  <2>2. \A i \in 1..N : ps[i].loc <= n
    BY <1>1 DEF Passed, N
  <2>3. ps[1] = Point(1, 0) /\ \A i, j \in 1..N : i < j => ps[i].loc < ps[j].loc
    BY <1>1 DEF InOrder, N
  <2> QED
    BY <1>16, <2>1, <2>2, <2>3
<1>10. Passed(qs, Len(T), n)
  <2>1. ASSUME NEW i \in 1..N PROVE qs[i] \in [state : 1..Len(T), loc : Nat]
    <3>1. ids[ps[i].state] \in 1..Len(T) /\ ps[i].loc \in Nat
      BY <1>6, <1>8, <1>9
    <3>2. qs[i] = [state |-> ids[ps[i].state], loc |-> ps[i].loc]
      BY <1>7 DEF Point
    <3> QED
      BY <3>1, <3>2
  <2>2. qs \in Seq([state : 1..Len(T), loc : Nat])
    <3> DEFINE R == [state : 1..Len(T), loc : Nat]
    <3>1. qs \in [1..Len(qs) -> [state : Nat, loc : Nat]]
      BY <1>5, LenProperties
    <3> HIDE DEF R
    <3>2. qs \in [1..N -> R]
      BY <1>7, <2>1, <3>1 DEF R
    <3>3. qs \in Seq(R)
      BY <1>16, <3>2
    <3> QED
      BY <3>3 DEF R
  <2>3. qs[1] = Point(1, 0)
    <3>1. ps[1].state = 1 /\ ps[1].loc = 0
      BY <1>9 DEF Point
    <3> QED
      BY <1>7, <1>9, <3>1
  <2>4. \A i, j \in 1..N : i < j => qs[i].loc < qs[j].loc
    BY <1>8, <1>9
  <2>5. \A i \in 1..N : qs[i].loc <= n
    BY <1>8, <1>9
  <2> QED
    BY <1>1, <1>7, <1>16, <2>2, <2>3, <2>4, <2>5 DEF Passed, InOrder
<1>11. FromPragmas(T)
  <2>1. SUFFICES ASSUME NEW i \in 1..Len(T), NEW d \in Warnings, T[i][d].pragma
                 PROVE  T[i][d] = Info(T[i][d].map, TRUE, TRUE)
    BY DEF FromPragmas
  <2>2. PICK s \in DOMAIN ids : ids[s] = i
    BY <1>6
  <2>3. s \in 1..Len(S) /\ T[i] = S[s]
    BY <1>6, <1>16, <2>2
  <2> QED
    BY <1>2, <2>1, <2>3, Zenon DEF FromPragmas
<1>12. FromCurrent(T, qs)
  <2>1. SUFFICES ASSUME NEW k \in 2..Len(qs), FirstUse(qs, k)
                 PROVE  ComesFrom(T[qs[k].state], T[qs[k - 1].state])
    BY DEF FromCurrent
  <2>2. k \in 1..N /\ k - 1 \in 1..N /\ k \in 2..N /\ \A j \in 1..k - 1 : j \in 1..N
    BY <1>7, <1>16
  <2>3. FirstUse(ps, k)
    <3>1. ASSUME NEW j \in 1..k - 1 PROVE ps[j].state # ps[k].state
      <4>1. qs[j].state # qs[k].state
        BY <2>1 DEF FirstUse
      <4> QED
        BY <1>8, <2>2, <4>1
    <3> QED
      BY <3>1 DEF FirstUse
  <2>4. ComesFrom(S[ps[k].state], S[ps[k - 1].state])
    BY <1>2, <2>2, <2>3 DEF FromCurrent, N
  <2>5. T[qs[k].state] = S[ps[k].state] /\ T[qs[k - 1].state] = S[ps[k - 1].state]
    BY <1>8, <2>2
  <2> QED
    BY <2>4, <2>5
<1>13. StatesHold(T, qs, <<>>, n)
  <2>1. <<>> \in Seq(1..Len(T)) /\ \A h \in 1..Len(<<>>) : WasActive(qs, <<>>[h])
    OBVIOUS
  <2> QED
    BY <1>5, <1>10, <1>11, <1>12, <2>1 DEF StatesHold
<1>14. ASSUME NEW i \in 1..n + 1 PROVE T[StateAt(qs, i)] = S[StateAt(ps, i)]
  <2>1. i \in Nat /\ i >= 1 /\ i - 1 \in Nat
    BY <1>1
  <2>2. PICK k : Under(ps, i - 1, k)
    BY <1>1, <2>1, UnderExists
  <2>3. k \in 1..N
    BY <2>2 DEF Under, N
  <2>4. Under(qs, i - 1, k)
    BY <1>7, <1>8, <2>2 DEF Under, N
  <2>5. StateAt(ps, i) = ps[k].state
    <3>1. InOrder(ps, Len(S)) /\ Len(S) \in Nat
      BY <1>1
    <3> QED
      BY <2>1, <2>2, <3>1, StateAtIs
  <2>6. StateAt(qs, i) = qs[k].state
    <3>1. InOrder(qs, Len(T))
      BY <1>10 DEF Passed
    <3> QED
      BY <1>5, <2>1, <2>4, <3>1, StateAtIs
  <2> QED
    BY <1>8, <2>3, <2>5, <2>6
<1>15. ForceOf(T, qs, n) = ForceOf(S, ps, n)
  BY <1>14 DEF ForceOf
<1> QED
  BY <1>13, <1>15

-----------------------------------------------------------------------------
(* The engine's states                                                      *)

StatesIInv ==
  /\ StatesHold(diagStates, points, pushed, pos)
  /\ pos \in 0..MaxPragmas /\ inPrefix \in BOOLEAN

(* The mappings in force, as the lemmas speak of them.                      *)
LEMMA InForceIs ==
  InForce = ForceOf(diagStates, points, pos)
BY DEF InForce, ForceOf

(* The same of the next state.                                              *)
LEMMA InForceNext ==
  InForce' = ForceOf(diagStates', points', pos')
BY DEF InForce, ForceOf

(* Of the mappings, an engine starts with the command line's.               *)
LEMMA StatesInitIInv == StatesInit => StatesIInv /\ Scopes!Init
<1> SUFFICES ASSUME StatesInit PROVE StatesIInv /\ Scopes!Init
  OBVIOUS
<1>1. PICK m \in CommandLines : diagStates = <<m>>
  BY DEF StatesInit
<1>2. points = <<Point(1, 0)>> /\ pushed = <<>> /\ pos = 0 /\ inPrefix = TRUE
  BY DEF StatesInit, OnlyCommandLine
<1>3. m \in Maps /\ \A d \in Warnings : ~m[d].pragma
  BY DiagStatesAssumption DEF Maps
<1>4. diagStates \in Seq(Maps) /\ Len(diagStates) = 1 /\ diagStates[1] = m
  BY <1>1, <1>3
<1> DEFINE p == Point(1, 0)
<1>5. p \in [state : 1..1, loc : Nat] /\ p.state = 1 /\ p.loc = 0
  BY DEF Point
<1> HIDE DEF p
<1>6. /\ points = <<p>> /\ Len(points) = 1 /\ points[1] = p
      /\ points \in Seq([state : 1..1, loc : Nat])
  BY <1>2, <1>5 DEF p
<1>7. Passed(points, Len(diagStates), pos)
  <2>1. \A i, j \in 1..Len(points) : i < j => points[i].loc < points[j].loc
    BY <1>6
  <2>2. InOrder(points, 1)
    BY <1>6, <2>1 DEF InOrder, p
  <2>3. \A i \in 1..Len(points) : points[i].loc <= pos
    BY <1>2, <1>5, <1>6
  <2> QED
    BY <1>2, <1>4, <2>2, <2>3 DEF Passed
<1>8. FromPragmas(diagStates)
  <2>1. \A s \in 1..Len(diagStates) : diagStates[s] = m
    BY <1>4
  <2> QED
    BY <1>3, <2>1, Zenon DEF FromPragmas
<1>9. FromCurrent(diagStates, points)
  BY <1>6 DEF FromCurrent
<1>10. pushed \in Seq(1..Len(diagStates)) /\ \A h \in 1..Len(pushed) : WasActive(points, pushed[h])
  BY <1>2
<1>11. StatesHold(diagStates, points, pushed, pos)
  BY <1>4, <1>7, <1>8, <1>9, <1>10 DEF StatesHold
<1>12. StatesIInv
  BY <1>2, <1>11, DiagStatesAssumption DEF StatesIInv
<1>13. InForce = <<m>>
  <2>1. InForce = [i \in 1..1 |-> diagStates[StateAt(points, i)]]
    BY <1>2 DEF InForce
  <2>2. ASSUME NEW i \in 1..1 PROVE diagStates[StateAt(points, i)] = m
    BY <1>4, <2>2 DEF StateAt
  <2>3. InForce = [i \in 1..1 |-> m]
    BY <2>1, <2>2
  <2> QED
    BY <2>3
<1>14. [i \in DOMAIN pushed |-> diagStates[pushed[i]]] = <<>>
  BY <1>2
<1> QED
  BY <1>12, <1>13, <1>14 DEF Scopes!Init

(* The actions, each of which is that of the abstract engine.               *)
LEMMA PushStep ==
  ASSUME StatesIInv, PragmaPush
  PROVE  StatesIInv' /\ Scopes!Push
<1>1. /\ pos < MaxPragmas /\ pos' = pos + 1 /\ inPrefix' = inPrefix
      /\ pushed' = Append(pushed, Last(points).state)
      /\ diagStates' = diagStates /\ points' = points
  BY DEF PragmaPush, AtPragma
<1>2. StatesHold(diagStates, points, pushed, pos) /\ pos' \in 0..MaxPragmas /\ inPrefix' \in BOOLEAN
  BY <1>1, DiagStatesAssumption DEF StatesIInv
<1> DEFINE S == diagStates
           ps == points
           pu == pushed
           n == pos
<1>3. /\ StatesHold(S, ps, Append(pu, Last(ps).state), n + 1)
      /\ ForceOf(S, ps, n + 1) = Append(ForceOf(S, ps, n), Last(ForceOf(S, ps, n)))
      /\ SavedOf(S, Append(pu, Last(ps).state))
           = Append(SavedOf(S, pu), Last(ForceOf(S, ps, n)))
  BY <1>2, PushHolds
<1>4. StatesHold(diagStates', points', pushed', pos')
  BY <1>1, <1>3
<1>5. InForce = ForceOf(S, ps, n) /\ InForce' = ForceOf(S, ps, n + 1)
  BY <1>1, InForceIs, InForceNext
<1>6. InForce' = Append(InForce, Last(InForce))
  BY <1>3, <1>5
<1>7. [i \in DOMAIN pushed |-> diagStates[pushed[i]]]'
        = Append([i \in DOMAIN pushed |-> diagStates[pushed[i]]], Last(InForce))
  BY <1>1, <1>3, <1>5 DEF SavedOf
<1>8. StatesIInv'
  BY <1>2, <1>4 DEF StatesIInv
<1>9. Scopes!Push
  BY <1>6, <1>7 DEF Scopes!Push, Scopes!Goes, Scopes!Last, Last
<1> QED
  BY <1>8, <1>9

(* ... the pop, with something to pop or nothing,                           *)
LEMMA PopStep ==
  ASSUME StatesIInv, PragmaPop
  PROVE  StatesIInv' /\ Scopes!Pop
<1>1. pos < MaxPragmas /\ pos' = pos + 1 /\ inPrefix' = inPrefix /\ diagStates' = diagStates
  BY DEF PragmaPop, AtPragma
<1>2. StatesHold(diagStates, points, pushed, pos) /\ pos' \in 0..MaxPragmas /\ inPrefix' \in BOOLEAN
  BY <1>1, DiagStatesAssumption DEF StatesIInv
<1> DEFINE S == diagStates
           ps == points
           pu == pushed
           n == pos
           saved == [i \in DOMAIN pushed |-> diagStates[pushed[i]]]
<1>3. saved = SavedOf(S, pu) /\ saved' = SavedOf(diagStates', pushed')
  BY DEF SavedOf
<1>4. CASE pushed = <<>>
  <2>1. points' = points /\ pushed' = pushed
    BY <1>4 DEF PragmaPop
  <2>2. /\ StatesHold(S, ps, pu, n + 1)
        /\ ForceOf(S, ps, n + 1) = Append(ForceOf(S, ps, n), Last(ForceOf(S, ps, n)))
    BY <1>2, NothingHolds
  <2>3. StatesHold(diagStates', points', pushed', pos')
    BY <1>1, <2>1, <2>2
  <2>4. InForce' = Append(InForce, Last(InForce))
    BY <1>1, <2>1, <2>2, InForceIs, InForceNext
  <2>5. saved = <<>> /\ saved' = saved
    BY <1>1, <1>4, <2>1
  <2>6. StatesIInv'
    BY <1>2, <2>3 DEF StatesIInv
  <2>7. Scopes!Pop
    BY <2>4, <2>5 DEF Scopes!Pop, Scopes!Goes, Scopes!Last, Scopes!Front, Last, Front
  <2> QED
    BY <2>6, <2>7
<1>5. CASE pushed # <<>>
  <2>1. IsPopped(points', points, pushed, pos + 1) /\ pushed' = Front(pushed)
    BY <1>1, <1>5 DEF PragmaPop, IsPopped
  <2> DEFINE qs == points'
  <2>2. /\ StatesHold(S, qs, Front(pu), n + 1)
        /\ ForceOf(S, qs, n + 1) = Append(ForceOf(S, ps, n), Last(SavedOf(S, pu)))
        /\ SavedOf(S, Front(pu)) = Front(SavedOf(S, pu)) /\ SavedOf(S, pu) # <<>>
    BY <1>2, <1>5, <2>1, PopHolds
  <2>3. StatesHold(diagStates', points', pushed', pos')
    BY <1>1, <2>1, <2>2
  <2>4. InForce' = Append(InForce, Last(saved))
    BY <1>1, <1>3, <2>2, InForceIs, InForceNext
  <2>5. saved # <<>> /\ saved' = Front(saved)
    BY <1>1, <1>3, <2>1, <2>2
  <2>6. StatesIInv'
    BY <1>2, <2>3 DEF StatesIInv
  <2>7. Scopes!Pop
    BY <2>4, <2>5 DEF Scopes!Pop, Scopes!Goes, Scopes!Last, Scopes!Front, Last, Front
  <2> QED
    BY <2>6, <2>7
<1> QED
  BY <1>4, <1>5

(* ... the mapping of a group,                                              *)
LEMMA MapStep ==
  ASSUME StatesIInv, NEW g \in Groups, NEW to \in Mappings, PragmaMap(g, to)
  PROVE  StatesIInv' /\ Scopes!Map(g, to)
<1>1. pos < MaxPragmas /\ pos' = pos + 1 /\ inPrefix' = inPrefix /\ pushed' = pushed
  BY DEF PragmaMap, AtPragma
<1>2. StatesHold(diagStates, points, pushed, pos) /\ pos' \in 0..MaxPragmas /\ inPrefix' \in BOOLEAN
  BY <1>1, DiagStatesAssumption DEF StatesIInv
<1>3. g \in Seq(Warnings)
  BY DiagStatesAssumption
<1> DEFINE S == diagStates
           ps == points
           pu == pushed
           n == pos
           T == diagStates'
           qs == points'
           saved == [i \in DOMAIN pushed |-> diagStates[pushed[i]]]
<1>4. IsGrouped(T, qs, S, ps, g, to, n + 1)
  <2>1. S \in Seq(Maps) /\ Passed(ps, Len(S), n)
    BY <1>2 DEF StatesHold
  <2>2. SetGroupMapping([states |-> S, points |-> ps], g, to, n + 1)
          = AfterGroup(S, ps, g, Len(g), to, n + 1)
    BY <1>3, <2>1, GroupMapped
  <2>3. /\ T = SetGroupMapping([states |-> S, points |-> ps], g, to, n + 1).states
        /\ qs = SetGroupMapping([states |-> S, points |-> ps], g, to, n + 1).points
    BY <1>1 DEF PragmaMap
  <2> QED
    BY <2>2, <2>3 DEF IsGrouped
<1>5. /\ StatesHold(T, qs, pu, n + 1)
      /\ ForceOf(T, qs, n + 1)
           = Append(ForceOf(S, ps, n), MappedBy(Last(ForceOf(S, ps, n)), g, to))
      /\ SavedOf(T, pu) = SavedOf(S, pu)
  BY <1>2, <1>3, <1>4, MapHolds
<1>6. StatesHold(diagStates', points', pushed', pos')
  BY <1>1, <1>5
<1>7. InForce' = Append(InForce, MappedBy(Last(InForce), g, to))
  BY <1>1, <1>5, InForceIs, InForceNext
<1>8. saved' = saved
  BY <1>1, <1>5 DEF SavedOf
<1>9. StatesIInv'
  BY <1>2, <1>6 DEF StatesIInv
<1>10. Scopes!Map(g, to)
  BY <1>7, <1>8 DEF Scopes!Map, Scopes!Goes, Scopes!Last, Last
<1> QED
  BY <1>9, <1>10

(* ... and the end of the text that goes into the AST file.                 *)
LEMMA ReadStep ==
  ASSUME StatesIInv, ReadPrefix
  PROVE  StatesIInv' /\ Scopes!EndOfPrefix
<1>1. pos' = pos /\ inPrefix' = FALSE /\ pushed' = <<>>
      /\ IsReadBack(diagStates', points', diagStates, points)
  BY DEF ReadPrefix, IsReadBack
<1>2. StatesHold(diagStates, points, pushed, pos) /\ pos' \in 0..MaxPragmas /\ inPrefix' \in BOOLEAN
  BY <1>1 DEF StatesIInv
<1> DEFINE S == diagStates
           ps == points
           pu == pushed
           n == pos
           T == diagStates'
           qs == points'
<1>3. StatesHold(T, qs, <<>>, n) /\ ForceOf(T, qs, n) = ForceOf(S, ps, n)
  BY <1>1, <1>2, PrefixHolds
<1>4. StatesHold(diagStates', points', pushed', pos')
  BY <1>1, <1>3
<1>5. InForce' = InForce
  BY <1>1, <1>3, InForceIs, InForceNext
<1>6. [i \in DOMAIN pushed |-> diagStates[pushed[i]]]' = <<>>
  BY <1>1
<1> QED
  BY <1>2, <1>4, <1>5, <1>6 DEF StatesIInv, Scopes!EndOfPrefix

-----------------------------------------------------------------------------
(* What an account holds *)

(* The last level is one, and no error was suppressed that was not counted.  *)
Leveled(e) ==
  e.lastDiagLevel \in Levels \cup {None} /\ e.numErrorsSuppressed <= e.numErrors

(* Only where a fatal error went before is there one more suppressed.       *)
LEMMA SuppressedKept ==
  ASSUME NEW c, AccountTyped(c), NEW id \in Delayable,
         NEW failed \in BOOLEAN, NEW n \in Nat, NEW m \in Nat,
         NEW counts \in [Levels -> Nat], NEW last \in BOOLEAN
  PROVE  /\ Failing(c, failed, n).numErrorsSuppressed = c.numErrorsSuppressed
         /\ Suppressing(c, n, m).numErrorsSuppressed = m
         /\ Showing(c, counts, last).numErrorsSuppressed = c.numErrorsSuppressed
         /\ SetDelayed(c, id).numErrorsSuppressed = c.numErrorsSuppressed
BY DEF AccountTyped, Failing, Suppressing, Showing, SetDelayed

(* The numbers of an account are numbers.                                   *)
LEMMA CountsTyped ==
  ASSUME NEW e, AccountTyped(e)
  PROVE  /\ e.numErrors \in Nat /\ e.numErrorsSuppressed \in Nat
         /\ e.errorOccurred \in BOOLEAN /\ e.lastShown \in BOOLEAN
         /\ e.shown \in [Levels -> Nat]
BY DEF AccountTyped

(* What ProcessDiag suppresses it counts.                                   *)
LEMMA SuppressedCounted ==
  ASSUME NEW e, AccountTyped(e), NEW level, opts \in Options,
         e.numErrorsSuppressed <= e.numErrors
  PROVE  LET f == ProcessDiag(e, level) IN f.numErrorsSuppressed <= f.numErrors
<1> DEFINE c == Counted(e, level)
           n == IF IsError(level) THEN 1 ELSE 0
           b == c.errorOccurred \/ IsError(level)
           m == c.numErrors + n
           k == c.numErrorsSuppressed + n
           failed == [c EXCEPT !.errorOccurred = @ \/ IsError(level), !.numErrors = @ + n]
           f == ProcessDiag(e, level)
<1>1. /\ AccountTyped(c) /\ c.numErrors = e.numErrors
      /\ c.numErrorsSuppressed = e.numErrorsSuppressed
  <2>1. AccountIs(c, e, IF level = "note" THEN e.lastDiagLevel ELSE level,
                  e.fatalErrorOccurred \/ (level # "note" /\ e.lastDiagLevel = "fatal"),
                  IF level = "note" THEN e.lastShown ELSE FALSE,
                  IF IsError(level) THEN e.reported + 1 ELSE e.reported)
    BY CountedFields
  <2> HIDE DEF c
  <2> QED
    BY <2>1, Zenon DEF AccountIs
<1>2. failed = Failing(c, b, m)
  BY DEF Failing
<1>3. n \in Nat /\ b \in BOOLEAN
  OBVIOUS
<1>4. CASE c.fatalErrorOccurred
  <2>1. f = Suppressing(c, m, k)
    BY <1>4 DEF ProcessDiag, Suppressing
  <2> HIDE DEF c, n, b, f, failed
  <2>2. m \in Nat /\ k \in Nat /\ k <= m
    BY <1>1, <1>3, CountsTyped
  <2> HIDE DEF m, k
  <2>3. f.numErrors = m
    BY <1>1, <2>1, <2>2, SuppressingTyped
  <2>4. f.numErrorsSuppressed = k
    BY <1>1, <2>1, <2>2 DEF AccountTyped, Suppressing
  <2> QED
    BY <2>2, <2>3, <2>4 DEF f
<1>5. CASE ~c.fatalErrorOccurred
  <2>1. \/ f = c \/ f = SetDelayed(failed, "fatal_too_many_errors")
        \/ f = EmitDiag(failed, level)
    BY <1>5 DEF ProcessDiag
  <2> HIDE DEF c, n, b, f, failed
  <2>2. m \in Nat /\ c.numErrorsSuppressed <= m /\ c.numErrorsSuppressed <= c.numErrors
    BY <1>1, <1>3, CountsTyped
  <2> HIDE DEF m
  <2>3. /\ AccountTyped(failed) /\ failed.numErrors = m
        /\ failed.numErrorsSuppressed = c.numErrorsSuppressed
    <3>1. AccountTyped(failed) /\ failed.numErrors = m
      BY <1>1, <1>2, <1>3, <2>2, FailingTyped
    <3>2. failed.numErrorsSuppressed = c.numErrorsSuppressed
      BY <1>1, <1>2, <1>3, <2>2 DEF AccountTyped, Failing
    <3> QED
      BY <3>1, <3>2
  <2>4. CASE f = c
    BY <2>2, <2>4 DEF f
  <2>5. CASE f = SetDelayed(failed, "fatal_too_many_errors")
    <3>1. "fatal_too_many_errors" \in Delayable
      BY DEF Delayable
    <3>2. f.numErrors = failed.numErrors
      BY <2>3, <2>5, <3>1, SetDelayedFields
    <3>3. f.numErrorsSuppressed = failed.numErrorsSuppressed
      BY <2>3, <2>5, <3>1 DEF AccountTyped, SetDelayed
    <3> QED
      BY <2>2, <2>3, <3>2, <3>3 DEF f
  <2>6. CASE f = EmitDiag(failed, level)
    <3> DEFINE counts == [failed.shown EXCEPT ![level] = @ + 1]
               last == IF level = "note" THEN failed.lastShown ELSE TRUE
    <3>1. f = Showing(failed, counts, last)
      BY <2>3, <2>6, EmitShows
    <3>2. counts \in [Levels -> Nat] /\ last \in BOOLEAN
      BY <2>3, CountsTyped, OneMore
    <3> HIDE DEF counts, last
    <3>3. f.numErrors = failed.numErrors
      BY <2>3, <3>1, <3>2, ShowingTyped
    <3>4. f.numErrorsSuppressed = failed.numErrorsSuppressed
      BY <2>3, <3>1, <3>2 DEF AccountTyped, Showing
    <3> QED
      BY <2>2, <2>3, <3>3, <3>4 DEF f
  <2> QED
    BY <2>1, <2>4, <2>5, <2>6
<1> QED
  BY <1>4, <1>5

(* ProcessDiag, then.                                                       *)
LEMMA ProcessLeveled ==
  ASSUME NEW e, AccountTyped(e), Leveled(e), NEW level \in Levels, opts \in Options,
         NEW f, f = ProcessDiag(e, level)
  PROVE  AccountTyped(f) /\ Leveled(f)
<1>1. Taken(f, e, level)
  BY Processed
<1>2. AccountTyped(f) /\ f.lastDiagLevel \in Levels \cup {None}
  BY <1>1 DEF Taken, Leveled
<1>3. f.numErrorsSuppressed <= f.numErrors
  BY SuppressedCounted DEF Leveled
<1> QED
  BY <1>2, <1>3 DEF Leveled

(* A file that is gone, and what was delayed and is reported.               *)
LEMMA FileGoneLeveled ==
  ASSUME NEW e, AccountTyped(e), Leveled(e), NEW f, f = FileGone(e)
  PROVE  AccountTyped(f) /\ Leveled(f)
<1>1. f = SetDelayed(e, "err_cannot_open_file") /\ "err_cannot_open_file" \in Delayable
  BY DEF FileGone, Delayable
<1>2. /\ AccountTyped(f) /\ f.numErrors = e.numErrors
      /\ f.lastDiagLevel = e.lastDiagLevel
  BY <1>1, SetDelayedFields
<1>3. f.numErrorsSuppressed = e.numErrorsSuppressed
  BY <1>1 DEF AccountTyped, SetDelayed
<1> QED
  BY <1>2, <1>3 DEF Leveled

(* ... of the account that is left when it is.                              *)
LEMMA ReportDelayedLeveled ==
  ASSUME NEW e, AccountTyped(e), Leveled(e), opts \in Options,
         NEW f, f = ReportDelayed(e)
  PROVE  AccountTyped(f) /\ Leveled(f)
<1> DEFINE first == ProcessDiag(e, "fatal")
           second == ProcessDiag(first, "fatal")
           both == IF Awaited(first, e.delayedDiagID) THEN second ELSE first
           b == both.delayedShown \/ first.emitted
<1>1. f = [both EXCEPT !.delayedDiagID = None, !.delayedShown = b]
  BY DEF ReportDelayed
<1>2. AccountTyped(first) /\ Leveled(first)
  <2> HIDE DEF first
  <2>1. first = ProcessDiag(e, "fatal")
    BY DEF first
  <2> QED
    BY <2>1, Strings, ProcessLeveled
<1>3. AccountTyped(second) /\ Leveled(second)
  <2> HIDE DEF first, second
  <2>1. second = ProcessDiag(first, "fatal")
    BY DEF second
  <2> QED
    BY <1>2, <2>1, Strings, ProcessLeveled
<1> HIDE DEF first, second
<1>4. AccountTyped(both) /\ Leveled(both)
  BY <1>2, <1>3
<1>5. b \in BOOLEAN
  <2>1. both.delayedShown \in BOOLEAN /\ first.emitted \in BOOLEAN
    BY <1>2, <1>4 DEF AccountTyped
  <2> QED
    BY <2>1
<1> HIDE DEF both, b
<1>6. /\ AccountTyped(f) /\ f.numErrors = both.numErrors
      /\ f.lastDiagLevel = both.lastDiagLevel
      /\ f.numErrorsSuppressed = both.numErrorsSuppressed
  BY <1>1, <1>4, <1>5 DEF AccountTyped
<1> QED
  BY <1>4, <1>6 DEF Leveled

(* A report of any level.                                                   *)
LEMMA EmitLeveled ==
  ASSUME NEW e, AccountTyped(e), Leveled(e), opts \in Options,
         NEW level \in Levels, NEW id, NEW gone,
         NEW f, f = EmitCurrent(e, id, level, gone)
  PROVE  AccountTyped(f) /\ Leveled(f)
<1> DEFINE built == IF gone = "built" THEN FileGone(e) ELSE e
           done == ProcessDiag(built, level)
           read == IF gone = "shown" /\ done.emitted THEN FileGone(done) ELSE done
<1>1. f = read \/ f = ReportDelayed(read)
  BY DEF EmitCurrent
<1>2. AccountTyped(built) /\ Leveled(built)
  BY FileGoneLeveled
<1>3. AccountTyped(done) /\ Leveled(done)
  <2> HIDE DEF built, done
  <2>1. done = ProcessDiag(built, level)
    BY DEF done
  <2> QED
    BY <1>2, <2>1, ProcessLeveled
<1> HIDE DEF built, done
<1>4. AccountTyped(read) /\ Leveled(read)
  BY <1>3, FileGoneLeveled
<1> HIDE DEF read
<1> QED
  BY <1>1, <1>4, ReportDelayedLeveled

(* One that Sema keeps to itself.                                           *)
LEMMA IgnoredLeveled ==
  ASSUME NEW e, AccountTyped(e), Leveled(e), NEW f, f = LastIgnored(e)
  PROVE  AccountTyped(f) /\ Leveled(f)
<1> DEFINE b == e.fatalErrorOccurred \/ e.lastDiagLevel = "fatal"
<1>1. b \in BOOLEAN
  BY DEF AccountTyped
<1>2. f = [e EXCEPT !.fatalErrorOccurred = b, !.lastDiagLevel = "ignored",
                    !.lastShown = FALSE]
  BY DEF LastIgnored
<1> HIDE DEF b
<1>3. /\ AccountTyped(f) /\ f.numErrors = e.numErrors
      /\ f.lastDiagLevel = "ignored"
      /\ f.numErrorsSuppressed = e.numErrorsSuppressed
  BY <1>1, <1>2 DEF AccountTyped
<1> QED
  BY <1>3 DEF Leveled, Levels

(* ... whatever was gone while it was built.                                *)
LEMMA KeptLeveled ==
  ASSUME NEW e, AccountTyped(e), Leveled(e), NEW gone, NEW f, f = KeptToSema(e, gone)
  PROVE  AccountTyped(f) /\ Leveled(f)
<1> DEFINE built == IF gone = "built" THEN FileGone(e) ELSE e
<1>1. AccountTyped(built) /\ Leveled(built)
  BY FileGoneLeveled
<1>2. f = LastIgnored(built)
  BY DEF KeptToSema
<1> HIDE DEF built
<1> QED
  BY <1>1, <1>2, IgnoredLeveled

-----------------------------------------------------------------------------
(* The level of a diagnostic *)

(* What a mapping is made, under any options, is a level.                   *)
LEMMA LevelByTyped ==
  ASSUME NEW info \in Infos
  PROVE  LevelBy(info) \in Levels
<1>1. info.map \in Levels
  BY DEF Infos, Mappings, Levels
<1> QED
  BY <1>1 DEF LevelBy, Levels

(* An error's, too.                                                         *)
LEMMA ErrorLevelTyped == ErrorLevel \in Levels
<1>1. Info("error", FALSE, FALSE) \in Infos
  BY DEF Info, Infos, Mappings
<1> QED
  BY <1>1, LevelByTyped DEF ErrorLevel

(* Wherever it is reported.                                                 *)
LEMMA LevelTyped ==
  ASSUME StatesIInv, NEW d \in Warnings, NEW loc \in 0..pos
  PROVE  Level(d, loc) \in Levels
<1>1. StatesHold(diagStates, points, pushed, pos) /\ pos \in Nat
  BY DiagStatesAssumption DEF StatesIInv
<1>2. /\ diagStates \in Seq(Maps) /\ Len(diagStates) \in Nat /\ InOrder(points, Len(diagStates))
      /\ \A i \in 1..Len(points) : points[i].state \in 1..Len(diagStates)
      /\ Last(points).state \in 1..Len(diagStates)
  BY <1>1, HoldFacts
<1>3. PointFor(points, loc).state \in 1..Len(diagStates)
  <2>1. CASE loc = 0
    BY <1>2, <2>1 DEF PointFor
  <2>2. CASE loc # 0
    <3>1. loc \in Nat
      BY <1>1
    <3>2. PICK k : Under(points, loc, k)
      BY <1>2, <3>1, UnderExists
    <3>3. PointFor(points, loc) = points[k]
      <4>1. Len(diagStates) \in Nat /\ InOrder(points, Len(diagStates))
        BY <1>2
      <4> QED
        BY <2>2, <3>1, <3>2, <4>1, PointForIs
    <3>4. k \in 1..Len(points)
      BY <3>2 DEF Under
    <3> QED
      BY <1>2, <3>3, <3>4
  <2> QED
    BY <2>1, <2>2
<1>4. diagStates[PointFor(points, loc).state] \in [Warnings -> Infos]
  BY <1>2, <1>3 DEF Maps
<1>5. diagStates[PointFor(points, loc).state][d] \in Infos
  BY <1>4
<1> QED
  BY <1>5, LevelByTyped DEF Level

-----------------------------------------------------------------------------
(* The variables *)

(* The account with its levels, on top of what it takes to be settled.      *)
TypeIInv == IInv /\ StatesIInv /\ Leveled(eng) /\ reports \in Nat

(* A report leaves the states alone.                                        *)
LEMMA ReportTyped ==
  ASSUME TypeIInv, Reporting, IInv', Leveled(eng')
  PROVE  TypeIInv'
BY DEF TypeIInv, StatesIInv, Reporting, stateVars

(* Each step keeps all of it.                                               *)
LEMMA StepTyped ==
  ASSUME TypeIInv, [Next]_vars
  PROVE  TypeIInv'
<1>1. IInv'
  BY StepSettled DEF TypeIInv
<1>2. /\ AccountTyped(eng) /\ Leveled(eng) /\ opts \in Options /\ StatesIInv
      /\ reports \in Nat
  BY DEF TypeIInv, IInv, Settled, Ready, Sound
<1>3. ASSUME StatesIInv', UNCHANGED <<opts, eng, reports>> PROVE TypeIInv'
  BY <1>1, <1>2, <1>3 DEF TypeIInv, Leveled
<1>4. CASE PragmaPush /\ UNCHANGED <<opts, eng, reports>>
  BY <1>2, <1>3, <1>4, PushStep
<1>5. CASE PragmaPop /\ UNCHANGED <<opts, eng, reports>>
  BY <1>2, <1>3, <1>5, PopStep
<1>6. ASSUME NEW g \in Groups, NEW to \in Mappings, PragmaMap(g, to),
             UNCHANGED <<opts, eng, reports>>
      PROVE  TypeIInv'
  BY <1>2, <1>3, <1>6, MapStep
<1>7. CASE ReadPrefix /\ UNCHANGED <<opts, eng, reports>>
  BY <1>2, <1>3, <1>7, ReadStep
<1>8. ASSUME NEW gone, NEW level \in Levels, NEW id, Reporting,
             eng' = EmitCurrent(eng, id, level, gone)
      PROVE  TypeIInv'
  <2>1. Leveled(eng')
    BY <1>2, <1>8, EmitLeveled
  <2> QED
    BY <1>1, <1>8, <2>1, ReportTyped
<1>9. ASSUME NEW gone \in Times, ReportError(gone) PROVE TypeIInv'
  BY <1>8, <1>9, ErrorLevelTyped DEF ReportError
<1>10. ASSUME NEW gone \in Times, ReportNote(gone) PROVE TypeIInv'
  BY <1>8, <1>10, Strings DEF ReportNote
<1>11. ASSUME NEW gone \in Times, ReportUnreadable(gone) PROVE TypeIInv'
  BY <1>8, <1>11, Strings DEF ReportUnreadable
<1>12. ASSUME NEW gone \in Times, NEW d \in Warnings, NEW loc \in 0..pos,
              ReportWarning(d, loc, gone)
       PROVE  TypeIInv'
  <2>1. Level(d, loc) \in Levels
    BY <1>2, LevelTyped
  <2> QED
    BY <1>8, <1>12, <2>1 DEF ReportWarning
<1>13. ASSUME NEW gone \in Times, Suppress(gone) PROVE TypeIInv'
  <2>1. Reporting /\ eng' = KeptToSema(eng, gone)
    BY <1>13 DEF Suppress
  <2>2. Leveled(eng')
    BY <1>2, <2>1, KeptLeveled
  <2> QED
    BY <1>1, <2>1, <2>2, ReportTyped
<1>14. ASSUME NEW gone \in Times, NEW d \in Warnings, NEW loc \in 0..pos,
              SuppressAccess(d, loc, gone)
       PROVE  TypeIInv'
  <2>1. Level(d, loc) \in Levels
    BY <1>2, LevelTyped
  <2> DEFINE a == KeptToSema(eng, gone)
             b == EmitCurrent(a, d, Level(d, loc), gone)
  <2>2. Reporting /\ eng' = LastIgnored(b)
    BY <1>14 DEF SuppressAccess
  <2>3. a = KeptToSema(eng, gone) /\ b = EmitCurrent(a, d, Level(d, loc), gone)
    OBVIOUS
  <2> HIDE DEF a, b
  <2>4. AccountTyped(a) /\ Leveled(a)
    BY <1>2, <2>3, KeptLeveled
  <2>5. AccountTyped(b) /\ Leveled(b)
    BY <1>2, <2>1, <2>3, <2>4, EmitLeveled
  <2>6. Leveled(eng')
    BY <2>2, <2>5, IgnoredLeveled
  <2> QED
    BY <1>1, <2>2, <2>6, ReportTyped
<1>15. CASE UNCHANGED vars
  <2>1. StatesIInv'
    BY <1>2, <1>15 DEF vars, stateVars, StatesIInv
  <2> QED
    BY <1>3, <1>15, <2>1 DEF vars
<1> QED
  BY <1>4, <1>5, <1>6, <1>7, <1>9, <1>10, <1>11, <1>12, <1>13, <1>14, <1>15 DEF Next, Pragma

(* It holds of a fresh engine with the command line's mappings.             *)
LEMMA InitTyped == Init => TypeIInv /\ Scopes!Init
<1> SUFFICES ASSUME Init PROVE TypeIInv /\ Scopes!Init
  OBVIOUS
<1>1. IInv
  BY InitSettled
<1>2. StatesIInv /\ Scopes!Init
  BY StatesInitIInv DEF Init
<1>3. Leveled(eng) /\ reports \in Nat
  BY DEF Init, Fresh, Leveled
<1> QED
  BY <1>1, <1>2, <1>3 DEF TypeIInv

(* The inductive invariant, of the account and the mappings together.       *)
LEMMA VariablesTyped == Spec => []TypeIInv
<1>1. TypeIInv /\ [Next]_vars => TypeIInv'
  BY StepTyped
<1>2. Init => TypeIInv
  BY InitTyped
<1> QED
  BY <1>1, <1>2, PTL DEF Spec

(* What the type invariant says of the states.                              *)
LEMMA StatesTyped == StatesIInv => StatesTypeOK
<1> SUFFICES ASSUME StatesIInv PROVE StatesTypeOK
  OBVIOUS
<1>1. StatesHold(diagStates, points, pushed, pos) /\ pos \in 0..MaxPragmas /\ inPrefix \in BOOLEAN
  BY DEF StatesIInv
<1>2. /\ diagStates \in Seq(Maps) /\ Len(diagStates) \in Nat /\ pos \in Nat
      /\ InOrder(points, Len(diagStates)) /\ Passed(points, Len(diagStates), pos)
      /\ Len(points) \in Nat /\ Len(points) >= 1 /\ pushed \in Seq(1..Len(diagStates))
      /\ \A i \in 1..Len(points) : points[i].state \in 1..Len(diagStates)
  BY <1>1, HoldFacts
<1> DEFINE Refs == DOMAIN diagStates
           R == [state : Refs, loc : 0..pos]
<1>3. Refs = 1..Len(diagStates)
  BY <1>2
<1>4. /\ points \in Seq([state : 1..Len(diagStates), loc : Nat]) /\ points[1] = Point(1, 0)
      /\ \A i, j \in 1..Len(points) : i < j => points[i].loc < points[j].loc
      /\ \A i \in 1..Len(points) : points[i].loc <= pos
  BY <1>2 DEF InOrder, Passed
<1>5. Head(points) = Point(1, 0) /\ DOMAIN points = 1..Len(points)
  BY <1>2, <1>4
<1>6. points \in Seq(R)
  <2> DEFINE Q == [state : 1..Len(diagStates), loc : Nat]
  <2>1. points \in Seq(Q) /\ \A q \in Q : q.loc <= pos => q \in R
    BY <1>2, <1>3, <1>4
  <2> HIDE DEF Q
  <2>2. points \in [1..Len(points) -> Q]
    BY <2>1, LenProperties
  <2>3. \A i \in 1..Len(points) : points[i] \in R
    BY <1>4, <2>1, <2>2
  <2> HIDE DEF R
  <2> QED
    BY <2>1, <2>3
<1>7. diagStates \in Seq([Warnings -> Infos]) /\ pushed \in Seq(Refs)
  BY <1>2, <1>3 DEF Maps
<1>8. \A i, j \in DOMAIN points : i < j => points[i].loc < points[j].loc
  BY <1>4, <1>5
<1> QED
  BY <1>1, <1>5, <1>6, <1>7, <1>8 DEF StatesTypeOK

-----------------------------------------------------------------------------
(* The theorems *)

(* The inductive invariant.                                                 *)
LEMMA AccountSettled == Spec => []IInv
<1>1. IInv /\ [Next]_vars => IInv'
  BY StepSettled
<1>2. QED  BY InitSettled, <1>1, PTL DEF Spec

(* Whatever is reported, under whatever options and pragmas: the compilation
   fails if there was an error, all are counted, and one that the client was not
   given was kept back by a fatal error that it was given; nothing that would be
   shown is left delayed (ProcessDiag, EmitCurrentDiagnostic, ReportDelayed). *)
THEOREM NoErrorIsLost == Spec => []ErrorsAccounted
<1>1. IInv => ErrorsAccounted
  <2>1. SUFFICES ASSUME IInv PROVE ErrorsAccounted
    OBVIOUS
  <2>2. /\ ErrorsCounted(eng) /\ OneFatal(eng) /\ Complete(eng)
        /\ eng.delayedDiagID # None => eng.lastDiagLevel = "ignored" \/ eng.fatalErrorOccurred
    BY <2>1 DEF IInv, Settled, Ready, Sound
  <2>3. eng.shown["error"] \in Nat /\ eng.shown["fatal"] \in Nat /\ eng.reported \in Nat
    BY <2>1, Typed, Strings DEF IInv, Settled, Ready, Sound
  <2>4. QED  BY <2>2, <2>3 DEF ErrorsAccounted, ErrorsCounted, OneFatal, Complete
<1>2. QED  BY AccountSettled, <1>1, PTL

(* After a fatal error nothing but notes is shown, after a delayed one nothing
   at all, and a note only below what was shown (ProcessDiag, ReportDelayed and
   the report it makes from inside itself, setLastDiagnosticIgnored).       *)
THEOREM NothingOutOfContext == Spec => ShownInContext
<1> DEFINE Step ==
      /\ eng'.shown["fatal"] <= 1
      /\ eng.shown["fatal"] > 0 =>
           \A level \in Levels \ {"note"} : eng'.shown[level] = eng.shown[level]
      /\ eng.delayedShown => eng'.shown = eng.shown
      /\ eng'.shown["note"] > eng.shown["note"] =>
           eng.lastShown \/ eng.lastDiagLevel = None
<1>1. IInv /\ [Next]_vars => [Step]_vars
  <2>1. SUFFICES ASSUME IInv, [Next]_vars PROVE Step
    OBVIOUS
  <2>2. eng' = eng \/ InContext(eng, eng')
    BY <2>1, StepSettled
  <2>3. eng' = eng => InContext(eng, eng')
    BY <2>1, NothingShown DEF IInv, Settled
  <2>4. QED  BY <2>2, <2>3 DEF InContext
<1>2. QED  BY AccountSettled, <1>1, PTL DEF Spec, ShownInContext

(* The account is one, every state maps all warnings, all references are to
   states, and the points are in the order of the source, whatever is pushed,
   popped, mapped, and written and read (Diagnostic.h:248).                 *)
THEOREM DiagnosticsTyped == Spec => []TypeOK
<1>1. TypeIInv => TypeOK
  <2> SUFFICES ASSUME TypeIInv PROVE TypeOK
    OBVIOUS
  <2>1. StatesTypeOK
    BY StatesTyped DEF TypeIInv
  <2>2. opts \in Options /\ reports \in Nat /\ Leveled(eng) /\ AccountTyped(eng)
    BY DEF TypeIInv, IInv, Settled, Ready, Sound
  <2>3. eng.delayedDiagID \in {None} \cup Delayable
    BY <2>2 DEF AccountTyped
  <2> QED
    BY <2>1, <2>2, <2>3 DEF TypeOK, Leveled
<1> QED
  BY VariablesTyped, <1>1, PTL

(* At each place of the text the mappings are those of the pragmas before it,
   pushes and pops matched, though states are shared, and changed where they
   are; they are the same once an AST file was written and read, in which a
   state has only what pragmas said (setDiagnosticMapping, popMappings,
   WritePragmaDiagnosticMappings, ReadPragmaDiagnosticMappings).            *)
THEOREM PragmasScoped == Spec => ImplementsScopes
<1> DEFINE Step ==
      \/ PragmaPush /\ Scopes!Push
      \/ PragmaPop /\ Scopes!Pop
      \/ \E g \in Groups, to \in Mappings : PragmaMap(g, to) /\ Scopes!Map(g, to)
      \/ ReadPrefix /\ Scopes!EndOfPrefix
<1>1. TypeIInv /\ [Next]_vars => [Step]_stateVars
  <2> SUFFICES ASSUME TypeIInv, [Next]_vars PROVE Step \/ UNCHANGED stateVars
    OBVIOUS
  <2>1. StatesIInv
    BY DEF TypeIInv
  <2>2. CASE PragmaPush
    BY <2>1, <2>2, PushStep
  <2>3. CASE PragmaPop
    BY <2>1, <2>3, PopStep
  <2>4. ASSUME NEW g \in Groups, NEW to \in Mappings, PragmaMap(g, to) PROVE Step
    BY <2>1, <2>4, MapStep
  <2>5. CASE ReadPrefix
    BY <2>1, <2>5, ReadStep
  <2>6. CASE Reporting
    BY <2>6 DEF Reporting
  <2>7. CASE UNCHANGED vars
    BY <2>7 DEF vars
  <2> HIDE DEF Step
  <2> QED
    BY <2>2, <2>3, <2>4, <2>5, <2>6, <2>7
    DEF Next, Pragma, ReportError, ReportNote, ReportUnreadable, ReportWarning,
        Suppress, SuppressAccess
<1>2. Init => Scopes!Init
  BY InitTyped
<1> QED
  BY VariablesTyped, <1>1, <1>2, PTL DEF Spec, ImplementsScopes
=============================================================================
