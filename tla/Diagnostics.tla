---------------------------- MODULE Diagnostics -----------------------------
(* A DiagnosticsEngine: what becomes of a diagnostic that is reported.  Its
   level comes from the mappings in force where it is reported, DiagStates;
   whether the client gets it, from those before it.

   Errors and notes are not mapped by pragmas.                              *)
EXTENDS DiagStates

CONSTANTS
  Options,      \* the options there may be
  None,
  MaxEvents     \* bound: pragmas and reports together

Levels == {"note", "ignored", "warning", "error", "fatal"}
IsError(level) == level \in {"error", "fatal"}

(* What may be delayed: both are fatal errors of their own.                 *)
Delayable == {"fatal_too_many_errors", "err_cannot_open_file"}

(* EnableAllWarnings, IgnoreAllWarnings, WarningsAsErrors, ErrorsAsFatal and
   ErrorLimit, where 0 is none.                                             *)
ASSUME DiagnosticsAssumption ==
  /\ Options \subseteq [everything : BOOLEAN, ignore : BOOLEAN, werror : BOOLEAN,
                        fatal : BOOLEAN, limit : Nat]
  /\ MaxEvents \in Nat
  /\ None \notin Levels \cup Delayable
  /\ Warnings \cap Delayable = {}

VARIABLES
  opts,         \* the options
  eng,          \* the engine's account of the diagnostics so far
  reports       \* reports made

vars == <<stateVars, opts, eng, reports>>

(* Of eng, shown (how many of each level the client was given), reported (how
   many errors there were), lastShown (whether the client was given the last
   diagnostic that is no note) and delayedShown (whether it was given one that
   had been delayed) are what the properties speak of.                      *)
Fresh ==
  [lastDiagLevel |-> None, fatalErrorOccurred |-> FALSE, errorOccurred |-> FALSE,
   numErrors |-> 0, numErrorsSuppressed |-> 0, delayedDiagID |-> None,
   shown |-> [level \in Levels |-> 0], reported |-> 0, lastShown |-> FALSE,
   delayedShown |-> FALSE, emitted |-> FALSE]

Init == StatesInit /\ opts \in Options /\ eng = Fresh /\ reports = 0

-----------------------------------------------------------------------------
(* DiagnosticIDs                                                            *)

(* The level of a diagnostic that is mapped as info says (getDiagnosticLevel). *)
LevelBy(info) ==
  LET all == IF opts.everything /\ info.map = "ignored" /\ ~info.user
             THEN "warning" ELSE info.map
      asked == IF all = "warning" /\ opts.ignore THEN "ignored" ELSE all
      strict == IF asked = "warning" /\ opts.werror /\ ~info.noWarningAsError
                THEN "error" ELSE asked
  IN IF strict = "error" /\ opts.fatal /\ ~info.noErrorAsFatal
     THEN "fatal" ELSE strict

Level(d, loc) == LevelBy(diagStates[PointFor(points, loc).state][d])
ErrorLevel == LevelBy(Info("error", FALSE, FALSE))

SetDelayed(e, id) ==
  IF e.delayedDiagID # None THEN e ELSE [e EXCEPT !.delayedDiagID = id]

(* A fatal error takes effect when the next diagnostic comes that is no note. *)
Counted(e, level) ==
  [e EXCEPT !.emitted = FALSE,
            !.fatalErrorOccurred = @ \/ (level # "note" /\ e.lastDiagLevel = "fatal"),
            !.lastDiagLevel = IF level = "note" THEN @ ELSE level,
            !.lastShown = IF level = "note" THEN @ ELSE FALSE,
            !.reported = IF IsError(level) THEN @ + 1 ELSE @]

EmitDiag(e, level) ==
  [e EXCEPT !.emitted = TRUE, !.shown[level] = @ + 1,
            !.lastShown = IF level = "note" THEN @ ELSE TRUE]

(* ProcessDiag: the client is given the diagnostic, or it is not.           *)
ProcessDiag(e, level) ==
  LET c == Counted(e, level)
      n == IF IsError(level) THEN 1 ELSE 0
      failed == [c EXCEPT !.errorOccurred = @ \/ IsError(level), !.numErrors = @ + n]
  IN IF c.fatalErrorOccurred
     THEN [c EXCEPT !.numErrors = @ + n, !.numErrorsSuppressed = @ + n]
     ELSE IF level = "ignored" \/ (level = "note" /\ c.lastDiagLevel = "ignored") THEN c
     ELSE IF level = "error" /\ opts.limit # 0 /\ failed.numErrors > opts.limit
     THEN SetDelayed(failed, "fatal_too_many_errors")
     ELSE EmitDiag(failed, level)

LastIgnored(e) ==
  [e EXCEPT !.fatalErrorOccurred = @ \/ e.lastDiagLevel = "fatal",
            !.lastDiagLevel = "ignored", !.lastShown = FALSE]

(* A mutant: the delayed diagnostic is dropped.                             *)
MutReportDelayed(e) == [e EXCEPT !.delayedDiagID = None]

(* A mutant: it is no longer awaited while it is reported.                  *)
MutReportOnce(e) ==
  LET first == ProcessDiag([e EXCEPT !.delayedDiagID = None], "fatal")
  IN [first EXCEPT !.delayedShown = @ \/ first.emitted]

(* EmitCurrentDiagnostic, of a diagnostic id, finds one delayed: EmitDiag leaves
   no id behind to compare with.                                            *)
Awaited(e, id) == e.delayedDiagID # None /\ (e.emitted \/ e.delayedDiagID # id)

(* Both of those delayed are fatal.  One is awaited until it was reported: if it
   is shown, it is reported again, from inside, and that silences the engine;
   the second is not shown, so there is no third.                           *)
ReportDelayed(e) ==
  LET first == ProcessDiag(e, "fatal")
      both == IF Awaited(first, e.delayedDiagID)
              THEN ProcessDiag(first, "fatal") ELSE first
  IN [both EXCEPT !.delayedDiagID = None, !.delayedShown = @ \/ first.emitted]

(* A file that a diagnostic in flight needs turns out to be gone
   (ContentCache::getBuffer).                                               *)
FileGone(e) == SetDelayed(e, "err_cannot_open_file")

(* ... never, while the diagnostic is built, or while it is shown.          *)
Times == {"never", "built", "shown"}

(* EmitCurrentDiagnostic: what is delayed comes right after.                *)
EmitCurrent(e, id, level, gone) ==
  LET built == IF gone = "built" THEN FileGone(e) ELSE e
      done == ProcessDiag(built, level)
      read == IF gone = "shown" /\ done.emitted THEN FileGone(done) ELSE done
  IN IF Awaited(read, id) THEN ReportDelayed(read) ELSE read

(* Sema, in a SFINAE context: the diagnostic it built is taken for ignored.  *)
KeptToSema(e, gone) == LastIgnored(IF gone = "built" THEN FileGone(e) ELSE e)

-----------------------------------------------------------------------------
Reporting ==
  /\ pos + reports < MaxEvents /\ reports' = reports + 1
  /\ UNCHANGED <<stateVars, opts>>

ReportWarning(d, loc, gone) ==
  Reporting /\ eng' = EmitCurrent(eng, d, Level(d, loc), gone)

ReportError(gone) ==
  Reporting /\ eng' = EmitCurrent(eng, "error", ErrorLevel, gone)

ReportNote(gone) == Reporting /\ eng' = EmitCurrent(eng, "note", "note", gone)

(* ContentCache::getBuffer, when no diagnostic is in flight; its arguments are
   strings, for which no file is read.                                      *)
ReportUnreadable(gone) ==
  /\ gone # "built"
  /\ Reporting /\ eng' = EmitCurrent(eng, "err_cannot_open_file", "fatal", gone)

Suppress(gone) ==
  gone # "shown" /\ Reporting /\ eng' = KeptToSema(eng, gone)

(* An error of access, in a SFINAE context, is one for C++98 only.          *)
SuppressAccess(d, loc, gone) ==
  /\ Reporting
  /\ eng' = LastIgnored(EmitCurrent(KeptToSema(eng, gone), d, Level(d, loc), gone))

Next ==
  \/ pos + reports < MaxEvents /\ Pragma /\ UNCHANGED <<opts, eng, reports>>
  \/ reports = 0 /\ ReadPrefix /\ UNCHANGED <<opts, eng, reports>>
  \/ \E gone \in Times :
       \/ ReportError(gone) \/ ReportNote(gone)
       \/ ReportUnreadable(gone) \/ Suppress(gone)
       \/ \E d \in Warnings, loc \in 0..pos :
            ReportWarning(d, loc, gone) \/ SuppressAccess(d, loc, gone)

Spec == Init /\ [][Next]_vars

-----------------------------------------------------------------------------
(* Properties                                                               *)

(* The variables are of these types and the points in order, Diagnostic.h:248. *)
TypeOK ==
  /\ StatesTypeOK
  /\ opts \in Options /\ reports \in Nat
  /\ eng.lastDiagLevel \in Levels \cup {None}
  /\ eng.delayedDiagID \in {None} \cup Delayable
  /\ eng.numErrorsSuppressed <= eng.numErrors

(* At each place of the text, at the end and wherever a late diagnostic looks
   back to, the mappings are those of the pragmas before it, pushes and pops
   matched, whichever state objects share them and whether or not an AST file
   lies between (setDiagnosticMapping, pushMappings, popMappings,
   GetDiagStatePointForLoc; WritePragmaDiagnosticMappings and its reader).  *)
ImplementsScopes ==
  /\ Scopes!Init
  /\ [][\/ PragmaPush /\ Scopes!Push
        \/ PragmaPop /\ Scopes!Pop
        \/ \E g \in Groups, to \in Mappings : PragmaMap(g, to) /\ Scopes!Map(g, to)
        \/ ReadPrefix /\ Scopes!EndOfPrefix]_stateVars

(* What the client is given follows from what it was given: after a fatal
   error nothing but notes, be it mapped to one, delayed, or followed by what
   Sema keeps to itself, and after a delayed one nothing at all, so that below
   "too many errors emitted" there are no notes of the error that was one too
   many (test/Misc/error-limit.c:15); a note only below a diagnostic that it was
   given, or below none yet (ProcessDiag, ReportDelayed and the report it makes
   from inside itself, setLastDiagnosticIgnored).                           *)
ShownInContext ==
  [][/\ eng'.shown["fatal"] <= 1
     /\ eng.shown["fatal"] > 0 =>
          \A level \in Levels \ {"note"} : eng'.shown[level] = eng.shown[level]
     /\ eng.delayedShown => eng'.shown = eng.shown
     /\ eng'.shown["note"] > eng.shown["note"] =>
          eng.lastShown \/ eng.lastDiagLevel = None]_vars

(* No error is lost: the compilation fails if there was one, all are counted,
   and one that the client was not given was kept back by a fatal error that
   it was given, after no more errors than the limit; one is left delayed only
   behind what Sema kept to itself, or when no error is shown any more
   (ProcessDiag; EmitCurrentDiagnostic and ReportDelayed for what is delayed). *)
ErrorsAccounted ==
  /\ eng.reported > 0 => eng.errorOccurred
  /\ eng.reported = eng.numErrors
  /\ eng.shown["error"] + eng.shown["fatal"] < eng.reported => eng.shown["fatal"] > 0
  /\ opts.limit # 0 => eng.shown["error"] <= opts.limit
  /\ eng.delayedDiagID # None =>
       eng.lastDiagLevel = "ignored" \/ eng.fatalErrorOccurred
=============================================================================
