----------------------------- MODULE DiagStates -----------------------------
(* The states of a DiagnosticsEngine: what each diagnostic maps to, from which
   point of the source on.  A state is an object of its own: points and the
   stack of the pushes hold references, and share them.

   A location is the number of the pragma it follows; 0 is the invalid one.
   Diagnostics are those a group of a pragma can name, warnings.            *)
EXTENDS Naturals, Sequences, SequencesExt, FiniteSetsExt

CONSTANTS
  Warnings,     \* the warnings there are
  Groups,       \* the groups: sequences of warnings
  CommandLines, \* what the command line may make of them: functions to infos
  MaxPragmas    \* bound: pragmas in the text

Mappings == {"ignored", "warning", "error", "fatal"}

(* A DiagnosticMappingInfo.                                                 *)
Infos ==
  [map : Mappings, user : BOOLEAN, pragma : BOOLEAN,
   noWarningAsError : BOOLEAN, noErrorAsFatal : BOOLEAN]
Info(map, user, pragma) ==
  [map |-> map, user |-> user, pragma |-> pragma,
   noWarningAsError |-> pragma, noErrorAsFatal |-> pragma]

ASSUME DiagStatesAssumption ==
  /\ CommandLines \subseteq [Warnings -> Infos]
  /\ \A m \in CommandLines, d \in Warnings : ~m[d].pragma
  /\ \A g \in Groups : g \in Seq(Warnings)
  /\ MaxPragmas \in Nat

VARIABLES
  diagStates,   \* DiagStates: the states, the command line's first
  points,       \* DiagStatePoints: which of them is active, from where on
  pushed,       \* DiagStateOnPushStack
  pos,          \* pragmas passed
  inPrefix      \* whether the text that goes into the AST file is processed

stateVars == <<diagStates, points, pushed, pos, inPrefix>>

Point(state, loc) == [state |-> state, loc |-> loc]
OnlyCommandLine == <<Point(1, 0)>>

StatesInit ==
  /\ \E m \in CommandLines : diagStates = <<m>>
  /\ points = OnlyCommandLine /\ pushed = <<>> /\ pos = 0 /\ inPrefix = TRUE

(* The point that loc is under; without a location, the last.               *)
PointFor(ps, loc) ==
  IF loc = 0 \/ loc >= Last(ps).loc THEN Last(ps)
  ELSE ps[Max({i \in DOMAIN ps : ps[i].loc <= loc})]

-----------------------------------------------------------------------------
(* setDiagnosticMapping, on ds = [states, points]                           *)

(* No mapping to a warning replaces one to an error.                        *)
Kept(m, d, to) ==
  IF to = "warning" /\ m[d].map \in {"error", "fatal"} THEN m[d].map ELSE to

(* A mutant: the state in force is changed, not a copy of it.               *)
MutSetMapping(ds, d, to, loc) ==
  [ds EXCEPT !.states[Last(ds.points).state][d] =
     Info(Kept(ds.states[Last(ds.points).state], d, to), TRUE, TRUE)]

(* A mutant: each diagnostic of a group has a point of its own.             *)
MutSetMappingEach(ds, d, to, loc) ==
  LET cur == Last(ds.points).state
      info == Info(Kept(ds.states[cur], d, to), TRUE, TRUE)
  IN [states |-> Append(ds.states, [ds.states[cur] EXCEPT ![d] = info]),
      points |-> Append(ds.points, Point(Len(ds.states) + 1, loc))]

(* At the place of the last point its state is changed; after it, a copy of
   the state becomes active there.  Pragmas come in the order of the text.  *)
SetMapping(ds, d, to, loc) ==
  LET cur == Last(ds.points).state
      mapped == [ds.states[cur] EXCEPT ![d] = Info(Kept(ds.states[cur], d, to), TRUE, TRUE)]
  IN IF loc = Last(ds.points).loc
     THEN [states |-> [ds.states EXCEPT ![cur] = mapped], points |-> ds.points]
     ELSE [states |-> Append(ds.states, mapped),
           points |-> Append(ds.points, Point(Len(ds.states) + 1, loc))]

SetGroupMapping(ds, group, to, loc) ==
  LET after[n \in 0..Len(group)] ==
        IF n = 0 THEN ds ELSE SetMapping(after[n - 1], group[n], to, loc)
  IN after[Len(group)]

AtPragma == pos < MaxPragmas /\ pos' = pos + 1 /\ UNCHANGED inPrefix

(* setDiagnosticGroupMapping, by #pragma diagnostic                         *)
PragmaMap(group, to) ==
  LET ds == SetGroupMapping([states |-> diagStates, points |-> points], group, to, pos')
  IN /\ AtPragma
     /\ diagStates' = ds.states /\ points' = ds.points
     /\ UNCHANGED pushed

PragmaPush ==
  /\ AtPragma
  /\ pushed' = Append(pushed, Last(points).state)
  /\ UNCHANGED <<diagStates, points>>

(* Nothing to pop: it is said so, and that is all.                          *)
PragmaPop ==
  /\ AtPragma
  /\ IF pushed = <<>> THEN UNCHANGED <<points, pushed>>
     ELSE /\ points' = IF Last(pushed) = Last(points).state THEN points
                       ELSE Append(points, Point(Last(pushed), pos'))
          /\ pushed' = Front(pushed)
  /\ UNCHANGED diagStates

-----------------------------------------------------------------------------
(* The states in an AST file                                                *)

(* A mutant: the state of the command line has no number.                   *)
MutFirstStateID == 1

FirstStateID == 2

(* What pragmas said.                                                       *)
PragmaMaps(m) == [d \in {x \in Warnings : m[x].pragma} |-> m[d].map]

(* A state is written, with what pragmas said, at its first point, and has a
   number from then on.                                                     *)
WritePoint(states, acc, p) ==
  IF p.loc = 0 THEN acc
  ELSE IF p.state \in DOMAIN acc.ids
  THEN [acc EXCEPT !.out = Append(@, [loc |-> p.loc, id |-> acc.ids[p.state], maps |-> <<>>])]
  ELSE [ids |-> [s \in DOMAIN acc.ids \cup {p.state} |->
                   IF s = p.state THEN acc.next ELSE acc.ids[s]],
        next |-> acc.next + 1,
        out |-> Append(acc.out, [loc |-> p.loc, id |-> 0, maps |-> PragmaMaps(states[p.state])])]

(* WritePragmaDiagnosticMappings                                            *)
Written(states, ps) ==
  LET after[n \in 0..Len(ps)] ==
        IF n = 0 THEN [ids |-> [s \in {1} |-> 1], next |-> FirstStateID, out |-> <<>>]
        ELSE WritePoint(states, after[n - 1], ps[n])
  IN after[Len(ps)].out

(* A new state is the current one and what the record says of it.           *)
ReadRecord(acc, r) ==
  IF r.id # 0
  THEN [acc EXCEPT !.points = Append(@, Point(acc.known[r.id], r.loc))]
  ELSE LET start == acc.states[Last(acc.points).state]
           m == [d \in Warnings |-> IF d \in DOMAIN r.maps
                                    THEN Info(r.maps[d], TRUE, TRUE) ELSE start[d]]
           new == Len(acc.states) + 1
       IN [states |-> Append(acc.states, m), points |-> Append(acc.points, Point(new, r.loc)),
           known |-> Append(acc.known, new)]

(* ReadPragmaDiagnosticMappings, by an engine that has the command line's.  *)
Read(m, record) ==
  LET after[n \in 0..Len(record)] ==
        IF n = 0 THEN [states |-> <<m>>, points |-> OnlyCommandLine, known |-> <<1>>]
        ELSE ReadRecord(after[n - 1], record[n])
  IN after[Len(record)]

(* The text so far has gone into a precompiled header; another process, with
   the same command line, reads it and goes on.                             *)
ReadPrefix ==
  LET ds == Read(diagStates[1], Written(diagStates, points))
  IN /\ inPrefix /\ inPrefix' = FALSE
     /\ diagStates' = ds.states /\ points' = ds.points /\ pushed' = <<>>
     /\ UNCHANGED pos

Pragma == PragmaPush \/ PragmaPop \/ \E g \in Groups, to \in Mappings : PragmaMap(g, to)

-----------------------------------------------------------------------------
(* Properties                                                               *)

(* The states are of these types, every reference is to a state, and the points
   are in the order of the source, the command line's first, as the comment on
   DiagStatePoints says (Diagnostic.h:248).                                 *)
StatesTypeOK ==
  LET Refs == DOMAIN diagStates IN
  /\ diagStates \in Seq([Warnings -> Infos]) /\ pushed \in Seq(Refs)
  /\ points \in Seq([state : Refs, loc : 0..pos])
  /\ Head(points) = Point(1, 0)
  /\ \A i, j \in DOMAIN points : i < j => points[i].loc < points[j].loc
  /\ pos \in 0..MaxPragmas /\ inPrefix \in BOOLEAN

(* The mappings that the engine finds at each place of the text; no location
   stands for the last place, that before the first pragma is the first's.  *)
StateAt(ps, i) == IF i = 1 THEN 1 ELSE PointFor(ps, i - 1).state
InForce == [i \in 1..pos + 1 |-> diagStates[StateAt(points, i)]]

(* What is said of the diagnostics in a group.                              *)
MappedBy(m, group, to) ==
  [d \in Warnings |-> IF \E i \in DOMAIN group : group[i] = d
                      THEN Info(Kept(m, d, to), TRUE, TRUE) ELSE m[d]]

Scopes == INSTANCE DiagScopes WITH
  inForce <- InForce,
  saved <- [i \in DOMAIN pushed |-> diagStates[pushed[i]]]
=============================================================================
