----------------------------- MODULE DiagScopes -----------------------------
(* What #pragma diagnostic promises: a pragma changes what diagnostics map to
   from its place in the text on, until a pop brings back what was in force at
   the push.  Reading the beginning of the text from an AST file makes no
   difference, but that pushes and pops do not match across its end.        *)
EXTENDS Naturals, Sequences, SequencesExt

CONSTANTS
  CommandLines, \* what the command line may make of the diagnostics
  MappedBy(_, _, _) \* MappedBy(m, group, to): m after a pragma maps group to "to"

VARIABLES
  inForce,      \* inForce[i]: the mappings after the first i - 1 pragmas
  saved         \* the mappings at the pushes not popped yet

Init ==
  /\ saved = <<>>
  /\ \E m \in CommandLines : inForce = <<m>>

Goes(m) == inForce' = Append(inForce, m)

Push == Goes(Last(inForce)) /\ saved' = Append(saved, Last(inForce))

Pop ==
  IF saved = <<>> THEN Goes(Last(inForce)) /\ UNCHANGED saved
  ELSE Goes(Last(saved)) /\ saved' = Front(saved)

Map(group, to) == Goes(MappedBy(Last(inForce), group, to)) /\ UNCHANGED saved

EndOfPrefix == saved' = <<>> /\ UNCHANGED inForce
=============================================================================
