--------------------------- MODULE ModuleImports ---------------------------
(* What importing modules through a shared cache promises: a module becomes
   available only when everything it imports is, and a compilation that loads
   a module has all that the module imports as well.                        *)
CONSTANTS Proc, Module, Needs

VARIABLES
  available,   \* the modules the cache holds
  loaded       \* the modules each process's translation unit has loaded

vars == <<available, loaded>>

Init == available = {} /\ loaded = [p \in Proc |-> {}]

Publish(m) ==
  /\ Needs[m] \subseteq available
  /\ available' = available \cup {m}
  /\ UNCHANGED loaded

Load(p, S) ==
  /\ S \subseteq available
  /\ \A m \in S : Needs[m] \subseteq loaded[p] \cup S
  /\ loaded' = [loaded EXCEPT ![p] = @ \cup S]
  /\ UNCHANGED available

(* A process that dies takes what it has loaded with it.                   *)
Forget(p) ==
  /\ loaded' = [loaded EXCEPT ![p] = {}]
  /\ UNCHANGED available

Next == \/ \E m \in Module : Publish(m)
        \/ \E p \in Proc : Forget(p) \/ \E S \in SUBSET Module : Load(p, S)

Spec == Init /\ [][Next]_vars
=============================================================================
