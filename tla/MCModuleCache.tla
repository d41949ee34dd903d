--------------------------- MODULE MCModuleCache ---------------------------
(* Instances of ModuleCache for TLC: module a imports b (and, as a header
   may, itself); c is known to no module map.                               *)
EXTENDS ModuleCache

CONSTANTS a, b, c, p1, p2

Procs == {p1, p2}
Loner == {p1}
AB == {a, b}
ABC == {a, b, c}
None == {}
OnlyC == {c}

Diamond == [m \in Module |-> IF m = a THEN <<a, b, c>>
                             ELSE IF m = b THEN <<c>> ELSE <<>>]
AImportsB == [m \in Module |-> IF m = a THEN <<a, b>> ELSE <<>>]
Cycle == [m \in Module |-> IF m = a THEN <<b>> ELSE <<a>>]
TUs == [p \in Proc |-> IF p = p1 THEN <<a>> ELSE <<b, a>>]

Empty == [m \in Module |-> NoFile]

ColdFaults == {"lock", "timeout", "map", "rename", "crash", "recovered"}

TempFault == {"temp"}
Built(v, i, s) == [ver |-> v, imps |-> i, saw |-> [m \in Module |-> s[m]]]
AllStale == [m \in Module |->
               Built(1, IF m = a THEN {b} ELSE {},
                     [d \in Module |-> IF m = a /\ d = b THEN 1 ELSE 0])]
NoB == [AllStale EXCEPT ![b] = NoFile]
TUStale == [p \in Proc |-> IF p = p1 THEN <<b, a>> ELSE <<b, c>>]
TUBoth == [p \in Proc |-> <<b, a>>]
=============================================================================
