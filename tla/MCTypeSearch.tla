---------------------------- MODULE MCTypeSearch ----------------------------
(* The types of C that two structs, two pointers and an array can form, and a
   function that takes them.                                                *)
EXTENDS TypeSearch, SequencesExt

CONSTANTS double, half, S, T, P, Q, A, F, PF

Of(k, elems) == [kind |-> k, elems |-> elems]

Graph(s, t, p, q, a, f) ==
  [x \in {double, half, S, T, P, Q, A, F, PF} |->
     CASE x \in {double, half} -> Of("scalar", <<>>)
       [] x = S -> Of("struct", s)      [] x = T -> Of("struct", t)
       [] x = P -> Of("pointer", <<p>>) [] x = Q -> Of("pointer", <<q>>)
       [] x = A -> Of("sequential", <<a>>)
       [] x = F -> Of("function", f)    [] x = PF -> Of("pointer", <<F>>)]

(* A type that holds itself does so through a pointer to a struct: only a struct
   can be pointed to before it is complete.                                 *)
Formed(g) ==
  LET Inner(s) == UNION {{g[x].elems[i] : i \in DOMAIN g[x].elems} \ 
                           (IF g[x].kind = "pointer" THEN {S, T} ELSE {}) : x \in s}
      after[n \in Nat] == IF n = 0 THEN DOMAIN g ELSE Inner(after[n - 1])
  IN after[Cardinality(DOMAIN g)] = {}

FormedGraphs ==
  {g \in {Graph(s, t, p, q, a, f) :
            s \in {<<P, Q>>, <<T, A>>, <<A, Q>>},
            t \in {<<Q>>, <<P, double>>, <<half>>, <<Q, A>>},
            p \in {S, T, A}, q \in {S, T, P, half}, a \in {S, double, T, Q},
            f \in {<<P, Q>>, <<T>>}} : Formed(g)}

Use(k, t) == [kind |-> k, type |-> t]
SomeUses ==
  {Use("global", P), Use("argument", S), Use("result", T), Use("FPExt", double),
   Use("operand", PF), Use("varargOperand", Q)}
=============================================================================
