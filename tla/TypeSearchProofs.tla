-------------------------- MODULE TypeSearchProofs --------------------------
(* Theorems about TypeSearch, for any types, any number of things in a module and
   a stack of any depth.                                                    *)
EXTENDS TypeSearch, TLAPS, WellFoundedInduction, SequenceTheorems, FiniteSetTheorems

-----------------------------------------------------------------------------
(* Numbers and recursion                                                    *)

(* A set of naturals has a least element.                                   *)
LEMMA Smallest ==
  ASSUME NEW S, S \subseteq Nat, S # {}
  PROVE  \E n \in S : \A m \in S : n <= m
<1>1. PICK n \in S : \A m \in S : ~(<<m, n>> \in OpToRel(<, Nat))
  BY NatLessThanWellFounded, WFMin
<1>2. OpToRel(<, Nat) = {ss \in Nat \X Nat : ss[1] < ss[2]}
  BY DEF OpToRel
<1>3. ASSUME NEW m \in S PROVE n <= m
  <2>1. ~(<<m, n>> \in {ss \in Nat \X Nat : ss[1] < ss[2]})
    BY <1>1, <1>2, Zenon
  <2>2. m \in Nat /\ n \in Nat
    OBVIOUS
  <2> QED
    BY <2>1, <2>2
<1> QED
  BY <1>3

(* What holds of a number, and of each next one, holds up to the last.      *)
LEMMA Reaches ==
  ASSUME NEW a \in Nat, NEW c \in Nat, NEW T, a \in T,
         \A i \in a..c - 1 : i \in T => i + 1 \in T
  PROVE  a..c \subseteq T
<1> DEFINE Rest == {i \in a..c : i \notin T}
<1>1. SUFFICES ASSUME Rest # {} PROVE FALSE
  OBVIOUS
<1>2. PICK n \in Rest : \A m \in Rest : n <= m
  <2>1. Rest \subseteq Nat
    OBVIOUS
  <2> HIDE DEF Rest
  <2> QED
    BY <1>1, <2>1, Smallest
<1>3. n \in a..c /\ n \notin T /\ n # a
  OBVIOUS
<1>4. n - 1 \in a..c - 1 /\ (n - 1) + 1 = n
  BY <1>3
<1>5. n - 1 \in T
  <2>1. n - 1 \in a..c /\ ~(n <= n - 1)
    BY <1>3
  <2>2. n - 1 \notin Rest
    <3> HIDE DEF Rest
    <3> QED
      BY <1>2, <2>1
  <2> QED
    BY <2>1, <2>2
<1> QED
  BY <1>3, <1>4, <1>5

(* A step for each number up to N, and the values that the steps lead to.   *)
Advances(G, N, S) == G \in [1..N -> [S -> S]]
Computed(f, G, N, S, base) ==
  f \in [0..N -> S] /\ f[0] = base /\ \A i \in 1..N : f[i] = G[i][f[i - 1]]

(* The values are there up to each number, or there were a least one up to
   which they are not.                                                      *)
LEMMA Recursion ==
  ASSUME NEW N \in Nat, NEW S, NEW base \in S, NEW G, Advances(G, N, S)
  PROVE  \E f : Computed(f, G, N, S, base)
<1> USE DEF Advances, Computed
<1> DEFINE Follows(f, n) == f[0] = base /\ \A i \in 1..n : f[i] = G[i][f[i - 1]]
           Defined(n) == \E f \in [0..n -> S] : Follows(f, n)
           Undefined == {n \in 0..N : ~Defined(n)}
<1>1. Undefined = {}
  <2>1. SUFFICES ASSUME Undefined # {} PROVE FALSE
    OBVIOUS
  <2>2. PICK n \in Undefined : \A m \in Undefined : n <= m
    <3>1. Undefined \subseteq Nat
      <4> HIDE DEF Defined
      <4> QED
        OBVIOUS
    <3> HIDE DEF Undefined
    <3> QED
      BY <2>1, <3>1, Smallest
  <2>3. n \in 0..N /\ ~Defined(n)
    <3> HIDE DEF Defined
    <3> QED
      BY <2>2
  <2>4. CASE n = 0
    <3> DEFINE f == [i \in 0..0 |-> base]
    <3>1. f \in [0..0 -> S] /\ Follows(f, 0)
      OBVIOUS
    <3> QED
      BY <2>3, <2>4, <3>1
  <2>5. CASE n # 0
    <3>1. n - 1 \in 0..N /\ ~(n <= n - 1)
      BY <2>3, <2>5
    <3>2. Defined(n - 1)
      <4> HIDE DEF Defined
      <4> QED
        BY <2>2, <3>1
    <3>3. PICK f \in [0..n - 1 -> S] : Follows(f, n - 1)
      BY <3>2
    <3> DEFINE v == G[n][f[n - 1]]
               g == [i \in 0..n |-> IF i = n THEN v ELSE f[i]]
    <3>4. v \in S
      BY <2>3, <2>5, <3>1
    <3>5. g \in [0..n -> S]
      BY <2>3, <2>5, <3>4
    <3>6. g[0] = base
      BY <2>3, <2>5, <3>3
    <3>7. ASSUME NEW i \in 1..n PROVE g[i] = G[i][g[i - 1]]
      <4>1. i - 1 \in 0..n /\ i - 1 # n /\ g[i - 1] = f[i - 1]
        BY <2>3
      <4>2. CASE i = n
        BY <2>3, <4>1, <4>2
      <4>3. CASE i # n
        <5>1. i \in 1..n - 1 /\ g[i] = f[i]
          BY <2>3, <4>3
        <5>2. f[i] = G[i][f[i - 1]]
          BY <3>3, <5>1
        <5> HIDE DEF g
        <5> QED
          BY <4>1, <5>1, <5>2
      <4> QED
        BY <4>2, <4>3
    <3>8. Follows(g, n)
      <4> HIDE DEF g
      <4> QED
        BY <3>6, <3>7
    <3> HIDE DEF g, Follows
    <3> QED
      BY <2>3, <3>5, <3>8
  <2> QED
    BY <2>4, <2>5
<1>2. Defined(N)
  <2> HIDE DEF Defined
  <2> QED
    BY <1>1
<1> QED
  BY <1>2

(* And whatever such a function is called, its values have the type.        *)
LEMMA RecursionTyped ==
  ASSUME NEW N \in Nat, NEW S, NEW base \in S, NEW f,
         f[0] = base, \A i \in 1..N : f[i - 1] \in S => f[i] \in S
  PROVE  \A i \in 0..N : f[i] \in S
<1> DEFINE Untyped == {i \in 0..N : f[i] \notin S}
<1>1. SUFFICES ASSUME Untyped # {} PROVE FALSE
  OBVIOUS
<1>2. PICK n \in Untyped : \A m \in Untyped : n <= m
  <2>1. Untyped \subseteq Nat
    OBVIOUS
  <2> HIDE DEF Untyped
  <2> QED
    BY <1>1, <2>1, Smallest
<1>3. n \in 1..N /\ f[n] \notin S
  OBVIOUS
<1>4. n - 1 \in 0..N /\ n - 1 \notin Untyped
  <2>1. n - 1 \in 0..N /\ ~(n <= n - 1)
    BY <1>3
  <2> HIDE DEF Untyped
  <2> QED
    BY <1>2, <2>1
<1> QED
  BY <1>3, <1>4

-----------------------------------------------------------------------------
(* What is within a type                                                    *)

(* The types of a module, and the ones that a type leads to.                *)
IsGraph(g) ==
  /\ IsFiniteSet(DOMAIN g)
  /\ \A t \in DOMAIN g :
       /\ g[t].kind \in Kinds /\ g[t].elems \in Seq(DOMAIN g)
       /\ g[t].kind = "scalar" => g[t].elems = <<>>
       /\ g[t].kind \in {"sequential", "pointer"} => Len(g[t].elems) = 1
Elements(g, t) == {g[t].elems[i] : i \in 1..Len(g[t].elems)}
LeadsTo(g, K, t) == IF g[t].kind \in K THEN Elements(g, t) ELSE {}

(* Elements are types.                                                      *)
LEMMA ElementsTyped ==
  ASSUME NEW g, IsGraph(g), NEW t \in DOMAIN g
  PROVE  /\ Elements(g, t) \subseteq DOMAIN g /\ ToSet(g[t].elems) = Elements(g, t)
         /\ Len(g[t].elems) \in Nat
         /\ \A i \in 1..Len(g[t].elems) : g[t].elems[i] \in DOMAIN g
<1>1. g[t].elems \in Seq(DOMAIN g)
  BY DEF IsGraph
<1>2. Len(g[t].elems) \in Nat /\ DOMAIN g[t].elems = 1..Len(g[t].elems)
  BY <1>1, LenProperties
<1>3. \A i \in 1..Len(g[t].elems) : g[t].elems[i] \in DOMAIN g
  BY <1>1, ElementOfSeq
<1> QED
  BY <1>2, <1>3 DEF Elements, ToSet

(* The sets that Within goes through.                                       *)
Grown(g, K, s) == s \cup UNION {LeadsTo(g, K, t) : t \in s}
Grows(g, K, ty, r, N) ==
  /\ r[0] = {ty} /\ \A i \in 1..N : r[i] = Grown(g, K, r[i - 1])
  /\ \A i \in 0..N : r[i] \subseteq DOMAIN g

(* What is within reach of a type is what the steps of the closure come to. *)
LEMMA WithinGrows ==
  ASSUME NEW g, IsGraph(g), NEW K, NEW ty \in DOMAIN g
  PROVE  /\ Cardinality(DOMAIN g) \in Nat
         /\ \E r : /\ Grows(g, K, ty, r, Cardinality(DOMAIN g))
                   /\ Within(g, ty, K) = r[Cardinality(DOMAIN g)]
<1> DEFINE N == Cardinality(DOMAIN g)
           S == SUBSET DOMAIN g
           More(s) == s \cup UNION {ToSet(g[t].elems) : t \in {u \in s : g[u].kind \in K}}
           G == [i \in 1..N |-> [s \in S |-> More(s)]]
           Computes(r) == r = [n \in 0..N |-> IF n = 0 THEN {ty} ELSE More(r[n - 1])]
           reach == CHOOSE r : Computes(r)
<1>1. N \in Nat
  BY FS_CardinalityType DEF IsGraph
<1>2. Within(g, ty, K) = reach[N]
  BY DEF Within
<1>3. ASSUME NEW s \in S PROVE More(s) = Grown(g, K, s) /\ More(s) \in S
  <2>1. \A t \in s : ToSet(g[t].elems) = Elements(g, t) /\ Elements(g, t) \subseteq DOMAIN g
    BY ElementsTyped
  <2>2. \A x : x \in More(s) <=> x \in Grown(g, K, s)
    BY <2>1 DEF Grown, LeadsTo
  <2>3. More(s) = Grown(g, K, s)
    <3> HIDE DEF More
    <3> QED
      BY <2>2
  <2>4. Grown(g, K, s) \in S
    BY <2>1 DEF Grown, LeadsTo
  <2> HIDE DEF More
  <2> QED
    BY <2>3, <2>4
<1> HIDE DEF N, S, More
<1>4. {ty} \in S
  BY DEF S
<1>5. \E r : Computes(r)
  <2>1. Advances(G, N, S)
    <3>1. \A i \in 1..N : [s \in S |-> More(s)] \in [S -> S]
      BY <1>3
    <3> QED
      BY <3>1 DEF Advances
  <2>2. \A i \in 1..N, s \in S : G[i][s] = More(s)
    OBVIOUS
  <2> HIDE DEF G, Computes, reach
  <2>3. PICK r : Computed(r, G, N, S, {ty})
    BY <1>1, <1>4, <2>1, Recursion
  <2>4. /\ r \in [0..N -> S] /\ r[0] = {ty}
        /\ \A i \in 1..N : r[i] = G[i][r[i - 1]]
    BY <2>3 DEF Computed
  <2>5. \A i \in 1..N : i - 1 \in 0..N /\ r[i - 1] \in S
    BY <1>1, <2>4
  <2>6. \A i \in 1..N : r[i] = More(r[i - 1])
    BY <2>2, <2>4, <2>5
  <2>7. Computes(r)
    BY <1>1, <2>4, <2>6 DEF Computes
  <2> QED
    BY <2>7
<1>6. Computes(reach)
  <2> HIDE DEF Computes
  <2> QED
    BY <1>5
<1>7. reach[0] = {ty} /\ \A i \in 1..N : reach[i] = More(reach[i - 1])
  <2> HIDE DEF reach
  <2>1. \A n \in 0..N : reach[n] = IF n = 0 THEN {ty} ELSE More(reach[n - 1])
    BY <1>6
  <2> QED
    BY <1>1, <2>1
<1> HIDE DEF reach
<1>8. \A i \in 0..N : reach[i] \in S
  <2>1. \A i \in 1..N : reach[i - 1] \in S => reach[i] \in S
    BY <1>3, <1>7
  <2> QED
    BY <1>1, <1>4, <1>7, <2>1, RecursionTyped
<1>9. \A i \in 1..N : reach[i] = Grown(g, K, reach[i - 1])
  <2>1. \A i \in 1..N : i - 1 \in 0..N
    BY <1>1
  <2> QED
    BY <1>3, <1>7, <1>8, <2>1
<1>10. Grows(g, K, ty, reach, N)
  BY <1>7, <1>8, <1>9 DEF Grows, S
<1> QED
  BY <1>1, <1>2, <1>10 DEF N

(* A set with the type and with all that its members lead to has all that is
   within the type.                                                         *)
LEMMA WithinLeast ==
  ASSUME NEW g, IsGraph(g), NEW K, NEW ty \in DOMAIN g,
         NEW C, ty \in C, \A t \in C : LeadsTo(g, K, t) \subseteq C
  PROVE  Within(g, ty, K) \subseteq C
<1> DEFINE N == Cardinality(DOMAIN g)
<1>1. N \in Nat
  BY WithinGrows
<1>2. PICK r : Grows(g, K, ty, r, N) /\ Within(g, ty, K) = r[N]
  BY WithinGrows
<1> HIDE DEF N
<1>3. \A i \in 1..N : r[i - 1] \in SUBSET C => r[i] \in SUBSET C
  BY <1>2 DEF Grows, Grown
<1>4. r[0] \in SUBSET C
  BY <1>2 DEF Grows
<1>5. {ty} \in SUBSET C
  OBVIOUS
<1>6. \A i \in 0..N : r[i] \in SUBSET C
  BY <1>1, <1>2, <1>3, <1>5, RecursionTyped DEF Grows
<1>7. N \in 0..N
  BY <1>1
<1> QED
  BY <1>2, <1>6, <1>7

(* What is within a type has all that its members lead to: a set of types that
   grew at each step would have more members than there are types.          *)
LEMMA WithinClosed ==
  ASSUME NEW g, IsGraph(g), NEW K, NEW ty \in DOMAIN g
  PROVE  /\ ty \in Within(g, ty, K) /\ Within(g, ty, K) \subseteq DOMAIN g
         /\ \A t \in Within(g, ty, K) : LeadsTo(g, K, t) \subseteq Within(g, ty, K)
<1> DEFINE N == Cardinality(DOMAIN g)
           W == Within(g, ty, K)
<1>1. N \in Nat
  BY WithinGrows
<1>2. PICK r : Grows(g, K, ty, r, N) /\ W = r[N]
  BY WithinGrows
<1>3. IsFiniteSet(DOMAIN g)
  BY DEF IsGraph
<1>4. /\ r[0] = {ty} /\ \A i \in 1..N : r[i] = Grown(g, K, r[i - 1])
      /\ \A i \in 0..N : r[i] \subseteq DOMAIN g
  BY <1>2 DEF Grows
<1>5. \A i \in 0..N : IsFiniteSet(r[i]) /\ Cardinality(r[i]) \in Nat /\ Cardinality(r[i]) <= N
  BY <1>3, <1>4, FS_Subset, FS_CardinalityType
<1> HIDE DEF N, W
<1>6. \A i \in 1..N : r[i - 1] \subseteq r[i] /\ i - 1 \in 0..N
  BY <1>1, <1>4 DEF Grown
<1>7. \E m \in 1..N : r[m] = r[m - 1]
  <2>1. SUFFICES ASSUME \A m \in 1..N : r[m] # r[m - 1] PROVE FALSE
    OBVIOUS
  <2> DEFINE T == {i \in 0..N : Cardinality(r[i]) >= i + 1}
  <2>2. 0 \in T
    <3>1. Cardinality({ty}) = 1
      BY FS_Singleton
    <3> QED
      BY <1>1, <1>4, <3>1
  <2>3. ASSUME NEW i \in 0..N - 1, i \in T PROVE i + 1 \in T
    <3>1. i + 1 \in 1..N /\ (i + 1) - 1 = i /\ i \in 0..N /\ i + 1 \in 0..N
      BY <1>1
    <3>2. r[i] \subseteq r[i + 1] /\ r[i + 1] # r[i]
      BY <1>6, <2>1, <3>1
    <3>3. Cardinality(r[i]) # Cardinality(r[i + 1]) /\ Cardinality(r[i]) <= Cardinality(r[i + 1])
      BY <1>5, <3>1, <3>2, FS_Subset
    <3> QED
      BY <1>5, <2>3, <3>1, <3>3
  <2>4. 0..N \subseteq T
    <3> HIDE DEF T
    <3> QED
      BY <1>1, <2>2, <2>3, Reaches
  <2>5. N \in 0..N
    BY <1>1
  <2> QED
    BY <1>1, <1>5, <2>4, <2>5
<1>8. PICK m \in 1..N : r[m] = r[m - 1]
  BY <1>7
<1>9. r[N] = Grown(g, K, r[N])
  <2> DEFINE T == {i \in m..N : r[i] = Grown(g, K, r[i])}
  <2>1. m \in T
    BY <1>1, <1>4, <1>8
  <2>2. ASSUME NEW i \in m..N - 1, i \in T PROVE i + 1 \in T
    <3>1. i + 1 \in 1..N /\ (i + 1) - 1 = i /\ i + 1 \in m..N
      BY <1>1
    <3>2. r[i + 1] = r[i]
      BY <1>4, <2>2, <3>1
    <3> QED
      BY <2>2, <3>1, <3>2
  <2>3. m..N \subseteq T
    <3> HIDE DEF T
    <3> QED
      BY <1>1, <2>1, <2>2, Reaches
  <2>4. N \in m..N
    BY <1>1
  <2> QED
    BY <2>3, <2>4
<1>10. ty \in r[N]
  <2> DEFINE T == {i \in 0..N : ty \in r[i]}
  <2>1. 0 \in T
    BY <1>1, <1>4
  <2>2. ASSUME NEW i \in 0..N - 1, i \in T PROVE i + 1 \in T
    <3>1. i + 1 \in 1..N /\ (i + 1) - 1 = i /\ i + 1 \in 0..N
      BY <1>1
    <3> QED
      BY <1>6, <2>2, <3>1
  <2>3. 0..N \subseteq T
    <3> HIDE DEF T
    <3> QED
      BY <1>1, <2>1, <2>2, Reaches
  <2>4. N \in 0..N
    BY <1>1
  <2> QED
    BY <2>3, <2>4
<1>11. r[N] \subseteq DOMAIN g
  BY <1>1, <1>4
<1>12. \A t \in r[N] : LeadsTo(g, K, t) \subseteq Grown(g, K, r[N])
  BY DEF Grown
<1> QED
  BY <1>2, <1>9, <1>10, <1>11, <1>12 DEF W

-----------------------------------------------------------------------------
(* The calls                                                                *)

(* Sequences without their last element, or with another one.               *)
LEMMA FrontFacts ==
  ASSUME NEW S, NEW s \in Seq(S), s # <<>>
  PROVE  /\ Len(s) \in Nat /\ Len(s) >= 1 /\ Last(s) = s[Len(s)] /\ Last(s) \in S
         /\ Front(s) \in Seq(S) /\ Len(Front(s)) = Len(s) - 1
         /\ \A i \in 1..Len(s) : s[i] \in S
         /\ \A i \in 1..Len(s) - 1 : Front(s)[i] = s[i]
<1> DEFINE n == Len(s)
           p == SubSeq(s, 1, n - 1)
<1>1. n \in Nat /\ n # 0
  BY LenProperties, EmptySeq
<1>2. \A i \in 1..n : s[i] \in S
  BY ElementOfSeq
<1>3. Front(s) = p /\ Last(s) = s[n]
  BY DEF Front, Last
<1> HIDE DEF n
<1>4. \A i \in 1..n - 1 : s[i] \in S
  BY <1>1, <1>2
<1>5. /\ p \in Seq(S)
      /\ Len(p) = IF 1 <= n - 1 THEN n - 1 - 1 + 1 ELSE 0
      /\ \A i \in 1..n - 1 - 1 + 1 : p[i] = s[1 + i - 1]
  <2>1. 1 \in Int /\ n - 1 \in Int
    BY <1>1
  <2> QED
    BY <1>4, <2>1, SubSeqProperties
<1> HIDE DEF p
<1>6. Len(p) = n - 1
  BY <1>1, <1>5
<1>7. \A i \in 1..n - 1 : p[i] = s[i]
  <2>1. \A i \in 1..n - 1 : i \in 1..n - 1 - 1 + 1 /\ 1 + i - 1 = i
    BY <1>1
  <2> QED
    BY <1>5, <2>1
<1>8. n \in 1..n /\ n >= 1
  BY <1>1
<1>9. n = Len(s)
  BY DEF n
<1> QED
  BY <1>1, <1>2, <1>3, <1>5, <1>6, <1>7, <1>8, <1>9

(* A stack whose top is replaced.                                           *)
LEMMA TopReplaced ==
  ASSUME NEW S, NEW s \in Seq(S), s # <<>>, NEW f \in S
  PROVE  LET r == Append(Front(s), f)
         IN /\ r \in Seq(S) /\ r # <<>> /\ Len(r) = Len(s) /\ r[Len(s)] = f
            /\ \A i \in 1..Len(s) - 1 : r[i] = s[i]
<1>1. /\ Front(s) \in Seq(S) /\ Len(Front(s)) = Len(s) - 1 /\ Len(s) \in Nat
      /\ \A i \in 1..Len(s) - 1 : Front(s)[i] = s[i]
  BY FrontFacts
<1>2. /\ Append(Front(s), f) \in Seq(S) /\ Append(Front(s), f) # <<>>
      /\ Len(Append(Front(s), f)) = Len(Front(s)) + 1
      /\ \A i \in 1..Len(Front(s)) : Append(Front(s), f)[i] = Front(s)[i]
      /\ Append(Front(s), f)[Len(Front(s)) + 1] = f
  BY <1>1, AppendProperties
<1> QED
  BY <1>1, <1>2

IsLonger(r, s, f, h) == r = Front(s) \o <<f, h>>

(* A stack whose top is replaced and that grows by one.                     *)
LEMMA TopCalls ==
  ASSUME NEW S, NEW s \in Seq(S), s # <<>>, NEW f \in S, NEW h \in S,
         NEW r, IsLonger(r, s, f, h)
  PROVE  /\ r \in Seq(S) /\ r # <<>> /\ Len(r) = Len(s) + 1
         /\ r[Len(s)] = f /\ r[Len(s) + 1] = h
         /\ \A i \in 1..Len(s) - 1 : r[i] = s[i]
<1> DEFINE p == Front(s)
           q == <<f, h>>
<1>1. /\ p \in Seq(S) /\ Len(p) = Len(s) - 1 /\ Len(s) \in Nat /\ Len(s) >= 1
      /\ \A i \in 1..Len(s) - 1 : p[i] = s[i]
  BY FrontFacts
<1>2. q \in Seq(S) /\ Len(q) = 2 /\ q[1] = f /\ q[2] = h
  OBVIOUS
<1> HIDE DEF p, q
<1>3. /\ p \o q \in Seq(S) /\ Len(p \o q) = Len(p) + Len(q)
      /\ \A i \in 1..Len(p) + Len(q) : (p \o q)[i] = IF i <= Len(p) THEN p[i] ELSE q[i - Len(p)]
  BY <1>1, <1>2, ConcatProperties
<1>4. Len(p \o q) = Len(s) + 1 /\ p \o q # <<>>
  <2>1. Len(p \o q) = Len(s) + 1
    BY <1>1, <1>2, <1>3
  <2> QED
    BY <1>1, <1>3, <2>1, EmptySeq
<1>5. (p \o q)[Len(s)] = f
  <2>1. Len(s) \in 1..Len(p) + Len(q) /\ ~(Len(s) <= Len(p)) /\ Len(s) - Len(p) = 1
    BY <1>1, <1>2
  <2> QED
    BY <1>2, <1>3, <2>1
<1>6. (p \o q)[Len(s) + 1] = h
  <2>1. /\ Len(s) + 1 \in 1..Len(p) + Len(q) /\ ~(Len(s) + 1 <= Len(p))
        /\ Len(s) + 1 - Len(p) = 2
    BY <1>1, <1>2
  <2> QED
    BY <1>2, <1>3, <2>1
<1>7. \A i \in 1..Len(s) - 1 : (p \o q)[i] = s[i]
  <2>1. \A i \in 1..Len(s) - 1 : i \in 1..Len(p) + Len(q) /\ i <= Len(p)
    BY <1>1, <1>2
  <2> QED
    BY <1>1, <1>3, <2>1
<1>8. r = p \o q
  BY DEF IsLonger, p, q
<1> QED
  BY <1>3, <1>4, <1>5, <1>6, <1>7, <1>8

(* The calls of a search and their lists.  A call has the list of its caller or
   the next one, the last list is that of the last call, and what a call goes
   through the elements of has some and is on its list.                     *)
Frames(g) == [type : DOMAIN g, next : Nat, list : Nat]

FrameOK(g, l, f) ==
  /\ f \in Frames(g) /\ f.list \in 1..Len(l)
  /\ f.next <= Len(g[f.type].elems) + 1
  /\ f.next > 0 => f.type \in l[f.list] /\ g[f.type].kind \in {"struct", "function"}

Shaped(g, s, l) ==
  /\ s \in Seq(Frames(g)) /\ s # <<>> /\ l \in Seq(SUBSET DOMAIN g)
  /\ s[1].list = 1 /\ s[Len(s)].list = Len(l)
  /\ \A i \in 1..Len(s) : FrameOK(g, l, s[i])
  /\ \A i, j \in 1..Len(s) : i <= j => s[i].list <= s[j].list
  /\ \A i \in 1..Len(s) - 1 : s[i + 1].list <= s[i].list + 1

(* For each list the types that have been, or are being, searched by the calls
   that have it, or had lists of their own which are gone: all of them are
   within the type the search began with, all that they lead to is there too
   unless they are the type of a call, and none is the one searched for unless
   the last call has just begun with it.                                    *)
HasFrame(s, L, t) == \E i \in 1..Len(s) : s[i].type = t /\ s[i].list = L

Explored(g, s, l, K, target, root, D) ==
  /\ D \in [1..Len(l) -> SUBSET Within(g, root, K)] /\ root \in D[1]
  /\ \A L \in 1..Len(l) : l[L] \subseteq D[L]
  /\ \A i \in 1..Len(s) : s[i].type \in D[s[i].list]
  /\ \A L \in 1..Len(l) : \A t \in D[L] : LeadsTo(g, K, t) \subseteq D[L] \/ HasFrame(s, L, t)
  /\ \A i \in 1..Len(s) : \A j \in 1..s[i].next - 1 :
       \/ g[s[i].type].elems[j] \in D[s[i].list]
       \/ i < Len(s) /\ g[s[i].type].elems[j] \in D[s[i + 1].list]
  /\ \A L \in 1..Len(l) : target \in D[L] => s[Len(s)].next = 0 /\ s[Len(s)].type = target

Searched(g, s, l, K, target, root) ==
  Shaped(g, s, l) /\ \E D : Explored(g, s, l, K, target, root, D)

(* A search begins.                                                         *)
LEMMA SearchBegins ==
  ASSUME NEW g, IsGraph(g), NEW K, NEW target, NEW root \in DOMAIN g
  PROVE  Searched(g, <<Frame(root, 1)>>, << {} >>, K, target, root)
<1> DEFINE f == Frame(root, 1)
           s == <<f>>
           l == << {} >>
           D == [L \in 1..1 |-> {root}]
<1>1. /\ f \in Frames(g) /\ f.type = root /\ f.next = 0 /\ f.list = 1
  BY DEF Frame, Frames
<1>2. s \in Seq(Frames(g)) /\ Len(s) = 1 /\ s[1] = f /\ s # <<>>
  <2> HIDE DEF f
  <2> QED
    BY <1>1
<1>3. l \in Seq(SUBSET DOMAIN g) /\ Len(l) = 1 /\ l[1] = {}
  OBVIOUS
<1>4. root \in Within(g, root, K)
  BY WithinClosed
<1>5. D \in [1..1 -> SUBSET Within(g, root, K)] /\ D[1] = {root}
  BY <1>4
<1>6. Len(g[root].elems) \in Nat
  BY ElementsTyped
<1> HIDE DEF f, s, l, D
<1>7. \A i \in 1..Len(s) : i = 1 /\ s[i] = f
  BY <1>2
<1>8. FrameOK(g, l, f)
  BY <1>1, <1>3, <1>6 DEF FrameOK
<1>9. Shaped(g, s, l)
  BY <1>1, <1>2, <1>3, <1>7, <1>8 DEF Shaped
<1>10. HasFrame(s, 1, root)
  BY <1>1, <1>2 DEF HasFrame
<1>11. Explored(g, s, l, K, target, root, D)
  <2>1. \A L \in 1..Len(l) : L = 1
    BY <1>3
  <2>2. \A t \in D[1] : t = root
    BY <1>5
  <2>3. \A L \in 1..Len(l) : \A t \in D[L] : LeadsTo(g, K, t) \subseteq D[L] \/ HasFrame(s, L, t)
    BY <2>1, <2>2, <1>10
  <2> QED
    BY <1>1, <1>2, <1>3, <1>5, <1>7, <2>1, <2>2, <2>3 DEF Explored
<1> QED
  BY <1>9, <1>11 DEF Searched, f, s, l

(* What the shape of the calls says.                                        *)
LEMMA ShapeFacts ==
  ASSUME NEW g, IsGraph(g), NEW s, NEW l, Shaped(g, s, l)
  PROVE  /\ s \in Seq(Frames(g)) /\ Len(s) \in Nat /\ Len(s) >= 1 /\ Last(s) = s[Len(s)]
         /\ l \in Seq(SUBSET DOMAIN g) /\ Len(l) \in Nat /\ Len(l) >= 1 /\ l # <<>>
         /\ \A L \in 1..Len(l) : l[L] \in SUBSET DOMAIN g
         /\ \A i \in 1..Len(s) :
              /\ s[i] \in Frames(g) /\ s[i].type \in DOMAIN g /\ s[i].next \in Nat
              /\ s[i].list \in 1..Len(l) /\ Len(g[s[i].type].elems) \in Nat
<1>1. /\ s \in Seq(Frames(g)) /\ s # <<>> /\ l \in Seq(SUBSET DOMAIN g)
      /\ \A i \in 1..Len(s) : FrameOK(g, l, s[i])
  BY DEF Shaped
<1>2. Len(s) \in Nat /\ Len(s) >= 1 /\ Last(s) = s[Len(s)]
  BY <1>1, FrontFacts
<1>3. Len(l) \in Nat /\ \A L \in 1..Len(l) : l[L] \in SUBSET DOMAIN g
  BY <1>1, LenProperties, ElementOfSeq
<1>4. ASSUME NEW i \in 1..Len(s)
      PROVE  /\ s[i] \in Frames(g) /\ s[i].type \in DOMAIN g /\ s[i].next \in Nat
             /\ s[i].list \in 1..Len(l) /\ Len(g[s[i].type].elems) \in Nat
  <2>1. s[i] \in Frames(g) /\ s[i].list \in 1..Len(l)
    BY <1>1 DEF FrameOK
  <2>2. s[i].type \in DOMAIN g /\ s[i].next \in Nat
    BY <2>1 DEF Frames
  <2>3. Len(g[s[i].type].elems) \in Nat
    BY <2>2, ElementsTyped
  <2> QED
    BY <2>1, <2>2, <2>3
<1>5. Len(l) >= 1
  <2>1. 1 \in 1..Len(s)
    BY <1>2
  <2>2. s[1].list \in 1..Len(l)
    BY <1>4, <2>1
  <2> QED
    BY <1>3, <2>2
<1>6. l # <<>>
  BY <1>1, <1>5, EmptySeq
<1> QED
  BY <1>1, <1>2, <1>3, <1>4, <1>5, <1>6

(* The last call has become one for the element it is passed on to, or goes
   through its elements now.                                                *)
LEMMA SearchMoves ==
  ASSUME NEW g, IsGraph(g), NEW K, NEW target, NEW root \in DOMAIN g, NEW s, NEW l,
         Searched(g, s, l, K, target, root),
         NEW f, NEW m \in Seq(SUBSET DOMAIN g), FrameOK(g, m, f),
         s[Len(s)].type # target,
         f.list = s[Len(s)].list, f.next = 0 \/ (f.next = 1 /\ f.type # target),
         f.type = s[Len(s)].type \/ LeadsTo(g, K, s[Len(s)].type) = {f.type},
         Len(m) = Len(l), \A L \in 1..Len(l) : l[L] \subseteq m[L],
         \A L \in 1..Len(l) : m[L] \subseteq l[L] \/ (L = Len(l) /\ m[L] \subseteq l[L] \cup {s[Len(s)].type})
  PROVE  Searched(g, Append(Front(s), f), m, K, target, root)
<1> DEFINE n == Len(s)
           N == Len(l)
           t == s[Len(s)].type
           r == Append(Front(s), f)
<1>1. Shaped(g, s, l)
  BY DEF Searched
<1>2. PICK D : Explored(g, s, l, K, target, root, D)
  BY DEF Searched
<1>3. /\ s \in Seq(Frames(g)) /\ n \in Nat /\ n >= 1 /\ s # <<>>
      /\ l \in Seq(SUBSET DOMAIN g) /\ N \in Nat /\ N >= 1
      /\ \A i \in 1..n : /\ s[i] \in Frames(g) /\ s[i].type \in DOMAIN g /\ s[i].next \in Nat
                         /\ s[i].list \in 1..N /\ Len(g[s[i].type].elems) \in Nat
  <2>1. s # <<>>
    BY <1>1 DEF Shaped
  <2> QED
    BY <1>1, <2>1, ShapeFacts
<1>4. f \in Frames(g)
  BY DEF FrameOK
<1>5. /\ r \in Seq(Frames(g)) /\ r # <<>> /\ Len(r) = n /\ r[n] = f
      /\ \A i \in 1..n - 1 : r[i] = s[i]
  BY <1>3, <1>4, TopReplaced
<1>6. n \in 1..n /\ N \in 1..N /\ 1 \in 1..n /\ 1 \in 1..N /\ \A i \in 1..n : i = n \/ i \in 1..n - 1
  BY <1>3
<1>7. /\ s[1].list = 1 /\ s[n].list = N
      /\ \A i \in 1..n : FrameOK(g, l, s[i])
      /\ \A i, j \in 1..n : i <= j => s[i].list <= s[j].list
      /\ \A i \in 1..n - 1 : s[i + 1].list <= s[i].list + 1
  BY <1>1 DEF Shaped
<1>8. Len(m) = N /\ f.list = N
  BY <1>7
<1>9. \A L \in 1..N : l[L] \subseteq m[L] /\ (m[L] \subseteq l[L] \/ (L = N /\ m[L] \subseteq l[L] \cup {t}))
  OBVIOUS
<1>10. /\ D \in [1..N -> SUBSET Within(g, root, K)] /\ root \in D[1]
       /\ \A L \in 1..N : l[L] \subseteq D[L]
       /\ \A i \in 1..n : s[i].type \in D[s[i].list]
       /\ \A L \in 1..N : \A u \in D[L] : LeadsTo(g, K, u) \subseteq D[L] \/ HasFrame(s, L, u)
       /\ \A i \in 1..n : \A j \in 1..s[i].next - 1 :
            \/ g[s[i].type].elems[j] \in D[s[i].list]
            \/ i < n /\ g[s[i].type].elems[j] \in D[s[i + 1].list]
       /\ \A L \in 1..N : target \in D[L] => s[n].next = 0 /\ s[n].type = target
  BY <1>2 DEF Explored
<1>11. t # target /\ (f.type = t \/ LeadsTo(g, K, t) = {f.type})
  OBVIOUS
<1> DEFINE E == [L \in 1..N |-> IF L = N THEN D[L] \cup {f.type} ELSE D[L]]
<1>12. f.type \in DOMAIN g /\ f.next \in Nat
  BY <1>4 DEF Frames
<1>13. t \in D[N]
  BY <1>6, <1>7, <1>10
<1> HIDE DEF n, N, t, r
<1>14. f.type \in Within(g, root, K)
  <2>1. t \in Within(g, root, K)
    BY <1>6, <1>10, <1>13
  <2>2. LeadsTo(g, K, t) \subseteq Within(g, root, K)
    BY <2>1, WithinClosed
  <2> QED
    BY <1>11, <2>1, <2>2
<1>15. E \in [1..N -> SUBSET Within(g, root, K)]
  BY <1>10, <1>14
<1>16. \A L \in 1..N : D[L] \subseteq E[L]
  OBVIOUS
<1>17. E[N] = D[N] \cup {f.type} /\ \A L \in 1..N : L # N => E[L] = D[L]
  BY <1>6
<1> HIDE DEF E
<1>18. ASSUME NEW i \in 1..n PROVE r[i].list = s[i].list /\ FrameOK(g, m, r[i])
  <2>1. CASE i = n
    BY <1>5, <1>7, <1>8, <2>1
  <2>2. CASE i # n
    <3>1. r[i] = s[i] /\ FrameOK(g, l, s[i]) /\ s[i].list \in 1..N
      BY <1>3, <1>5, <1>6, <1>7, <2>2
    <3>2. l[s[i].list] \subseteq m[s[i].list]
      BY <1>9, <3>1
    <3>3. Len(l) = N
      BY DEF N
    <3> QED
      BY <1>8, <3>1, <3>2, <3>3 DEF FrameOK
  <2> QED
    BY <2>1, <2>2
<1>19. Shaped(g, r, m)
  <2>1. r[1].list = 1 /\ r[n].list = N
    BY <1>6, <1>7, <1>18
  <2>2. \A i, j \in 1..n : i <= j => r[i].list <= r[j].list
    BY <1>7, <1>18
  <2>3. \A i \in 1..n - 1 : r[i + 1].list <= r[i].list + 1
    <3>1. \A i \in 1..n - 1 : i \in 1..n /\ i + 1 \in 1..n
      BY <1>3
    <3> QED
      BY <1>7, <1>18, <3>1
  <2> QED
    BY <1>5, <1>8, <1>18, <2>1, <2>2, <2>3 DEF Shaped
<1>20. \A L \in 1..N : m[L] \subseteq E[L]
  <2>1. \A L \in 1..N : l[L] \subseteq E[L]
    BY <1>10, <1>16
  <2>2. t \in E[N]
    BY <1>13, <1>17
  <2> QED
    BY <1>9, <2>1, <2>2
<1>21. ASSUME NEW i \in 1..n PROVE r[i].type \in E[r[i].list]
  <2>1. CASE i = n
    BY <1>5, <1>8, <1>17, <2>1
  <2>2. CASE i # n
    BY <1>3, <1>5, <1>6, <1>10, <1>16, <2>2
  <2> QED
    BY <2>1, <2>2
<1>22. ASSUME NEW L \in 1..N, NEW u \in E[L]
       PROVE  LeadsTo(g, K, u) \subseteq E[L] \/ HasFrame(r, L, u)
  <2>1. CASE u \in D[L] /\ LeadsTo(g, K, u) \subseteq D[L]
    BY <1>16, <2>1
  <2>2. CASE L = N /\ u = f.type
    BY <1>5, <1>6, <1>8, <2>2 DEF HasFrame
  <2>3. CASE u \in D[L] /\ HasFrame(s, L, u)
    <3>1. PICK i \in 1..n : s[i].type = u /\ s[i].list = L
      BY <2>3 DEF HasFrame, n
    <3>2. CASE i # n
      <4>1. r[i] = s[i]
        BY <1>5, <1>6, <3>2
      <4> QED
        BY <1>5, <3>1, <4>1 DEF HasFrame
    <3>3. CASE i = n
      <4>1. u = t /\ L = N
        BY <1>7, <3>1, <3>3 DEF t, n
      <4>2. CASE f.type = t
        BY <2>2, <4>1, <4>2
      <4>3. CASE LeadsTo(g, K, t) = {f.type}
        BY <1>17, <4>1, <4>3
      <4> QED
        BY <1>11, <4>2, <4>3
    <3> QED
      BY <3>2, <3>3
  <2>4. u \in D[L] \/ (L = N /\ u = f.type)
    BY <1>17
  <2> QED
    BY <1>10, <2>1, <2>2, <2>3, <2>4
<1>23. ASSUME NEW i \in 1..n, NEW j \in 1..r[i].next - 1
       PROVE  \/ g[r[i].type].elems[j] \in E[r[i].list]
              \/ i < n /\ g[r[i].type].elems[j] \in E[r[i + 1].list]
  <2>1. CASE i = n
    <3>1. f.next = 0 \/ f.next = 1
      OBVIOUS
    <3> QED
      BY <1>5, <2>1, <3>1
  <2>2. CASE i # n
    <3>1. r[i] = s[i] /\ i + 1 \in 1..n /\ i < n
      BY <1>3, <1>5, <1>6, <2>2
    <3>2. r[i + 1].list = s[i + 1].list /\ s[i + 1].list \in 1..N /\ s[i].list \in 1..N
      BY <1>3, <1>18, <3>1
    <3>3. D[s[i].list] \subseteq E[s[i].list] /\ D[s[i + 1].list] \subseteq E[s[i + 1].list]
      BY <1>16, <3>2
    <3>4. \/ g[s[i].type].elems[j] \in D[s[i].list]
          \/ g[s[i].type].elems[j] \in D[s[i + 1].list]
      BY <1>10, <3>1
    <3> QED
      BY <3>1, <3>2, <3>3, <3>4
  <2> QED
    BY <2>1, <2>2
<1>24. ASSUME NEW L \in 1..N, target \in E[L] PROVE f.next = 0 /\ f.type = target
  <2>1. target \notin D[L]
    BY <1>10, <1>11 DEF t, n
  <2>2. target = f.type
    BY <1>17, <1>24, <2>1
  <2> QED
    BY <2>2
<1>25. root \in E[1]
  BY <1>6, <1>10, <1>16
<1>26. Explored(g, r, m, K, target, root, E)
  BY <1>5, <1>8, <1>15, <1>20, <1>21, <1>22, <1>23, <1>24, <1>25 DEF Explored
<1> QED
  BY <1>19, <1>26 DEF Searched, r

(* A call has begun.                                                        *)
LEMMA FrameBegins ==
  ASSUME NEW g, IsGraph(g), NEW l, NEW h \in Frames(g), h.next = 0, h.list \in 1..Len(l)
  PROVE  FrameOK(g, l, h)
<1>1. h.type \in DOMAIN g
  BY DEF Frames
<1>2. Len(g[h.type].elems) \in Nat
  BY <1>1, ElementsTyped
<1> QED
  BY <1>2 DEF FrameOK

(* The last call calls for one of its elements, with its own list or a new one. *)
Calls(g, s, l, K, f, h, m) ==
  LET top == s[Len(s)]
  IN /\ top.next \in 1..Len(g[top.type].elems) /\ g[top.type].kind \in K
     /\ f.type = top.type /\ f.list = top.list /\ f.next = top.next + 1
     /\ m = l \/ m = Append(l, {})
     /\ h.type = g[top.type].elems[top.next] /\ h.next = 0 /\ h.list = Len(m)

(* A call leaves the search as it should be.                                *)
LEMMA SearchCalls ==
  ASSUME NEW g, IsGraph(g), NEW K, NEW target, NEW root \in DOMAIN g, NEW s, NEW l,
         Searched(g, s, l, K, target, root), NEW f \in Frames(g), NEW h \in Frames(g), NEW m,
         Calls(g, s, l, K, f, h, m)
  PROVE  Searched(g, Front(s) \o <<f, h>>, m, K, target, root)
<1> DEFINE n == Len(s)
           N == Len(l)
           M == Len(m)
           t == s[Len(s)].type
           e == h.type
           r == Front(s) \o <<f, h>>
<1>1. Shaped(g, s, l)
  BY DEF Searched
<1>2. PICK D : Explored(g, s, l, K, target, root, D)
  BY DEF Searched
<1>3. /\ s \in Seq(Frames(g)) /\ n \in Nat /\ n >= 1 /\ s # <<>>
      /\ l \in Seq(SUBSET DOMAIN g) /\ N \in Nat /\ N >= 1
      /\ \A i \in 1..n : /\ s[i] \in Frames(g) /\ s[i].type \in DOMAIN g /\ s[i].next \in Nat
                         /\ s[i].list \in 1..N /\ Len(g[s[i].type].elems) \in Nat
  <2>1. s # <<>>
    BY <1>1 DEF Shaped
  <2> QED
    BY <1>1, <2>1, ShapeFacts
<1>4. /\ r \in Seq(Frames(g)) /\ r # <<>> /\ Len(r) = n + 1 /\ r[n] = f /\ r[n + 1] = h
      /\ \A i \in 1..n - 1 : r[i] = s[i]
  <2>1. IsLonger(r, s, f, h)
    BY DEF IsLonger
  <2>2. s \in Seq(Frames(g)) /\ s # <<>>
    BY <1>3
  <2> HIDE DEF r, N, M, t, e, n
  <2>3. /\ r \in Seq(Frames(g)) /\ r # <<>> /\ Len(r) = Len(s) + 1
        /\ r[Len(s)] = f /\ r[Len(s) + 1] = h
        /\ \A i \in 1..Len(s) - 1 : r[i] = s[i]
    BY <2>1, <2>2, TopCalls
  <2> QED
    BY <2>3 DEF n
<1>5. /\ n \in 1..n /\ N \in 1..N /\ 1 \in 1..n /\ 1 \in 1..N
      /\ \A i \in 1..n + 1 : i = n + 1 \/ i \in 1..n
      /\ \A i \in 1..n : i \in 1..n + 1 /\ (i = n \/ i \in 1..n - 1)
  BY <1>3
<1>6. /\ s[1].list = 1 /\ s[n].list = N
      /\ \A i \in 1..n : FrameOK(g, l, s[i])
      /\ \A i, j \in 1..n : i <= j => s[i].list <= s[j].list
      /\ \A i \in 1..n - 1 : s[i + 1].list <= s[i].list + 1
  BY <1>1 DEF Shaped
<1>31. m = l \/ m = Append(l, {})
  BY DEF Calls
<1>7. /\ m \in Seq(SUBSET DOMAIN g) /\ (M = N \/ M = N + 1)
      /\ \A L \in 1..N : m[L] = l[L]
      /\ M = N + 1 => m[M] = {}
  <2>1. CASE m = l
    BY <1>3, <2>1
  <2>2. CASE m = Append(l, {})
    <3>1. {} \in SUBSET DOMAIN g
      OBVIOUS
    <3>2. /\ Append(l, {}) \in Seq(SUBSET DOMAIN g) /\ Len(Append(l, {})) = N + 1
          /\ \A L \in 1..N : Append(l, {})[L] = l[L]
          /\ Append(l, {})[N + 1] = {}
      BY <1>3, <3>1, AppendProperties
    <3> QED
      BY <2>2, <3>2
  <2> QED
    BY <1>31, <2>1, <2>2
<1>8. /\ D \in [1..N -> SUBSET Within(g, root, K)] /\ root \in D[1]
      /\ \A L \in 1..N : l[L] \subseteq D[L]
      /\ \A i \in 1..n : s[i].type \in D[s[i].list]
      /\ \A L \in 1..N : \A u \in D[L] : LeadsTo(g, K, u) \subseteq D[L] \/ HasFrame(s, L, u)
      /\ \A i \in 1..n : \A j \in 1..s[i].next - 1 :
           \/ g[s[i].type].elems[j] \in D[s[i].list]
           \/ i < n /\ g[s[i].type].elems[j] \in D[s[i + 1].list]
      /\ \A L \in 1..N : target \in D[L] => s[n].next = 0 /\ s[n].type = target
  BY <1>2 DEF Explored
<1>9. /\ s[n].next \in 1..Len(g[t].elems) /\ e = g[t].elems[s[n].next] /\ g[t].kind \in K
      /\ f.type = t /\ f.list = N /\ f.next = s[n].next + 1 /\ h.next = 0 /\ h.list = M /\ h.type = e
  BY <1>6 DEF Calls
<1> DEFINE E == [L \in 1..M |-> (IF L \in 1..N THEN D[L] ELSE {}) \cup (IF L = M THEN {e} ELSE {})]
<1>10. t \in D[N] /\ t \in DOMAIN g /\ t = s[n].type
  BY <1>3, <1>5, <1>6, <1>8
<1> HIDE DEF n, N, M, t, e, r
<1>11. M \in Nat /\ M >= 1 /\ M \in 1..M /\ \A L \in 1..N : L \in 1..M
  BY <1>3, <1>7
<1>12. /\ \A L \in 1..N : D[L] \subseteq E[L]
       /\ \A L \in 1..M : \A u \in E[L] : (L \in 1..N /\ u \in D[L]) \/ (L = M /\ u = e)
       /\ e \in E[M]
  BY <1>11
<1>13. e \in Within(g, root, K)
  <2>1. t \in Within(g, root, K)
    BY <1>5, <1>8, <1>10
  <2>2. e \in LeadsTo(g, K, t)
    BY <1>9 DEF LeadsTo, Elements
  <2> QED
    BY <2>1, <2>2, WithinClosed
<1>14. E \in [1..M -> SUBSET Within(g, root, K)]
  BY <1>8, <1>13
<1> HIDE DEF E
<1>15. FrameOK(g, m, f)
  <2>1. FrameOK(g, l, s[n])
    BY <1>5, <1>6
  <2>2. s[n].next > 0 /\ s[n].next + 1 <= Len(g[t].elems) + 1
    BY <1>3, <1>5, <1>9, <1>10
  <2>3. s[n].type \in l[s[n].list] /\ g[s[n].type].kind \in {"struct", "function"}
    BY <2>1, <2>2 DEF FrameOK
  <2>4. f.type \in m[f.list] /\ g[f.type].kind \in {"struct", "function"}
    BY <1>5, <1>6, <1>7, <1>9, <1>10, <2>3
  <2>5. f.list \in 1..M
    BY <1>5, <1>9, <1>11
  <2> QED
    BY <1>9, <2>2, <2>4, <2>5 DEF FrameOK, M
<1>16. FrameOK(g, m, h)
  <2>1. h.list \in 1..Len(m) /\ h.next = 0
    BY <1>9, <1>11 DEF M
  <2> QED
    BY <2>1, FrameBegins
<1>17. ASSUME NEW i \in 1..n
       PROVE  /\ r[i].type = s[i].type /\ r[i].list = s[i].list /\ FrameOK(g, m, r[i])
              /\ s[i].list \in 1..N
  <2>1. CASE i = n
    BY <1>3, <1>4, <1>6, <1>9, <1>10, <1>15, <2>1
  <2>2. CASE i # n
    <3>1. r[i] = s[i] /\ FrameOK(g, l, s[i]) /\ s[i].list \in 1..N
      BY <1>3, <1>4, <1>5, <1>6, <2>2
    <3>2. l[s[i].list] = m[s[i].list] /\ s[i].list \in 1..M
      BY <1>7, <1>11, <3>1
    <3> QED
      BY <3>1, <3>2 DEF FrameOK, M
  <2> QED
    BY <2>1, <2>2
<1>18. \A i \in 1..n + 1 : FrameOK(g, m, r[i])
  BY <1>4, <1>5, <1>16, <1>17
<1>19. Shaped(g, r, m)
  <2>1. r[1].list = 1 /\ r[n + 1].list = M
    BY <1>4, <1>5, <1>6, <1>9, <1>17
  <2>2. ASSUME NEW i \in 1..n + 1, NEW j \in 1..n + 1, i <= j PROVE r[i].list <= r[j].list
    <3>1. CASE j \in 1..n
      <4>1. i \in 1..n
        BY <1>3, <2>2, <3>1
      <4> QED
        BY <1>6, <1>17, <2>2, <3>1, <4>1
    <3>2. CASE j = n + 1 /\ i \in 1..n
      <4>1. r[i].list \in 1..N
        BY <1>17, <3>2
      <4> QED
        BY <1>3, <1>7, <2>1, <3>2, <4>1
    <3>3. CASE j = n + 1 /\ i = n + 1
      BY <1>11, <2>1, <3>3
    <3> QED
      BY <1>5, <3>1, <3>2, <3>3
  <2>3. ASSUME NEW i \in 1..n PROVE r[i + 1].list <= r[i].list + 1
    <3>1. CASE i = n
      BY <1>3, <1>6, <1>7, <1>17, <2>1, <3>1
    <3>2. CASE i # n
      <4>1. i \in 1..n - 1 /\ i + 1 \in 1..n
        BY <1>3, <1>5, <3>2
      <4> QED
        BY <1>6, <1>17, <4>1
    <3> QED
      BY <3>1, <3>2
  <2>4. Len(r) - 1 = n
    BY <1>3, <1>4
  <2>5. Len(m) = M
    BY DEF M
  <2> QED
    BY <1>4, <1>7, <1>18, <2>1, <2>2, <2>3, <2>4, <2>5 DEF Shaped
<1>20. \A L \in 1..M : m[L] \subseteq E[L]
  <2>1. \A L \in 1..N : m[L] \subseteq E[L]
    BY <1>7, <1>8, <1>12
  <2>2. \A L \in 1..M : L \in 1..N \/ (M = N + 1 /\ L = M)
    BY <1>3, <1>7
  <2> QED
    BY <1>7, <2>1, <2>2
<1>21. \A i \in 1..n + 1 : r[i].type \in E[r[i].list]
  <2>1. \A i \in 1..n : r[i].type \in E[r[i].list]
    BY <1>8, <1>12, <1>17
  <2> QED
    BY <1>4, <1>5, <1>9, <1>12, <2>1
<1>22. ASSUME NEW L \in 1..M, NEW u \in E[L]
       PROVE  LeadsTo(g, K, u) \subseteq E[L] \/ HasFrame(r, L, u)
  <2>1. CASE L = M /\ u = e
    <3>1. n + 1 \in 1..Len(r)
      BY <1>3, <1>4
    <3> QED
      BY <1>4, <1>9, <2>1, <3>1 DEF HasFrame
  <2>2. CASE L \in 1..N /\ u \in D[L]
    <3>1. CASE LeadsTo(g, K, u) \subseteq D[L]
      BY <1>12, <2>2, <3>1
    <3>2. CASE HasFrame(s, L, u)
      <4>1. PICK i \in 1..n : s[i].type = u /\ s[i].list = L
        BY <3>2 DEF HasFrame, n
      <4> QED
        BY <1>4, <1>5, <1>17, <4>1 DEF HasFrame
    <3> QED
      BY <1>8, <2>2, <3>1, <3>2
  <2> QED
    BY <1>12, <2>1, <2>2
<1>23. ASSUME NEW i \in 1..n + 1, NEW j \in 1..r[i].next - 1
       PROVE  \/ g[r[i].type].elems[j] \in E[r[i].list]
              \/ i < n + 1 /\ g[r[i].type].elems[j] \in E[r[i + 1].list]
  <2>1. CASE i = n + 1
    BY <1>4, <1>9, <2>1
  <2>2. CASE i = n
    <3>1. r[i].type = t /\ r[i].list = N /\ r[i].next = s[n].next + 1 /\ i < n + 1
      BY <1>3, <1>4, <1>9, <2>2
    <3>2. CASE j = s[n].next
      BY <1>4, <1>9, <1>12, <2>2, <3>1, <3>2
    <3>3. CASE j # s[n].next
      <4>1. j \in 1..s[n].next - 1
        BY <1>3, <1>5, <3>1, <3>3
      <4>2. g[t].elems[j] \in D[N]
        <5>1. n \in 1..n /\ ~(n < n)
          BY <1>3
        <5>2. g[s[n].type].elems[j] \in D[s[n].list]
          BY <1>8, <4>1, <5>1
        <5> QED
          BY <1>6, <1>10, <5>2
      <4> QED
        BY <1>5, <1>12, <3>1, <4>2
    <3> QED
      BY <3>2, <3>3
  <2>3. CASE i \in 1..n - 1
    <3>1. r[i] = s[i] /\ i + 1 \in 1..n /\ i \in 1..n /\ i < n + 1
      BY <1>3, <1>4, <2>3
    <3>2. r[i + 1].list = s[i + 1].list /\ s[i + 1].list \in 1..N /\ s[i].list \in 1..N
      BY <1>17, <3>1
    <3>3. D[s[i].list] \subseteq E[s[i].list] /\ D[s[i + 1].list] \subseteq E[s[i + 1].list]
      BY <1>12, <3>2
    <3>4. \/ g[s[i].type].elems[j] \in D[s[i].list]
          \/ g[s[i].type].elems[j] \in D[s[i + 1].list]
      BY <1>8, <3>1
    <3> QED
      BY <3>1, <3>2, <3>3, <3>4
  <2> QED
    BY <1>5, <2>1, <2>2, <2>3
<1>24. ASSUME NEW L \in 1..M, target \in E[L] PROVE h.next = 0 /\ h.type = target
  <2>1. s[n].next # 0
    BY <1>9
  <2> QED
    BY <1>8, <1>9, <1>12, <1>24, <2>1
<1>25. root \in E[1]
  BY <1>5, <1>8, <1>12
<1>26. Explored(g, r, m, K, target, root, E)
  <2>1. Len(m) = M
    BY DEF M
  <2> QED
    BY <1>4, <1>14, <1>20, <1>21, <1>22, <1>23, <1>24, <1>25, <2>1 DEF Explored
<1> QED
  BY <1>19, <1>26 DEF Searched, r

(* The last call returns: what it was to search has been.  The list its caller
   has had in mind what it has been to with a list of its own.              *)
Done(g, s, l, K, target, root, D) ==
  /\ Explored(g, s, l, K, target, root, D)
  /\ LeadsTo(g, K, s[Len(s)].type) \subseteq D[Len(l)]
  /\ s[Len(s)].next # 0 \/ s[Len(s)].type # target

(* So does a return.                                                        *)
LEMMA SearchReturns ==
  ASSUME NEW g, IsGraph(g), NEW K, NEW target, NEW root \in DOMAIN g, NEW s, NEW l,
         Shaped(g, s, l), NEW D, Done(g, s, l, K, target, root, D), Len(s) # 1
  PROVE  Searched(g, Front(s), SubSeq(l, 1, Last(Front(s)).list), K, target, root)
<1> DEFINE n == Len(s)
           N == Len(l)
           t == s[Len(s)].type
           r == Front(s)
           p == s[Len(s) - 1].list
           m == SubSeq(l, 1, s[Len(s) - 1].list)
<1>3. /\ s \in Seq(Frames(g)) /\ n \in Nat /\ n >= 1 /\ s # <<>>
      /\ l \in Seq(SUBSET DOMAIN g) /\ N \in Nat /\ N >= 1
      /\ \A L \in 1..N : l[L] \in SUBSET DOMAIN g
      /\ \A i \in 1..n : /\ s[i] \in Frames(g) /\ s[i].type \in DOMAIN g /\ s[i].next \in Nat
                         /\ s[i].list \in 1..N /\ Len(g[s[i].type].elems) \in Nat
  <2>1. s # <<>>
    BY DEF Shaped
  <2> QED
    BY <2>1, ShapeFacts
<1>4. /\ r \in Seq(Frames(g)) /\ Len(r) = n - 1
      /\ \A i \in 1..n - 1 : r[i] = s[i]
  BY <1>3, FrontFacts
<1>5. n # 1
  OBVIOUS
<1>6. /\ s[1].list = 1 /\ s[n].list = N
      /\ \A i \in 1..n : FrameOK(g, l, s[i])
      /\ \A i, j \in 1..n : i <= j => s[i].list <= s[j].list
      /\ \A i \in 1..n - 1 : s[i + 1].list <= s[i].list + 1
  BY DEF Shaped
<1>8. /\ D \in [1..N -> SUBSET Within(g, root, K)] /\ root \in D[1]
      /\ \A L \in 1..N : l[L] \subseteq D[L]
      /\ \A i \in 1..n : s[i].type \in D[s[i].list]
      /\ \A L \in 1..N : \A u \in D[L] : LeadsTo(g, K, u) \subseteq D[L] \/ HasFrame(s, L, u)
      /\ \A i \in 1..n : \A j \in 1..s[i].next - 1 :
           \/ g[s[i].type].elems[j] \in D[s[i].list]
           \/ i < n /\ g[s[i].type].elems[j] \in D[s[i + 1].list]
      /\ \A L \in 1..N : target \in D[L] => s[n].next = 0 /\ s[n].type = target
  BY DEF Done, Explored
<1>9. LeadsTo(g, K, t) \subseteq D[N] /\ (s[n].next # 0 \/ s[n].type # target) /\ t = s[n].type
  BY DEF Done
<1>10. p = s[n - 1].list /\ m = SubSeq(l, 1, p)
  OBVIOUS
<1>30. Last(r) = r[Len(r)]
  BY DEF Last
<1> DEFINE E == [L \in 1..p |-> D[L] \cup (IF L = p THEN D[N] ELSE {})]
<1> HIDE DEF n, N, t, r, p, m
<1>11. /\ n \in 1..n /\ n - 1 \in 1..n /\ n - 1 \in 1..n - 1 /\ N \in 1..N /\ 1 \in 1..n - 1
       /\ \A i \in 1..n : i = n \/ i \in 1..n - 1
       /\ \A i \in 1..n - 1 : i \in 1..n /\ i + 1 \in 1..n /\ i < n /\ i <= n - 1
  BY <1>3, <1>5
<1>12. p \in 1..N /\ p \in Nat /\ p >= 1
  BY <1>3, <1>10, <1>11
<1>13. p = N \/ p = N - 1
  <2>1. s[n].list <= p + 1
    <3>1. (n - 1) + 1 = n
      BY <1>3
    <3> QED
      BY <1>6, <1>10, <1>11, <3>1
  <2> QED
    BY <1>3, <1>6, <1>12, <2>1
<1>14. Last(r).list = p
  BY <1>4, <1>10, <1>11, <1>30
<1>15. m \in Seq(SUBSET DOMAIN g) /\ Len(m) = p /\ \A L \in 1..p : L \in 1..N /\ m[L] = l[L]
  <2>1. \A L \in 1..p : L \in 1..N
    BY <1>3, <1>12
  <2>2. \A L \in 1..p : l[L] \in SUBSET DOMAIN g
    BY <1>3, <2>1
  <2>3. 1 \in Int /\ p \in Int
    BY <1>12
  <2>4. /\ m \in Seq(SUBSET DOMAIN g)
        /\ Len(m) = IF 1 <= p THEN p - 1 + 1 ELSE 0
        /\ \A i \in 1..p - 1 + 1 : m[i] = l[1 + i - 1]
    BY <1>10, <2>2, <2>3, SubSeqProperties
  <2>5. \A i \in 1..p : i \in 1..p - 1 + 1 /\ 1 + i - 1 = i
    BY <1>12
  <2>6. Len(m) = p
    BY <1>12, <2>4
  <2> QED
    BY <2>1, <2>4, <2>5, <2>6
<1>16. ASSUME NEW i \in 1..n - 1 PROVE r[i] = s[i] /\ s[i].list \in 1..p /\ FrameOK(g, m, r[i])
  <2>1. s[i].list <= p /\ s[i].list \in 1..N
    BY <1>3, <1>6, <1>10, <1>11
  <2>2. s[i].list \in 1..p
    BY <1>12, <2>1
  <2>3. FrameOK(g, l, s[i]) /\ r[i] = s[i]
    BY <1>4, <1>6, <1>11
  <2>4. l[s[i].list] = m[s[i].list]
    BY <1>15, <2>2
  <2> QED
    BY <1>15, <2>2, <2>3, <2>4 DEF FrameOK
<1>17. Shaped(g, r, m)
  <2>1. r[1].list = 1 /\ r[n - 1].list = p
    BY <1>6, <1>10, <1>11, <1>16
  <2>2. \A i, j \in 1..n - 1 : i <= j => r[i].list <= r[j].list
    BY <1>6, <1>11, <1>16
  <2>3. \A i \in 1..(n - 1) - 1 : r[i + 1].list <= r[i].list + 1
    <3>1. \A i \in 1..(n - 1) - 1 : i \in 1..n - 1 /\ i + 1 \in 1..n - 1
      BY <1>3
    <3> QED
      BY <1>6, <1>16, <3>1
  <2>4. r # <<>>
    BY <1>3, <1>4, <1>5, EmptySeq
  <2> QED
    BY <1>4, <1>15, <1>16, <2>1, <2>2, <2>3, <2>4 DEF Shaped
<1>18. E \in [1..p -> SUBSET Within(g, root, K)]
  <2>1. \A L \in 1..p : D[L] \in SUBSET Within(g, root, K) /\ D[N] \in SUBSET Within(g, root, K)
    BY <1>8, <1>11, <1>15
  <2> QED
    BY <2>1
<1>19. /\ \A L \in 1..p : D[L] \subseteq E[L]
       /\ D[N] \subseteq E[p]
       /\ \A L \in 1..p : \A u \in E[L] : u \in D[L] \/ (L = p /\ u \in D[N])
  BY <1>12
<1> HIDE DEF E
<1>20. ASSUME NEW L \in 1..p, NEW u \in E[L]
       PROVE  LeadsTo(g, K, u) \subseteq E[L] \/ HasFrame(r, L, u)
  <2>1. PICK M \in 1..N : u \in D[M] /\ (M = L \/ (M = N /\ L = p))
    BY <1>11, <1>15, <1>19
  <2>2. D[M] \subseteq E[L]
    BY <1>19, <2>1
  <2>3. CASE LeadsTo(g, K, u) \subseteq D[M]
    BY <2>2, <2>3
  <2>4. CASE HasFrame(s, M, u)
    <3>1. PICK i \in 1..n : s[i].type = u /\ s[i].list = M
      BY <2>4 DEF HasFrame, n
    <3>2. CASE i = n
      <4>1. u = t /\ M = N /\ L = p
        <5>1. u = t /\ M = N
          BY <1>6, <1>9, <3>1, <3>2
        <5>2. L = p
          BY <1>3, <1>12, <1>13, <2>1, <5>1
        <5> QED
          BY <5>1, <5>2
      <4> QED
        BY <1>9, <1>19, <4>1
    <3>3. CASE i # n
      <4>1. i \in 1..n - 1 /\ r[i] = s[i] /\ s[i].list \in 1..p
        BY <1>11, <1>16, <3>3
      <4>2. M = L
        BY <1>12, <1>13, <2>1, <3>1, <4>1
      <4> QED
        BY <1>4, <3>1, <4>1, <4>2 DEF HasFrame
    <3> QED
      BY <3>2, <3>3
  <2> QED
    BY <1>8, <2>1, <2>3, <2>4
<1>21. ASSUME NEW i \in 1..n - 1, NEW j \in 1..r[i].next - 1
       PROVE  \/ g[r[i].type].elems[j] \in E[r[i].list]
              \/ i < n - 1 /\ g[r[i].type].elems[j] \in E[r[i + 1].list]
  <2>1. r[i] = s[i] /\ i \in 1..n /\ s[i].list \in 1..p
    BY <1>11, <1>16
  <2>2. CASE g[s[i].type].elems[j] \in D[s[i].list]
    BY <1>19, <2>1, <2>2
  <2>3. CASE g[s[i].type].elems[j] \in D[s[i + 1].list] /\ i = n - 1
    <3>1. i + 1 = n
      BY <1>3, <2>3
    <3> QED
      BY <1>6, <1>10, <1>19, <2>1, <2>3, <3>1
  <2>4. CASE g[s[i].type].elems[j] \in D[s[i + 1].list] /\ i # n - 1
    <3>1. i + 1 \in 1..n - 1 /\ i < n - 1
      BY <1>3, <2>4
    <3>2. r[i + 1] = s[i + 1] /\ s[i + 1].list \in 1..p
      BY <1>16, <3>1
    <3> QED
      BY <1>19, <2>1, <2>4, <3>1, <3>2
  <2> QED
    BY <1>8, <2>1, <2>2, <2>3, <2>4
<1>22. \A L \in 1..p : target \notin E[L]
  <2>1. \A L \in 1..N : target \notin D[L]
    BY <1>8, <1>9
  <2> QED
    BY <1>11, <1>15, <1>19, <2>1
<1>23. /\ root \in E[1]
       /\ \A L \in 1..p : m[L] \subseteq E[L]
       /\ \A i \in 1..n - 1 : r[i].type \in E[r[i].list]
  <2>1. 1 \in 1..p
    BY <1>12
  <2> QED
    BY <1>8, <1>11, <1>15, <1>16, <1>19, <2>1
<1>24. Explored(g, r, m, K, target, root, E)
  BY <1>4, <1>15, <1>18, <1>20, <1>21, <1>22, <1>23 DEF Explored
<1> QED
  BY <1>10, <1>14, <1>17, <1>24 DEF Searched, r

(* The first call returns: what is searched for is not there.               *)
LEMMA SearchFails ==
  ASSUME NEW g, IsGraph(g), NEW K, NEW target, NEW root \in DOMAIN g, NEW s, NEW l,
         Shaped(g, s, l), NEW D, Done(g, s, l, K, target, root, D), Len(s) = 1
  PROVE  target \notin Within(g, root, K)
<1>1. s[1].list = 1 /\ Len(l) = 1
  BY DEF Shaped
<1>2. Explored(g, s, l, K, target, root, D) /\ LeadsTo(g, K, s[1].type) \subseteq D[1]
  BY <1>1 DEF Done
<1>3. /\ root \in D[1] /\ target \notin D[1]
      /\ \A t \in D[1] : LeadsTo(g, K, t) \subseteq D[1] \/ HasFrame(s, 1, t)
  <2>1. 1 \in 1..Len(l)
    BY <1>1
  <2> QED
    BY <1>2, <2>1 DEF Explored, Done
<1>4. \A t \in D[1] : HasFrame(s, 1, t) => t = s[1].type
  BY DEF HasFrame
<1>5. \A t \in D[1] : LeadsTo(g, K, t) \subseteq D[1]
  BY <1>2, <1>3, <1>4
<1> QED
  BY <1>3, <1>5, WithinLeast

(* A call has begun with the type that is searched for: it is there.        *)
LEMMA SearchSucceeds ==
  ASSUME NEW g, IsGraph(g), NEW K, NEW target, NEW root, NEW s, NEW l,
         Searched(g, s, l, K, target, root), s[Len(s)].type = target
  PROVE  target \in Within(g, root, K)
<1>1. Shaped(g, s, l) /\ \E D : Explored(g, s, l, K, target, root, D)
  BY DEF Searched
<1>2. PICK D : Explored(g, s, l, K, target, root, D)
  BY <1>1
<1>3. /\ Len(s) \in 1..Len(s) /\ s[Len(s)].list \in 1..Len(l)
  <2>1. /\ Len(s) \in Nat /\ Len(s) >= 1
        /\ \A i \in 1..Len(s) : s[i].list \in 1..Len(l)
    BY <1>1, ShapeFacts
  <2>2. Len(s) \in 1..Len(s)
    BY <2>1
  <2> QED
    BY <2>1, <2>2
<1>4. D \in [1..Len(l) -> SUBSET Within(g, root, K)] /\ s[Len(s)].type \in D[s[Len(s)].list]
  BY <1>2, <1>3 DEF Explored
<1> QED
  BY <1>3, <1>4

-----------------------------------------------------------------------------
(* The module                                                               *)

(* What is followed in the search there is; what has been searched for double,
   what for half, and what was there.                                       *)
Followed == IF forHalf THEN Kinds \ {"pointer"} ELSE Kinds
DoubleDone == IF forHalf THEN 1..at ELSE 1..at - 1
HasDouble(g, us, S) == \E i \in S : Counts(us[i]) /\ Double \in Within(g, us[i].type, Kinds)
HasHalf(g, us, S) == \E i \in S : Half \in Within(g, us[i].type, Kinds \ {"pointer"})

Typed ==
  /\ types \in TypeGraphs
  /\ uses \in Seq(Uses) /\ Len(uses) <= MaxUses
  /\ at \in Nat /\ at >= 1 /\ at <= Len(uses) + 1
  /\ forHalf \in BOOLEAN /\ bUseDoubles \in BOOLEAN /\ fp16 \in BOOLEAN

Told ==
  /\ bUseDoubles <=> HasDouble(types, uses, DoubleDone)
  /\ fp16 <=> HasHalf(types, uses, 1..at - 1)

Searching ==
  /\ stack = <<>> => at = Len(uses) + 1 /\ forHalf = FALSE
  /\ stack # <<>> =>
       at <= Len(uses) /\ Searched(types, stack, lists, Followed, Target, uses[at].type)

IInv == Typed /\ Told /\ Searching

(* The types are a graph, and what there is in the module has one of them.  *)
LEMMA TypesFacts ==
  ASSUME Typed
  PROVE  /\ IsGraph(types) /\ Len(uses) \in Nat
         /\ \A i \in 1..Len(uses) : uses[i].type \in DOMAIN types
<1>1. types \in TypeGraphs /\ uses \in Seq(Uses)
  BY DEF Typed
<1>2. IsGraph(types)
  BY <1>1, TypeSearchAssumption DEF IsGraph
<1>3. Len(uses) \in Nat /\ \A i \in 1..Len(uses) : uses[i] \in Uses
  BY <1>1, LenProperties, ElementOfSeq
<1>4. \A u \in Uses : u.type \in DOMAIN types
  BY <1>1, TypeSearchAssumption
<1> QED
  BY <1>2, <1>3, <1>4

(* The search goes on.                                                      *)
LEMMA SearchGoesOn ==
  ASSUME IInv, stack # <<>>, Same,
         Searched(types, stack', lists', Followed, Target, uses[at].type)
  PROVE  IInv'
<1>1. /\ types' = types /\ uses' = uses /\ at' = at /\ forHalf' = forHalf
      /\ bUseDoubles' = bUseDoubles /\ fp16' = fp16
  BY DEF Same, metadata
<1>2. Followed' = Followed /\ Target' = Target /\ DoubleDone' = DoubleDone
  BY <1>1 DEF Followed, Target, DoubleDone
<1>3. stack' # <<>> /\ at <= Len(uses)
  BY DEF Searched, Shaped, IInv, Searching
<1>4. Typed'
  BY <1>1 DEF IInv, Typed
<1>5. Told'
  BY <1>1, <1>2 DEF IInv, Told
<1>6. Searching'
  BY <1>1, <1>2, <1>3 DEF Searching
<1> QED
  BY <1>4, <1>5, <1>6 DEF IInv

(* A search has an answer, and it is right.                                 *)
LEMMA SearchAnswered ==
  ASSUME IInv, stack # <<>>, NEW yes \in BOOLEAN, Found(yes),
         yes <=> Target \in Within(types, uses[at].type, Followed)
  PROVE  IInv'
<1>1. /\ types \in TypeGraphs /\ uses \in Seq(Uses) /\ Len(uses) <= MaxUses
      /\ at \in Nat /\ at >= 1 /\ at <= Len(uses) /\ Len(uses) \in Nat
      /\ forHalf \in BOOLEAN /\ bUseDoubles \in BOOLEAN /\ fp16 \in BOOLEAN
  BY TypesFacts DEF IInv, Typed, Searching
<1>2. types' = types /\ uses' = uses
  BY DEF Found
<1>3. IsGraph(types) /\ \A i \in 1..Len(uses) : uses[i].type \in DOMAIN types
  BY TypesFacts DEF IInv
<1>4. bUseDoubles <=> HasDouble(types, uses, DoubleDone)
  BY DEF IInv, Told
<1>5. fp16 <=> HasHalf(types, uses, 1..at - 1)
  BY DEF IInv, Told
<1>6. \A i : i \in 1..at <=> i \in 1..at - 1 \/ i = at
  BY <1>1
<1>7. CASE forHalf
  <2>1. fp16' = (fp16 \/ yes)
    BY <1>7, Zenon DEF Found
  <2>2. /\ at' = at + 1 /\ forHalf' = FALSE /\ bUseDoubles' = bUseDoubles
        /\ IF at = Len(uses) THEN stack' = <<>> /\ lists' = <<>>
                             ELSE Search(uses[at + 1].type)
    BY <1>7, Zenon DEF Found
  <2>3. Followed = Kinds \ {"pointer"} /\ Target = Half /\ DoubleDone = 1..at
    BY <1>7 DEF Followed, Target, DoubleDone
  <2>4. Followed' = Kinds /\ Target' = Double /\ DoubleDone' = 1..at' - 1
    BY <2>2 DEF Followed, Target, DoubleDone
  <2>5. 1..at' - 1 = 1..at
    BY <1>1, <2>2
  <2>6. fp16' <=> HasHalf(types, uses, 1..at)
    <3>1. HasHalf(types, uses, 1..at) <=>
            HasHalf(types, uses, 1..at - 1) \/ Half \in Within(types, uses[at].type, Kinds \ {"pointer"})
      BY <1>6 DEF HasHalf
    <3>2. yes <=> Half \in Within(types, uses[at].type, Kinds \ {"pointer"})
      BY <2>3
    <3> QED
      BY <1>5, <2>1, <3>1, <3>2, Zenon
  <2>7. fp16' \in BOOLEAN
    BY <2>1, Zenon
  <2>8. Typed'
    <3>1. at' \in Nat /\ at' >= 1 /\ at' <= Len(uses) + 1
      BY <1>1, <2>2
    <3> QED
      BY <1>1, <1>2, <2>2, <2>7, <3>1 DEF Typed
  <2>9. Told'
    <3>1. bUseDoubles' <=> HasDouble(types, uses, 1..at)
      BY <1>4, <2>2, <2>3
    <3>2. HasDouble(types, uses, 1..at) <=> HasDouble(types', uses', DoubleDone')
      BY <1>2, <2>4, <2>5
    <3>3. HasHalf(types, uses, 1..at) <=> HasHalf(types', uses', 1..at' - 1)
      BY <1>2, <2>5
    <3> QED
      BY <2>6, <3>1, <3>2, <3>3, Zenon DEF Told
  <2>10. Searching'
    <3>1. CASE at = Len(uses)
      BY <1>2, <2>2, <3>1 DEF Searching
    <3>2. CASE at # Len(uses)
      <4>1. /\ stack' = <<Frame(uses[at + 1].type, 1)>> /\ lists' = << {} >>
            /\ at + 1 \in 1..Len(uses)
        BY <1>1, <2>2, <3>2 DEF Search
      <4>2. Searched(types, <<Frame(uses[at + 1].type, 1)>>, << {} >>, Kinds, Double, uses[at + 1].type)
        BY <1>3, <4>1, SearchBegins
      <4>3. stack' # <<>> /\ at' <= Len(uses')
        BY <1>1, <1>2, <2>2, <4>1
      <4>4. Searched(types', stack', lists', Followed', Target', uses'[at'].type)
        BY <1>2, <2>2, <2>4, <4>1, <4>2
      <4> QED
        BY <4>3, <4>4 DEF Searching
    <3> QED
      BY <3>1, <3>2
  <2> QED
    BY <2>8, <2>9, <2>10 DEF IInv
<1>8. CASE ~forHalf
  <2>1. bUseDoubles' = (bUseDoubles \/ (yes /\ Counts(uses[at])))
    BY <1>8, Zenon DEF Found
  <2>2. /\ at' = at /\ forHalf' = TRUE /\ fp16' = fp16 /\ Search(uses[at].type)
    BY <1>8, Zenon DEF Found
  <2>3. Followed = Kinds /\ Target = Double /\ DoubleDone = 1..at - 1
    BY <1>8 DEF Followed, Target, DoubleDone
  <2>4. Followed' = Kinds \ {"pointer"} /\ Target' = Half /\ DoubleDone' = 1..at
    BY <2>2 DEF Followed, Target, DoubleDone
  <2>6. bUseDoubles' <=> HasDouble(types, uses, 1..at)
    <3>1. HasDouble(types, uses, 1..at) <=>
            \/ HasDouble(types, uses, 1..at - 1)
            \/ Counts(uses[at]) /\ Double \in Within(types, uses[at].type, Kinds)
      BY <1>6 DEF HasDouble
    <3>2. yes <=> Double \in Within(types, uses[at].type, Kinds)
      BY <2>3
    <3>3. bUseDoubles <=> HasDouble(types, uses, 1..at - 1)
      BY <1>4, <2>3
    <3> QED
      BY <2>1, <3>1, <3>2, <3>3, Zenon
  <2>7. bUseDoubles' \in BOOLEAN
    BY <2>1, Zenon
  <2>8. Typed'
    BY <1>1, <1>2, <2>2, <2>7 DEF Typed
  <2>9. Told'
    <3>1. fp16' <=> HasHalf(types', uses', 1..at' - 1)
      BY <1>2, <1>5, <2>2
    <3>2. HasDouble(types, uses, 1..at) <=> HasDouble(types', uses', DoubleDone')
      BY <1>2, <2>4
    <3> QED
      BY <2>6, <3>1, <3>2, Zenon DEF Told
  <2>10. Searching'
    <3>1. /\ stack' = <<Frame(uses[at].type, 1)>> /\ lists' = << {} >> /\ at \in 1..Len(uses)
      BY <1>1, <2>2 DEF Search
    <3>2. Searched(types, <<Frame(uses[at].type, 1)>>, << {} >>, Kinds \ {"pointer"}, Half, uses[at].type)
      BY <1>3, <3>1, SearchBegins
    <3>3. stack' # <<>> /\ at' <= Len(uses')
      BY <1>1, <1>2, <2>2, <3>1
    <3>4. Searched(types', stack', lists', Followed', Target', uses'[at'].type)
      BY <1>2, <2>2, <2>4, <3>1, <3>2
    <3> QED
      BY <3>3, <3>4 DEF Searching
  <2> QED
    BY <2>8, <2>9, <2>10 DEF IInv
<1> QED
  BY <1>7, <1>8

(* What the search there is looks like.                                     *)
LEMMA SearchFacts ==
  ASSUME IInv, stack # <<>>
  PROVE  /\ IsGraph(types) /\ uses[at].type \in DOMAIN types
         /\ Searched(types, stack, lists, Followed, Target, uses[at].type)
         /\ Shaped(types, stack, lists)
         /\ Len(stack) \in Nat /\ Len(stack) >= 1 /\ Len(stack) \in 1..Len(stack)
         /\ Top = stack[Len(stack)] /\ Top \in Frames(types) /\ FrameOK(types, lists, Top)
         /\ Top.type \in DOMAIN types /\ Top.next \in Nat /\ Top.list = Len(lists)
         /\ lists \in Seq(SUBSET DOMAIN types) /\ Len(lists) \in Nat /\ Len(lists) >= 1
         /\ Seen = lists[Len(lists)] /\ lists # <<>>
         /\ stack \in Seq(Frames(types))
         /\ types[Top.type].kind \in Kinds /\ types[Top.type].elems \in Seq(DOMAIN types)
<1>1. IsGraph(types) /\ uses[at].type \in DOMAIN types
  <2>1. at \in 1..Len(uses)
    BY TypesFacts DEF IInv, Typed, Searching
  <2> QED
    BY <2>1, TypesFacts DEF IInv
<1>2. Searched(types, stack, lists, Followed, Target, uses[at].type) /\ Shaped(types, stack, lists)
  BY DEF IInv, Searching, Searched
<1>3. /\ Len(stack) \in Nat /\ Len(stack) >= 1 /\ Last(stack) = stack[Len(stack)]
      /\ lists \in Seq(SUBSET DOMAIN types) /\ Len(lists) \in Nat /\ Len(lists) >= 1 /\ lists # <<>>
      /\ stack \in Seq(Frames(types))
      /\ \A i \in 1..Len(stack) : /\ stack[i] \in Frames(types) /\ stack[i].type \in DOMAIN types
                                  /\ stack[i].next \in Nat
  BY <1>1, <1>2, ShapeFacts
<1>4. Len(stack) \in 1..Len(stack)
  BY <1>3
<1>5. Top = stack[Len(stack)] /\ Seen = lists[Len(lists)]
  BY <1>3 DEF Top, Seen, Last
<1>6. Top.list = Len(lists) /\ FrameOK(types, lists, Top)
  BY <1>2, <1>4, <1>5 DEF Shaped
<1>7. Top.type \in DOMAIN types /\ Top.next \in Nat /\ Top \in Frames(types)
  BY <1>3, <1>4, <1>5
<1>8. types[Top.type].kind \in Kinds /\ types[Top.type].elems \in Seq(DOMAIN types)
  BY <1>1, <1>7 DEF IsGraph
<1> QED
  BY <1>1, <1>2, <1>3, <1>4, <1>5, <1>6, <1>7, <1>8

(* What the elements of a type are.                                         *)
LEMMA OneElement ==
  ASSUME NEW g, IsGraph(g), NEW t \in DOMAIN g, g[t].kind \in {"sequential", "pointer"}
  PROVE  g[t].elems[1] \in DOMAIN g /\ Elements(g, t) = {g[t].elems[1]}
<1>1. Len(g[t].elems) = 1
  BY DEF IsGraph
<1>2. \A i \in 1..1 : i = 1
  OBVIOUS
<1>3. g[t].elems[1] \in DOMAIN g
  BY <1>1, ElementsTyped
<1> QED
  BY <1>1, <1>2, <1>3 DEF Elements

(* Each action.                                                             *)
LEMMA IsTargetIInv ==
  ASSUME IInv, stack # <<>>, IsTarget
  PROVE  IInv'
<1> DEFINE yes == TRUE
<1>1. Top.type = Target /\ Found(yes)
  BY Zenon DEF IsTarget
<1>2. yes \in BOOLEAN /\ yes
  OBVIOUS
<1> HIDE DEF yes
<1>3. Target \in Within(types, uses[at].type, Followed)
  BY <1>1, SearchFacts, SearchSucceeds
<1> QED
  BY <1>1, <1>2, <1>3, SearchAnswered

(* The steps of a search keep the invariant: one that passes on a result,   *)
LEMMA PassOnIInv ==
  ASSUME IInv, stack # <<>>, PassOn
  PROVE  IInv'
<1> DEFINE t == Top.type
           f == Frame(types[t].elems[1], Top.list)
<1>1. /\ IsGraph(types) /\ uses[at].type \in DOMAIN types
      /\ Searched(types, stack, lists, Followed, Target, uses[at].type)
      /\ Top = stack[Len(stack)] /\ t \in DOMAIN types /\ Top.list = Len(lists)
      /\ lists \in Seq(SUBSET DOMAIN types) /\ Len(lists) \in Nat /\ Len(lists) >= 1
  BY SearchFacts
<1>2. /\ Top.type # Target /\ Passes(Top.type) /\ stack' = Append(Front(stack), f) /\ Same
      /\ lists' = lists
  BY DEF PassOn, Becomes, TypeOf
<1>3. types[t].kind \in {"sequential", "pointer"} /\ types[t].kind \in Followed
  BY <1>2 DEF Passes, MayFollow, TypeOf, Followed, Kinds
<1>4. types[t].elems[1] \in DOMAIN types /\ LeadsTo(types, Followed, t) = {types[t].elems[1]}
  BY <1>1, <1>3, OneElement DEF LeadsTo
<1>5. /\ f \in Frames(types) /\ f.type = types[t].elems[1] /\ f.next = 0
      /\ f.list = Top.list /\ f.list \in 1..Len(lists)
  BY <1>1, <1>4 DEF Frame, Frames
<1> HIDE DEF f
<1>6. FrameOK(types, lists, f)
  BY <1>1, <1>5, FrameBegins
<1>7. Searched(types, Append(Front(stack), f), lists, Followed, Target, uses[at].type)
  BY <1>1, <1>2, <1>4, <1>5, <1>6, SearchMoves
<1> QED
  BY <1>2, <1>7, SearchGoesOn

(* one that opens a type,                                                   *)
LEMMA OpenIInv ==
  ASSUME IInv, stack # <<>>, Open
  PROVE  IInv'
<1> DEFINE t == Top.type
           f == [Top EXCEPT !.next = 1]
           m == Append(Front(lists), Seen \cup {t})
           N == Len(lists)
<1>1. /\ IsGraph(types) /\ uses[at].type \in DOMAIN types
      /\ Searched(types, stack, lists, Followed, Target, uses[at].type)
      /\ Top = stack[Len(stack)] /\ t \in DOMAIN types /\ Top.list = N
      /\ Top \in Frames(types)
      /\ lists \in Seq(SUBSET DOMAIN types) /\ N \in Nat /\ N >= 1 /\ lists # <<>>
      /\ Seen = lists[N]
  BY SearchFacts
<1>2. /\ t # Target /\ HasElements(t) /\ stack' = Append(Front(stack), f) /\ Same
      /\ lists' = m
  BY DEF Open, Becomes
<1>3. /\ f \in Frames(types) /\ f.type = t /\ f.next = 1 /\ f.list = N
  BY <1>1 DEF Frames
<1>4. Seen \cup {t} \in SUBSET DOMAIN types
  <2>1. lists[N] \in SUBSET DOMAIN types
    BY <1>1, ElementOfSeq
  <2> QED
    BY <1>1, <2>1
<1>5. /\ m \in Seq(SUBSET DOMAIN types) /\ Len(m) = N /\ m[N] = Seen \cup {t}
      /\ \A L \in 1..N - 1 : m[L] = lists[L]
  BY <1>1, <1>4, TopReplaced
<1>6. types[t].kind \in {"struct", "function"}
  BY <1>2 DEF HasElements, TypeOf
<1>7. Len(types[t].elems) \in Nat
  BY <1>1, ElementsTyped
<1> HIDE DEF f, m
<1>8. FrameOK(types, m, f)
  <2>1. t \in m[N] /\ N \in 1..Len(m)
    BY <1>1, <1>5
  <2>2. f.next <= Len(types[f.type].elems) + 1
    BY <1>3, <1>7
  <2> QED
    BY <1>3, <1>6, <2>1, <2>2 DEF FrameOK
<1>9. \A L \in 1..N : L = N \/ L \in 1..N - 1
  BY <1>1
<1>10. /\ \A L \in 1..N : lists[L] \subseteq m[L]
       /\ \A L \in 1..N : m[L] \subseteq lists[L] \/ (L = N /\ m[L] \subseteq lists[L] \cup {t})
  BY <1>1, <1>5, <1>9
<1>11. Searched(types, Append(Front(stack), f), m, Followed, Target, uses[at].type)
  BY <1>1, <1>2, <1>3, <1>5, <1>8, <1>10, SearchMoves
<1> QED
  BY <1>2, <1>11, SearchGoesOn

(* one that searches an element,                                            *)
LEMMA SearchElementIInv ==
  ASSUME IInv, stack # <<>>, SearchElement
  PROVE  IInv'
<1> DEFINE t == Top.type
           N == Len(lists)
           e == types[t].elems[Top.next]
           isNew == types[t].kind = "function"
           f == [Top EXCEPT !.next = @ + 1]
           h == Frame(e, IF isNew THEN N + 1 ELSE Top.list)
           m == IF isNew THEN Append(lists, {}) ELSE lists
<1>1. /\ IsGraph(types) /\ uses[at].type \in DOMAIN types
      /\ Searched(types, stack, lists, Followed, Target, uses[at].type)
      /\ Top = stack[Len(stack)] /\ t \in DOMAIN types /\ Top.list = N
      /\ Top \in Frames(types) /\ FrameOK(types, lists, Top) /\ Top.next \in Nat
      /\ lists \in Seq(SUBSET DOMAIN types) /\ N \in Nat /\ N >= 1 /\ lists # <<>>
  BY SearchFacts
<1>2. /\ Top.next \in 1..Len(types[t].elems) /\ stack' = Front(stack) \o <<f, h>> /\ lists' = m /\ Same
  BY DEF SearchElement, TypeOf
<1>3. types[t].kind \in {"struct", "function"} /\ types[t].kind \in Followed
  <2>1. Top.next > 0
    BY <1>1, <1>2
  <2>2. types[t].kind \in {"struct", "function"}
    BY <1>1, <2>1 DEF FrameOK
  <2> QED
    BY <2>2 DEF Followed, Kinds
<1>4. e \in DOMAIN types
  BY <1>1, <1>2, ElementsTyped
<1>5. (m = lists \/ m = Append(lists, {})) /\ Len(m) = IF isNew THEN N + 1 ELSE N
  <2>1. {} \in SUBSET DOMAIN types
    OBVIOUS
  <2>2. Len(Append(lists, {})) = N + 1
    BY <1>1, <2>1, AppendProperties
  <2> QED
    BY <2>2
<1>6. /\ f \in Frames(types) /\ f.type = t /\ f.next = Top.next + 1 /\ f.list = Top.list
  BY <1>1 DEF Frames
<1>7. h \in Frames(types) /\ h.type = e /\ h.next = 0 /\ h.list = Len(m)
  BY <1>1, <1>4, <1>5 DEF Frame, Frames
<1> HIDE DEF f, h, m
<1>8. Calls(types, stack, lists, Followed, f, h, m)
  BY <1>1, <1>2, <1>3, <1>5, <1>6, <1>7 DEF Calls
<1>9. Searched(types, Front(stack) \o <<f, h>>, m, Followed, Target, uses[at].type)
  BY <1>1, <1>6, <1>7, <1>8, SearchCalls
<1> QED
  BY <1>2, <1>9, SearchGoesOn

(* and one that returns without having found the target.                    *)
LEMMA ReturnFalseIInv ==
  ASSUME IInv, stack # <<>>, ReturnFalse,
         NEW D, Done(types, stack, lists, Followed, Target, uses[at].type, D)
  PROVE  IInv'
<1>1. /\ IsGraph(types) /\ uses[at].type \in DOMAIN types /\ Shaped(types, stack, lists)
  BY SearchFacts
<1>2. CASE Len(stack) = 1
  <2> DEFINE yes == FALSE
  <2>1. Found(yes)
    BY <1>2, Zenon DEF ReturnFalse
  <2>2. yes \in BOOLEAN /\ ~yes
    OBVIOUS
  <2> HIDE DEF yes
  <2>3. Target \notin Within(types, uses[at].type, Followed)
    BY <1>1, <1>2, SearchFails
  <2> QED
    BY <2>1, <2>2, <2>3, SearchAnswered
<1>3. CASE Len(stack) # 1
  <2>1. /\ stack' = Front(stack) /\ lists' = SubSeq(lists, 1, Last(Front(stack)).list) /\ Same
    BY <1>3, Zenon DEF ReturnFalse, ListsOf
  <2>2. Searched(types, Front(stack), SubSeq(lists, 1, Last(Front(stack)).list),
                 Followed, Target, uses[at].type)
    BY <1>1, <1>3, SearchReturns
  <2> QED
    BY <2>1, <2>2, SearchGoesOn
<1> QED
  BY <1>2, <1>3

(* What a type that is neither passed on nor gone through leads to has been
   searched.                                                                *)
LEMMA NotThereIInv ==
  ASSUME IInv, stack # <<>>, NotThere
  PROVE  IInv'
<1> DEFINE t == Top.type
           N == Len(lists)
<1>1. /\ IsGraph(types) /\ Searched(types, stack, lists, Followed, Target, uses[at].type)
      /\ Top = stack[Len(stack)] /\ t \in DOMAIN types /\ N \in Nat /\ N >= 1
      /\ Seen = lists[N] /\ types[t].kind \in Kinds
  BY SearchFacts
<1>2. t # Target /\ ~Passes(t) /\ ~HasElements(t) /\ ReturnFalse
  BY DEF NotThere
<1>3. PICK D : Explored(types, stack, lists, Followed, Target, uses[at].type, D)
  BY <1>1 DEF Searched
<1>4. lists[N] \subseteq D[N]
  BY <1>1, <1>3 DEF Explored
<1>5. LeadsTo(types, Followed, t) \subseteq D[N]
  <2>1. types[t].kind = "scalar" \/ types[t].kind = "pointer"
    BY <1>1, <1>2 DEF Passes, HasElements, TypeOf, Kinds
  <2>2. CASE types[t].kind = "scalar"
    <3>1. types[t].elems = <<>>
      BY <1>1, <2>2 DEF IsGraph
    <3>2. Elements(types, t) = {}
      BY <3>1 DEF Elements
    <3> QED
      BY <3>2 DEF LeadsTo
  <2>3. CASE types[t].kind = "pointer"
    <3>1. CASE forHalf
      BY <2>3, <3>1 DEF LeadsTo, Followed
    <3>2. CASE ~forHalf
      <4>1. types[t].elems[1] \in Seen
        BY <1>2, <2>3, <3>2 DEF Passes, MayFollow, TypeOf
      <4>2. Elements(types, t) = {types[t].elems[1]}
        BY <1>1, <2>3, OneElement
      <4> QED
        BY <1>1, <1>4, <4>1, <4>2 DEF LeadsTo
    <3> QED
      BY <3>1, <3>2
  <2> QED
    BY <2>1, <2>2, <2>3
<1>6. Done(types, stack, lists, Followed, Target, uses[at].type, D)
  BY <1>1, <1>2, <1>3, <1>5 DEF Done
<1> QED
  BY <1>2, <1>6, ReturnFalseIInv

(* And what a type has as elements, once they have been gone through.       *)
LEMMA NoMoreElementsIInv ==
  ASSUME IInv, stack # <<>>, NoMoreElements
  PROVE  IInv'
<1> DEFINE t == Top.type
           n == Len(stack)
           N == Len(lists)
<1>1. /\ IsGraph(types) /\ Searched(types, stack, lists, Followed, Target, uses[at].type)
      /\ Top = stack[n] /\ t \in DOMAIN types /\ Top.list = N /\ Top.next \in Nat
      /\ n \in 1..n /\ n \in Nat
  BY SearchFacts
<1>2. Top.next > Len(types[t].elems) /\ Top.next > 0 /\ ReturnFalse
  BY DEF NoMoreElements, TypeOf
<1>3. PICK D : Explored(types, stack, lists, Followed, Target, uses[at].type, D)
  BY <1>1 DEF Searched
<1>4. \A j \in 1..stack[n].next - 1 :
        \/ types[stack[n].type].elems[j] \in D[stack[n].list]
        \/ n < n /\ types[stack[n].type].elems[j] \in D[stack[n + 1].list]
  BY <1>1, <1>3 DEF Explored
<1>5. Len(types[t].elems) \in Nat
  BY <1>1, ElementsTyped
<1>6. \A j \in 1..Len(types[t].elems) : types[t].elems[j] \in D[N]
  <2>1. \A j \in 1..Len(types[t].elems) : j \in 1..stack[n].next - 1
    BY <1>1, <1>2, <1>5
  <2>2. ~(n < n)
    BY <1>1
  <2>3. stack[n].type = t /\ stack[n].list = N
    BY <1>1
  <2> HIDE DEF t, n, N
  <2> QED
    BY <1>4, <2>1, <2>2, <2>3
<1>7. LeadsTo(types, Followed, t) \subseteq D[N]
  BY <1>6 DEF LeadsTo, Elements
<1>8. Top.next # 0
  BY <1>2
<1>9. Done(types, stack, lists, Followed, Target, uses[at].type, D)
  BY <1>1, <1>3, <1>7, <1>8 DEF Done
<1> QED
  BY <1>2, <1>9, ReturnFalseIInv

-----------------------------------------------------------------------------
(* The invariant                                                            *)

(* The invariant at first.                                                  *)
LEMMA InitIInv == Init => IInv
<1> SUFFICES ASSUME Init PROVE IInv
  OBVIOUS
<1>1. PICK n \in 1..MaxUses : uses \in [1..n -> Uses]
  BY DEF Init
<1>2. MaxUses \in Nat
  BY TypeSearchAssumption
<1>3. uses \in Seq(Uses) /\ Len(uses) = n /\ n \in Nat /\ n >= 1 /\ n <= MaxUses
  BY <1>1, <1>2
<1>4. /\ types \in TypeGraphs /\ at = 1 /\ forHalf = FALSE /\ bUseDoubles = FALSE /\ fp16 = FALSE
      /\ stack = <<Frame(uses[1].type, 1)>> /\ lists = << {} >>
  BY DEF Init
<1>5. Typed
  <2>1. /\ at \in Nat /\ at >= 1 /\ at <= Len(uses) + 1 /\ Len(uses) <= MaxUses
    BY <1>2, <1>3, <1>4
  <2>2. forHalf \in BOOLEAN /\ bUseDoubles \in BOOLEAN /\ fp16 \in BOOLEAN
    BY <1>4
  <2> QED
    BY <1>3, <1>4, <2>1, <2>2 DEF Typed
<1>6. Told
  <2>1. DoubleDone = 1..0 /\ 1..at - 1 = 1..0
    BY <1>4 DEF DoubleDone
  <2>2. ~HasDouble(types, uses, 1..0) /\ ~HasHalf(types, uses, 1..0)
    BY DEF HasDouble, HasHalf
  <2>3. ~bUseDoubles /\ ~fp16
    BY <1>4
  <2> QED
    BY <2>1, <2>2, <2>3 DEF Told
<1>7. Searching
  <2>1. IsGraph(types) /\ uses[1].type \in DOMAIN types
    <3>1. 1 \in 1..Len(uses)
      BY <1>3
    <3> QED
      BY <1>5, <3>1, TypesFacts
  <2>2. Searched(types, <<Frame(uses[1].type, 1)>>, << {} >>, Followed, Target, uses[1].type)
    BY <2>1, SearchBegins
  <2>3. stack # <<>>
    BY <1>4
  <2> QED
    BY <1>3, <1>4, <2>2, <2>3 DEF Searching
<1> QED
  BY <1>5, <1>6, <1>7 DEF IInv

(* Every step keeps the invariant.                                          *)
LEMMA NextIInv == IInv /\ [Next]_vars => IInv'
<1> SUFFICES ASSUME IInv, [Next]_vars PROVE IInv'
  OBVIOUS
<1>1. CASE UNCHANGED vars
  <2>1. /\ types' = types /\ uses' = uses /\ at' = at /\ forHalf' = forHalf /\ stack' = stack
        /\ lists' = lists /\ bUseDoubles' = bUseDoubles /\ fp16' = fp16
    BY <1>1 DEF vars
  <2>2. Followed' = Followed /\ Target' = Target /\ DoubleDone' = DoubleDone
    BY <2>1 DEF Followed, Target, DoubleDone
  <2>3. Typed'
    BY <2>1 DEF IInv, Typed
  <2>4. Told'
    BY <2>1, <2>2 DEF IInv, Told
  <2>5. Searching'
    BY <2>1, <2>2 DEF IInv, Searching
  <2> QED
    BY <2>3, <2>4, <2>5 DEF IInv
<1>2. CASE Next
  <2>1. stack # <<>>
    BY <1>2 DEF Next
  <2>2. CASE IsTarget
    BY <2>1, <2>2, IsTargetIInv
  <2>3. CASE PassOn
    BY <2>1, <2>3, PassOnIInv
  <2>4. CASE Open
    BY <2>1, <2>4, OpenIInv
  <2>5. CASE NotThere
    BY <2>1, <2>5, NotThereIInv
  <2>6. CASE SearchElement
    BY <2>1, <2>6, SearchElementIInv
  <2>7. CASE NoMoreElements
    BY <2>1, <2>7, NoMoreElementsIInv
  <2> QED
    BY <1>2, <2>2, <2>3, <2>4, <2>5, <2>6, <2>7 DEF Next
<1> QED
  BY <1>1, <1>2

(* The invariant holds at all times.                                        *)
LEMMA IInvHolds == Spec => []IInv
  BY InitIInv, NextIInv, PTL DEF Spec

(* The types of the variables, and what the calls keep on their lists
   (searchTypeInType).                                                      *)
THEOREM SearchTyped == Spec => []TypeOK
<1>1. IInv => TypeOK
  <2> SUFFICES ASSUME IInv PROVE TypeOK
    OBVIOUS
  <2>1. /\ Len(uses) <= MaxUses /\ Len(uses) \in Nat
        /\ at \in 1..Len(uses) + 1
        /\ {forHalf, bUseDoubles, fp16} \subseteq BOOLEAN
    BY TypesFacts DEF IInv, Typed
  <2>2. CASE stack = <<>>
    BY <2>1, <2>2 DEF TypeOK
  <2>3. CASE stack # <<>>
    <3>1. Top.list = Len(lists) /\ IsGraph(types) /\ Shaped(types, stack, lists)
      BY <2>3, SearchFacts
    <3>2. DOMAIN stack = 1..Len(stack)
      BY <3>1 DEF Shaped
    <3>3. ASSUME NEW i \in 1..Len(stack)
          PROVE  /\ stack[i].next \in 0..Len(TypeOf(stack[i].type).elems) + 1
                 /\ stack[i].next > 0 => stack[i].type \in lists[stack[i].list]
      <4>1. stack[i].next \in Nat /\ Len(types[stack[i].type].elems) \in Nat
        BY <3>1, ShapeFacts
      <4>2. FrameOK(types, lists, stack[i])
        BY <3>1 DEF Shaped
      <4> QED
        BY <4>1, <4>2 DEF FrameOK, TypeOf
    <3>4. ASSUME NEW i \in 1..Len(stack), i > 1 PROVE stack[i].list >= stack[i - 1].list
      <4>1. i - 1 \in 1..Len(stack) /\ i - 1 <= i
        BY <3>4
      <4>2. stack[i - 1].list <= stack[i].list
        BY <3>1, <4>1 DEF Shaped
      <4>3. stack[i].list \in 1..Len(lists) /\ stack[i - 1].list \in 1..Len(lists)
        BY <3>1, <4>1, ShapeFacts
      <4> QED
        BY <4>2, <4>3
    <3> QED
      BY <2>1, <3>1, <3>2, <3>3, <3>4 DEF TypeOK
  <2> QED
    BY <2>2, <2>3
<1> QED
  BY <1>1, IInvHolds, PTL

(* The metadata tells, of any module, whether it uses doubles and whether half,
   for types that lead to each other in any way: that a pointer to what is on
   the list is not followed loses nothing (AddSPIRMetadata,
   FunctionAddSPIRMetadata, searchTypeInType).                              *)
THEOREM MetadataRight == Spec => []MetadataTellsUse
<1>1. IInv => MetadataTellsUse
  <2> SUFFICES ASSUME IInv, stack = <<>> PROVE MetadataTellsUse
    BY DEF MetadataTellsUse
  <2>1. at = Len(uses) + 1 /\ forHalf = FALSE /\ Len(uses) \in Nat /\ uses \in Seq(Uses)
    BY TypesFacts DEF IInv, Searching, Typed
  <2>2. at - 1 = Len(uses) /\ DOMAIN uses = 1..Len(uses)
    BY <2>1
  <2>3. DoubleDone = DOMAIN uses /\ 1..at - 1 = DOMAIN uses
    BY <2>1, <2>2 DEF DoubleDone
  <2>4. /\ bUseDoubles <=> HasDouble(types, uses, DOMAIN uses)
        /\ fp16 <=> HasHalf(types, uses, DOMAIN uses)
    BY <2>3 DEF IInv, Told
  <2> QED
    BY <2>4 DEF MetadataTellsUse, HasDouble, HasHalf
<1> QED
  BY <1>1, IInvHolds, PTL
=============================================================================
