--------------------------- MODULE DeltaTreeProofs ---------------------------
(* Proofs about DeltaTree for every width and every depth: that AddDelta keeps
   the tree verified and adds its delta for all places behind, and no other.  *)
EXTENDS DeltaTree, TLAPS, WellFoundedInduction, SequenceTheorems

-----------------------------------------------------------------------------
(* Numbers and recursion                                                    *)

(* A set of naturals has a least element.                                   *)
LEMMA Smallest ==
  ASSUME NEW S, S \subseteq Nat, S # {}
  PROVE  \E n \in S : \A m \in S : n <= m
<1>1. PICK n \in S : \A m \in S : ~(<<m, n>> \in OpToRel(<, Nat))
  BY NatLessThanWellFounded, WFMin
<1>2. OpToRel(<, Nat) = {ss \in Nat \X Nat : ss[1] < ss[2]}
  BY DEF OpToRel
<1>3. ASSUME NEW m \in S PROVE n <= m
  <2>1. ~(<<m, n>> \in {ss \in Nat \X Nat : ss[1] < ss[2]})
    BY <1>1, <1>2, Zenon
  <2>2. m \in Nat /\ n \in Nat
    OBVIOUS
  <2> QED
    BY <2>1, <2>2
<1> QED
  BY <1>3

(* What holds of a number, and of each next one, holds up to the last.      *)
LEMMA Reaches ==
  ASSUME NEW a \in Nat, NEW c \in Nat, NEW T, a \in T,
         \A i \in a..c - 1 : i \in T => i + 1 \in T
  PROVE  a..c \subseteq T
<1> DEFINE Rest == {i \in a..c : i \notin T}
<1>1. SUFFICES ASSUME Rest # {} PROVE FALSE
  OBVIOUS
<1>2. PICK n \in Rest : \A m \in Rest : n <= m
  <2>1. Rest \subseteq Nat
    OBVIOUS
  <2> HIDE DEF Rest
  <2> QED
    BY <1>1, <2>1, Smallest
<1>3. n \in a..c /\ n \notin T /\ n # a
  OBVIOUS
<1>4. n - 1 \in a..c - 1 /\ (n - 1) + 1 = n
  BY <1>3
<1>5. n - 1 \in T
  <2>1. n - 1 \in a..c /\ ~(n <= n - 1)
    BY <1>3
  <2>2. n - 1 \notin Rest
    <3> HIDE DEF Rest
    <3> QED
      BY <1>2, <2>1
  <2> QED
    BY <2>1, <2>2
<1> QED
  BY <1>3, <1>4, <1>5

(* And of all numbers, if it holds of each next one.                         *)
LEMMA AllNumbers ==
  ASSUME NEW T, 0 \in T, \A i \in Nat : i \in T => i + 1 \in T
  PROVE  Nat \subseteq T
<1>1. ASSUME NEW n \in Nat PROVE n \in T
  <2>1. 0..n \subseteq T /\ n \in 0..n
    BY Reaches
  <2> QED
    BY <2>1
<1> QED
  BY <1>1

(* What recurs from one height to the next is a function of the height: what
   it is of the leaves does not depend on anything below.                    *)
NodesStep(h, g) == [height : {h}, values : Seq(Value), full : Int,
                    children : IF h = 0 THEN {<<>>} ELSE Seq(g)]
InsertedStep(loc, d, h, g) == [n \in Nodes[h] |->
  LET i == PlaceOf(n, loc)
  IN IF Holds(n, i, loc) THEN Whole(AddedHere(n, i, d))
     ELSE IF IsLeaf(n) THEN LeafInsertion(n, loc, d)
     ELSE Returned(n, i, d, g[n.children[i]])]
DeltaAtStep(loc, h, g) == [n \in Nodes[h] |->
  LET i == PlaceOf(n, loc)
      before == SumOfValues(SubSeq(n.values, 1, i - 1))
      left == SumOfNodes(SubSeq(n.children, 1, i - 1))
  IN IF IsLeaf(n) THEN before
     ELSE before + left + (IF Holds(n, i, loc) THEN n.children[i].full
                           ELSE g[n.children[i]])]
NodesOfStep(h, g) == [n \in Nodes[h] |->
  {n} \cup UNION {g[n.children[i]] : i \in DOMAIN n.children}]

(* The sets of nodes.                                                        *)
LEMMA NodesDefined ==
  \E f : f = [h \in Nat |-> NodesStep(h, f[h - 1])]
<1> DEFINE S(h, g) == NodesStep(h, g)
           Upto(f, H) == f[0] = S(0, <<>>) /\ \A h \in 1..H : f[h] = S(h, f[h - 1])
           Has == {H \in Nat : \E f : Upto(f, H)}
           pick(H) == CHOOSE f : Upto(f, H)
           F == [H \in Nat |-> pick(H)[H]]
<1>1. \A g : S(0, g) = S(0, <<>>)
  BY DEF NodesStep
<1> HIDE DEF S
<1>2. 0 \in Has
  <2> DEFINE f == [h \in {0} |-> S(0, <<>>)]
  <2>1. Upto(f, 0)
    OBVIOUS
  <2> QED
    BY <2>1
<1>3. \A H \in Nat : H \in Has => H + 1 \in Has
  <2>1. SUFFICES ASSUME NEW H \in Nat, NEW f, Upto(f, H) PROVE H + 1 \in Has
    OBVIOUS
  <2> DEFINE e == [h \in 0..H + 1 |-> IF h = H + 1 THEN S(h, f[H]) ELSE f[h]]
  <2>2. e[0] = S(0, <<>>)
    BY <2>1
  <2>3. ASSUME NEW h \in 1..H + 1 PROVE e[h] = S(h, e[h - 1])
    <3>1. h - 1 \in 0..H + 1 /\ h - 1 # H + 1 /\ e[h - 1] = f[h - 1]
      OBVIOUS
    <3>2. CASE h = H + 1
      BY <3>1, <3>2
    <3>3. CASE h # H + 1
      <4>1. h \in 1..H /\ e[h] = f[h]
        BY <3>3
      <4> HIDE DEF e
      <4> QED
        BY <2>1, <3>1, <4>1
    <3> QED
      BY <3>2, <3>3
  <2>4. Upto(e, H + 1)
    <3> HIDE DEF e
    <3> QED
      BY <2>2, <2>3
  <2> HIDE DEF e, Upto
  <2> QED
    BY <2>4
<1>4. \A H \in Nat : Upto(pick(H), H)
  <2>1. Nat \subseteq Has
    <3> HIDE DEF Has
    <3> QED
      BY <1>2, <1>3, AllNumbers
  <2> HIDE DEF Upto
  <2> QED
    BY <2>1
<1>5. ASSUME NEW H \in Nat, NEW f, NEW g, Upto(f, H), Upto(g, H)
      PROVE  f[H] = g[H]
  <2> DEFINE T == {h \in Nat : f[h] = g[h]}
  <2>1. 0 \in T
    BY <1>5
  <2>2. \A h \in 0..H - 1 : h \in T => h + 1 \in T
    <3>1. SUFFICES ASSUME NEW h \in 0..H - 1, f[h] = g[h] PROVE f[h + 1] = g[h + 1]
      OBVIOUS
    <3>2. h + 1 \in 1..H /\ (h + 1) - 1 = h
      OBVIOUS
    <3> QED
      BY <1>5, <3>1, <3>2
  <2> HIDE DEF T
  <2>3. 0..H \subseteq T /\ H \in 0..H
    BY <2>1, <2>2, Reaches
  <2> QED
    BY <2>3 DEF T
<1>6. \A H \in Nat : F[H] = S(H, F[H - 1])
  <2>1. ASSUME NEW H \in Nat PROVE F[H] = S(H, F[H - 1])
    <3>1. CASE H = 0
      <4>1. F[0] = S(0, <<>>)
        BY <1>4
      <4> QED
        BY <1>1, <3>1, <4>1
    <3>2. CASE H # 0
      <4> DEFINE p == pick(H)
                 q == pick(H - 1)
      <4>1. H - 1 \in Nat /\ H \in 1..H
        BY <3>2
      <4>2. Upto(p, H) /\ Upto(q, H - 1)
        BY <1>4, <4>1
      <4> HIDE DEF p, q
      <4>3. Upto(p, H - 1) /\ p[H] = S(H, p[H - 1])
        BY <4>1, <4>2
      <4>4. p[H - 1] = q[H - 1]
        <5> HIDE DEF Upto
        <5> QED
          BY <1>5, <4>1, <4>2, <4>3
      <4>5. F[H] = p[H] /\ F[H - 1] = q[H - 1]
        BY <4>1 DEF p, q
      <4> HIDE DEF F
      <4> QED
        BY <4>3, <4>4, <4>5
    <3> QED
      BY <3>1, <3>2
  <2> QED
    BY <2>1
<1>7. F = [H \in Nat |-> S(H, F[H - 1])]
  <2>1. F = [H \in Nat |-> F[H]]
    OBVIOUS
  <2> HIDE DEF F
  <2> QED
    BY <1>6, <2>1
<1> HIDE DEF F
<1> QED
  BY <1>7 DEF S

(* The nodes of each height.                                                 *)
LEMMA NodesAre ==
  ASSUME NEW h \in Nat
  PROVE  Nodes[h] = [height : {h}, values : Seq(Value), full : Int,
                     children : IF h = 0 THEN {<<>>} ELSE Seq(Nodes[h - 1])]
<1> DEFINE Is(f) == f = [k \in Nat |-> [height : {k}, values : Seq(Value), full : Int,
                                       children : IF k = 0 THEN {<<>>} ELSE Seq(f[k - 1])]]
<1>1. \E f : Is(f)
  BY NodesDefined DEF NodesStep
<1>2. Is(Nodes)
  <2>1. Nodes = CHOOSE f : Is(f)
    BY DEF Nodes
  <2> HIDE DEF Is
  <2> QED
    BY <1>1, <2>1
<1> QED
  BY <1>2

(* A leaf has no children.                                                   *)
LEMMA LeafNodes ==
  \A n \in Nodes[0] : n.height = 0 /\ n.children = <<>>
<1>1. Nodes[0] = [height : {0}, values : Seq(Value), full : Int,
                  children : IF 0 = 0 THEN {<<>>} ELSE Seq(Nodes[0 - 1])]
  BY NodesAre
<1>2. Nodes[0] = [height : {0}, values : Seq(Value), full : Int, children : {<<>>}]
  BY <1>1
<1> QED
  BY <1>2

(* Insertions.                                                               *)
LEMMA InsertedDefined ==
  ASSUME NEW loc, NEW d
  PROVE  \E f : f = [h \in Nat |-> InsertedStep(loc, d, h, f[h - 1])]
<1> DEFINE S(h, g) == InsertedStep(loc, d, h, g)
           Upto(f, H) == f[0] = S(0, <<>>) /\ \A h \in 1..H : f[h] = S(h, f[h - 1])
           Has == {H \in Nat : \E f : Upto(f, H)}
           pick(H) == CHOOSE f : Upto(f, H)
           F == [H \in Nat |-> pick(H)[H]]
<1>1. \A g : S(0, g) = S(0, <<>>)
  <2>1. \A n \in Nodes[0] : IsLeaf(n)
    BY LeafNodes DEF IsLeaf
  <2> QED
    BY <2>1 DEF InsertedStep
<1> HIDE DEF S
<1>2. 0 \in Has
  <2> DEFINE f == [h \in {0} |-> S(0, <<>>)]
  <2>1. Upto(f, 0)
    OBVIOUS
  <2> QED
    BY <2>1
<1>3. \A H \in Nat : H \in Has => H + 1 \in Has
  <2>1. SUFFICES ASSUME NEW H \in Nat, NEW f, Upto(f, H) PROVE H + 1 \in Has
    OBVIOUS
  <2> DEFINE e == [h \in 0..H + 1 |-> IF h = H + 1 THEN S(h, f[H]) ELSE f[h]]
  <2>2. e[0] = S(0, <<>>)
    BY <2>1
  <2>3. ASSUME NEW h \in 1..H + 1 PROVE e[h] = S(h, e[h - 1])
    <3>1. h - 1 \in 0..H + 1 /\ h - 1 # H + 1 /\ e[h - 1] = f[h - 1]
      OBVIOUS
    <3>2. CASE h = H + 1
      BY <3>1, <3>2
    <3>3. CASE h # H + 1
      <4>1. h \in 1..H /\ e[h] = f[h]
        BY <3>3
      <4> HIDE DEF e
      <4> QED
        BY <2>1, <3>1, <4>1
    <3> QED
      BY <3>2, <3>3
  <2>4. Upto(e, H + 1)
    <3> HIDE DEF e
    <3> QED
      BY <2>2, <2>3
  <2> HIDE DEF e, Upto
  <2> QED
    BY <2>4
<1>4. \A H \in Nat : Upto(pick(H), H)
  <2>1. Nat \subseteq Has
    <3> HIDE DEF Has
    <3> QED
      BY <1>2, <1>3, AllNumbers
  <2> HIDE DEF Upto
  <2> QED
    BY <2>1
<1>5. ASSUME NEW H \in Nat, NEW f, NEW g, Upto(f, H), Upto(g, H)
      PROVE  f[H] = g[H]
  <2> DEFINE T == {h \in Nat : f[h] = g[h]}
  <2>1. 0 \in T
    BY <1>5
  <2>2. \A h \in 0..H - 1 : h \in T => h + 1 \in T
    <3>1. SUFFICES ASSUME NEW h \in 0..H - 1, f[h] = g[h] PROVE f[h + 1] = g[h + 1]
      OBVIOUS
    <3>2. h + 1 \in 1..H /\ (h + 1) - 1 = h
      OBVIOUS
    <3> QED
      BY <1>5, <3>1, <3>2
  <2> HIDE DEF T
  <2>3. 0..H \subseteq T /\ H \in 0..H
    BY <2>1, <2>2, Reaches
  <2> QED
    BY <2>3 DEF T
<1>6. \A H \in Nat : F[H] = S(H, F[H - 1])
  <2>1. ASSUME NEW H \in Nat PROVE F[H] = S(H, F[H - 1])
    <3>1. CASE H = 0
      <4>1. F[0] = S(0, <<>>)
        BY <1>4
      <4> QED
        BY <1>1, <3>1, <4>1
    <3>2. CASE H # 0
      <4> DEFINE p == pick(H)
                 q == pick(H - 1)
      <4>1. H - 1 \in Nat /\ H \in 1..H
        BY <3>2
      <4>2. Upto(p, H) /\ Upto(q, H - 1)
        BY <1>4, <4>1
      <4> HIDE DEF p, q
      <4>3. Upto(p, H - 1) /\ p[H] = S(H, p[H - 1])
        BY <4>1, <4>2
      <4>4. p[H - 1] = q[H - 1]
        <5> HIDE DEF Upto
        <5> QED
          BY <1>5, <4>1, <4>2, <4>3
      <4>5. F[H] = p[H] /\ F[H - 1] = q[H - 1]
        BY <4>1 DEF p, q
      <4> HIDE DEF F
      <4> QED
        BY <4>3, <4>4, <4>5
    <3> QED
      BY <3>1, <3>2
  <2> QED
    BY <2>1
<1>7. F = [H \in Nat |-> S(H, F[H - 1])]
  <2>1. F = [H \in Nat |-> F[H]]
    OBVIOUS
  <2> HIDE DEF F
  <2> QED
    BY <1>6, <2>1
<1> HIDE DEF F
<1> QED
  BY <1>7 DEF S

(* Sums.                                                                     *)
LEMMA DeltaAtDefined ==
  ASSUME NEW loc
  PROVE  \E f : f = [h \in Nat |-> DeltaAtStep(loc, h, f[h - 1])]
<1> DEFINE S(h, g) == DeltaAtStep(loc, h, g)
           Upto(f, H) == f[0] = S(0, <<>>) /\ \A h \in 1..H : f[h] = S(h, f[h - 1])
           Has == {H \in Nat : \E f : Upto(f, H)}
           pick(H) == CHOOSE f : Upto(f, H)
           F == [H \in Nat |-> pick(H)[H]]
<1>1. \A g : S(0, g) = S(0, <<>>)
  <2>1. \A n \in Nodes[0] : IsLeaf(n)
    BY LeafNodes DEF IsLeaf
  <2> QED
    BY <2>1 DEF DeltaAtStep
<1> HIDE DEF S
<1>2. 0 \in Has
  <2> DEFINE f == [h \in {0} |-> S(0, <<>>)]
  <2>1. Upto(f, 0)
    OBVIOUS
  <2> QED
    BY <2>1
<1>3. \A H \in Nat : H \in Has => H + 1 \in Has
  <2>1. SUFFICES ASSUME NEW H \in Nat, NEW f, Upto(f, H) PROVE H + 1 \in Has
    OBVIOUS
  <2> DEFINE e == [h \in 0..H + 1 |-> IF h = H + 1 THEN S(h, f[H]) ELSE f[h]]
  <2>2. e[0] = S(0, <<>>)
    BY <2>1
  <2>3. ASSUME NEW h \in 1..H + 1 PROVE e[h] = S(h, e[h - 1])
    <3>1. h - 1 \in 0..H + 1 /\ h - 1 # H + 1 /\ e[h - 1] = f[h - 1]
      OBVIOUS
    <3>2. CASE h = H + 1
      BY <3>1, <3>2
    <3>3. CASE h # H + 1
      <4>1. h \in 1..H /\ e[h] = f[h]
        BY <3>3
      <4> HIDE DEF e
      <4> QED
        BY <2>1, <3>1, <4>1
    <3> QED
      BY <3>2, <3>3
  <2>4. Upto(e, H + 1)
    <3> HIDE DEF e
    <3> QED
      BY <2>2, <2>3
  <2> HIDE DEF e, Upto
  <2> QED
    BY <2>4
<1>4. \A H \in Nat : Upto(pick(H), H)
  <2>1. Nat \subseteq Has
    <3> HIDE DEF Has
    <3> QED
      BY <1>2, <1>3, AllNumbers
  <2> HIDE DEF Upto
  <2> QED
    BY <2>1
<1>5. ASSUME NEW H \in Nat, NEW f, NEW g, Upto(f, H), Upto(g, H)
      PROVE  f[H] = g[H]
  <2> DEFINE T == {h \in Nat : f[h] = g[h]}
  <2>1. 0 \in T
    BY <1>5
  <2>2. \A h \in 0..H - 1 : h \in T => h + 1 \in T
    <3>1. SUFFICES ASSUME NEW h \in 0..H - 1, f[h] = g[h] PROVE f[h + 1] = g[h + 1]
      OBVIOUS
    <3>2. h + 1 \in 1..H /\ (h + 1) - 1 = h
      OBVIOUS
    <3> QED
      BY <1>5, <3>1, <3>2
  <2> HIDE DEF T
  <2>3. 0..H \subseteq T /\ H \in 0..H
    BY <2>1, <2>2, Reaches
  <2> QED
    BY <2>3 DEF T
<1>6. \A H \in Nat : F[H] = S(H, F[H - 1])
  <2>1. ASSUME NEW H \in Nat PROVE F[H] = S(H, F[H - 1])
    <3>1. CASE H = 0
      <4>1. F[0] = S(0, <<>>)
        BY <1>4
      <4> QED
        BY <1>1, <3>1, <4>1
    <3>2. CASE H # 0
      <4> DEFINE p == pick(H)
                 q == pick(H - 1)
      <4>1. H - 1 \in Nat /\ H \in 1..H
        BY <3>2
      <4>2. Upto(p, H) /\ Upto(q, H - 1)
        BY <1>4, <4>1
      <4> HIDE DEF p, q
      <4>3. Upto(p, H - 1) /\ p[H] = S(H, p[H - 1])
        BY <4>1, <4>2
      <4>4. p[H - 1] = q[H - 1]
        <5> HIDE DEF Upto
        <5> QED
          BY <1>5, <4>1, <4>2, <4>3
      <4>5. F[H] = p[H] /\ F[H - 1] = q[H - 1]
        BY <4>1 DEF p, q
      <4> HIDE DEF F
      <4> QED
        BY <4>3, <4>4, <4>5
    <3> QED
      BY <3>1, <3>2
  <2> QED
    BY <2>1
<1>7. F = [H \in Nat |-> S(H, F[H - 1])]
  <2>1. F = [H \in Nat |-> F[H]]
    OBVIOUS
  <2> HIDE DEF F
  <2> QED
    BY <1>6, <2>1
<1> HIDE DEF F
<1> QED
  BY <1>7 DEF S

(* The nodes of a tree.                                                      *)
LEMMA NodesOfDefined ==
  \E f : f = [h \in Nat |-> NodesOfStep(h, f[h - 1])]
<1> DEFINE S(h, g) == NodesOfStep(h, g)
           Upto(f, H) == f[0] = S(0, <<>>) /\ \A h \in 1..H : f[h] = S(h, f[h - 1])
           Has == {H \in Nat : \E f : Upto(f, H)}
           pick(H) == CHOOSE f : Upto(f, H)
           F == [H \in Nat |-> pick(H)[H]]
<1>1. \A g : S(0, g) = S(0, <<>>)
  <2>1. \A n \in Nodes[0] : DOMAIN n.children = {}
    BY LeafNodes
  <2> QED
    BY <2>1 DEF NodesOfStep
<1> HIDE DEF S
<1>2. 0 \in Has
  <2> DEFINE f == [h \in {0} |-> S(0, <<>>)]
  <2>1. Upto(f, 0)
    OBVIOUS
  <2> QED
    BY <2>1
<1>3. \A H \in Nat : H \in Has => H + 1 \in Has
  <2>1. SUFFICES ASSUME NEW H \in Nat, NEW f, Upto(f, H) PROVE H + 1 \in Has
    OBVIOUS
  <2> DEFINE e == [h \in 0..H + 1 |-> IF h = H + 1 THEN S(h, f[H]) ELSE f[h]]
  <2>2. e[0] = S(0, <<>>)
    BY <2>1
  <2>3. ASSUME NEW h \in 1..H + 1 PROVE e[h] = S(h, e[h - 1])
    <3>1. h - 1 \in 0..H + 1 /\ h - 1 # H + 1 /\ e[h - 1] = f[h - 1]
      OBVIOUS
    <3>2. CASE h = H + 1
      BY <3>1, <3>2
    <3>3. CASE h # H + 1
      <4>1. h \in 1..H /\ e[h] = f[h]
        BY <3>3
      <4> HIDE DEF e
      <4> QED
        BY <2>1, <3>1, <4>1
    <3> QED
      BY <3>2, <3>3
  <2>4. Upto(e, H + 1)
    <3> HIDE DEF e
    <3> QED
      BY <2>2, <2>3
  <2> HIDE DEF e, Upto
  <2> QED
    BY <2>4
<1>4. \A H \in Nat : Upto(pick(H), H)
  <2>1. Nat \subseteq Has
    <3> HIDE DEF Has
    <3> QED
      BY <1>2, <1>3, AllNumbers
  <2> HIDE DEF Upto
  <2> QED
    BY <2>1
<1>5. ASSUME NEW H \in Nat, NEW f, NEW g, Upto(f, H), Upto(g, H)
      PROVE  f[H] = g[H]
  <2> DEFINE T == {h \in Nat : f[h] = g[h]}
  <2>1. 0 \in T
    BY <1>5
  <2>2. \A h \in 0..H - 1 : h \in T => h + 1 \in T
    <3>1. SUFFICES ASSUME NEW h \in 0..H - 1, f[h] = g[h] PROVE f[h + 1] = g[h + 1]
      OBVIOUS
    <3>2. h + 1 \in 1..H /\ (h + 1) - 1 = h
      OBVIOUS
    <3> QED
      BY <1>5, <3>1, <3>2
  <2> HIDE DEF T
  <2>3. 0..H \subseteq T /\ H \in 0..H
    BY <2>1, <2>2, Reaches
  <2> QED
    BY <2>3 DEF T
<1>6. \A H \in Nat : F[H] = S(H, F[H - 1])
  <2>1. ASSUME NEW H \in Nat PROVE F[H] = S(H, F[H - 1])
    <3>1. CASE H = 0
      <4>1. F[0] = S(0, <<>>)
        BY <1>4
      <4> QED
        BY <1>1, <3>1, <4>1
    <3>2. CASE H # 0
      <4> DEFINE p == pick(H)
                 q == pick(H - 1)
      <4>1. H - 1 \in Nat /\ H \in 1..H
        BY <3>2
      <4>2. Upto(p, H) /\ Upto(q, H - 1)
        BY <1>4, <4>1
      <4> HIDE DEF p, q
      <4>3. Upto(p, H - 1) /\ p[H] = S(H, p[H - 1])
        BY <4>1, <4>2
      <4>4. p[H - 1] = q[H - 1]
        <5> HIDE DEF Upto
        <5> QED
          BY <1>5, <4>1, <4>2, <4>3
      <4>5. F[H] = p[H] /\ F[H - 1] = q[H - 1]
        BY <4>1 DEF p, q
      <4> HIDE DEF F
      <4> QED
        BY <4>3, <4>4, <4>5
    <3> QED
      BY <3>1, <3>2
  <2> QED
    BY <2>1
<1>7. F = [H \in Nat |-> S(H, F[H - 1])]
  <2>1. F = [H \in Nat |-> F[H]]
    OBVIOUS
  <2> HIDE DEF F
  <2> QED
    BY <1>6, <2>1
<1> HIDE DEF F
<1> QED
  BY <1>7 DEF S

(* The members of a node of a height have their types.                       *)
LEMMA NodeTyped ==
  ASSUME NEW h \in Nat, NEW n \in Nodes[h]
  PROVE  /\ n.height = h /\ n.values \in Seq(Value) /\ n.full \in Int
         /\ h = 0 => n.children = <<>>
         /\ h # 0 => n.children \in Seq(Nodes[h - 1])
         /\ n = Node(h, n.values, n.children, n.full)
<1> DEFINE C == IF h = 0 THEN {<<>>} ELSE Seq(Nodes[h - 1])
<1>1. Nodes[h] = [height : {h}, values : Seq(Value), full : Int, children : C]
  BY NodesAre
<1>2. h = 0 => C = {<<>>}
  OBVIOUS
<1>3. h # 0 => C = Seq(Nodes[h - 1])
  OBVIOUS
<1> HIDE DEF C
<1>4. n \in [height : {h}, values : Seq(Value), full : Int, children : C]
  BY <1>1
<1>5. n = Node(h, n.values, n.children, n.full)
  BY <1>4 DEF Node
<1> QED
  BY <1>2, <1>3, <1>4, <1>5

(* A node has what it is made of.                                           *)
LEMMA NodeMade ==
  ASSUME NEW h \in Nat, NEW vs \in Seq(Value), NEW full \in Int, NEW cs,
         h = 0 => cs = <<>>, h # 0 => cs \in Seq(Nodes[h - 1])
  PROVE  /\ Node(h, vs, cs, full) \in Nodes[h]
         /\ Node(h, vs, cs, full).height = h /\ Node(h, vs, cs, full).values = vs
         /\ Node(h, vs, cs, full).children = cs /\ Node(h, vs, cs, full).full = full
<1> DEFINE C == IF h = 0 THEN {<<>>} ELSE Seq(Nodes[h - 1])
<1>1. Nodes[h] = [height : {h}, values : Seq(Value), full : Int, children : C]
  BY NodesAre
<1>2. cs \in C
  OBVIOUS
<1> HIDE DEF C
<1> QED
  BY <1>1, <1>2 DEF Node

(* An insertion and what it does to the child that it goes to.               *)
LEMMA DoInsertionIs ==
  ASSUME NEW h \in Nat, NEW n \in Nodes[h], NEW loc, NEW d
  PROVE  LET i == PlaceOf(n, loc)
             c == n.children[i]
         IN /\ Holds(n, i, loc) => DoInsertion(n, loc, d) = Whole(AddedHere(n, i, d))
            /\ ~Holds(n, i, loc) /\ h = 0 => DoInsertion(n, loc, d) = LeafInsertion(n, loc, d)
            /\ ~Holds(n, i, loc) /\ h # 0 /\ c \in Nodes[h - 1] =>
                 DoInsertion(n, loc, d) = Returned(n, i, d, DoInsertion(c, loc, d))
<1> DEFINE Is(f) == f = [k \in Nat |-> [m \in Nodes[k] |->
                      LET i == PlaceOf(m, loc)
                      IN IF Holds(m, i, loc) THEN Whole(AddedHere(m, i, d))
                         ELSE IF IsLeaf(m) THEN LeafInsertion(m, loc, d)
                         ELSE Returned(m, i, d, f[k - 1][m.children[i]])]]
           inserted == CHOOSE f : Is(f)
           i == PlaceOf(n, loc)
           c == n.children[i]
<1>1. \E f : Is(f)
  <2>1. PICK f : f = [k \in Nat |-> InsertedStep(loc, d, k, f[k - 1])]
    BY InsertedDefined, Zenon
  <2>2. Is(f)
    BY <2>1 DEF InsertedStep
  <2> QED
    BY <2>2, Zenon
<1>2. Is(inserted)
  <2> HIDE DEF Is
  <2> QED
    BY <1>1
<1>3. \A m : DoInsertion(m, loc, d) = inserted[m.height][m]
  BY DEF DoInsertion
<1>4. inserted[h] = InsertedStep(loc, d, h, inserted[h - 1])
  <2> HIDE DEF inserted
  <2> QED
    BY <1>2 DEF InsertedStep
<1> HIDE DEF inserted, Is
<1>5. inserted[h][n] = IF Holds(n, i, loc) THEN Whole(AddedHere(n, i, d))
                       ELSE IF IsLeaf(n) THEN LeafInsertion(n, loc, d)
                       ELSE Returned(n, i, d, inserted[h - 1][c])
  BY <1>4 DEF InsertedStep
<1>6. n.height = h
  BY NodeTyped
<1>7. h # 0 /\ c \in Nodes[h - 1] => c.height = h - 1
  BY NodeTyped
<1>8. DoInsertion(n, loc, d) = inserted[h][n]
  BY <1>3, <1>6
<1>9. h # 0 /\ c \in Nodes[h - 1] => DoInsertion(c, loc, d) = inserted[h - 1][c]
  BY <1>3, <1>7
<1> HIDE DEF i, c
<1>10. IsLeaf(n) <=> h = 0
  BY <1>6 DEF IsLeaf
<1>11. /\ Holds(n, i, loc) => DoInsertion(n, loc, d) = Whole(AddedHere(n, i, d))
       /\ ~Holds(n, i, loc) /\ h = 0 => DoInsertion(n, loc, d) = LeafInsertion(n, loc, d)
       /\ ~Holds(n, i, loc) /\ h # 0 /\ c \in Nodes[h - 1] =>
            DoInsertion(n, loc, d) = Returned(n, i, d, DoInsertion(c, loc, d))
  BY <1>5, <1>8, <1>9, <1>10
<1> QED
  BY <1>11 DEF i, c

(* What was added before a place.                                            *)
LEMMA GetDeltaAtIs ==
  ASSUME NEW h \in Nat, NEW n \in Nodes[h], NEW loc
  PROVE  LET i == PlaceOf(n, loc)
             c == n.children[i]
             before == SumOfValues(SubSeq(n.values, 1, i - 1))
             left == SumOfNodes(SubSeq(n.children, 1, i - 1))
         IN /\ h = 0 => GetDeltaAt(n, loc) = before
            /\ h # 0 /\ Holds(n, i, loc) => GetDeltaAt(n, loc) = before + left + c.full
            /\ h # 0 /\ ~Holds(n, i, loc) /\ c \in Nodes[h - 1] =>
                 GetDeltaAt(n, loc) = before + left + GetDeltaAt(c, loc)
<1> DEFINE Is(f) == f = [k \in Nat |-> [m \in Nodes[k] |->
                      LET i == PlaceOf(m, loc)
                          before == SumOfValues(SubSeq(m.values, 1, i - 1))
                          left == SumOfNodes(SubSeq(m.children, 1, i - 1))
                      IN IF IsLeaf(m) THEN before
                         ELSE before + left + (IF Holds(m, i, loc) THEN m.children[i].full
                                               ELSE f[k - 1][m.children[i]])]]
           deltaAt == CHOOSE f : Is(f)
           i == PlaceOf(n, loc)
           c == n.children[i]
           before == SumOfValues(SubSeq(n.values, 1, i - 1))
           left == SumOfNodes(SubSeq(n.children, 1, i - 1))
<1>1. \E f : Is(f)
  BY DeltaAtDefined DEF DeltaAtStep
<1>2. Is(deltaAt)
  <2> HIDE DEF Is
  <2> QED
    BY <1>1
<1>3. \A m : GetDeltaAt(m, loc) = deltaAt[m.height][m]
  BY DEF GetDeltaAt
<1>4. deltaAt[h] = DeltaAtStep(loc, h, deltaAt[h - 1])
  <2> HIDE DEF deltaAt
  <2> QED
    BY <1>2 DEF DeltaAtStep
<1> HIDE DEF deltaAt, Is
<1>5. deltaAt[h][n] = IF IsLeaf(n) THEN before
                      ELSE before + left + (IF Holds(n, i, loc) THEN c.full
                                            ELSE deltaAt[h - 1][c])
  BY <1>4 DEF DeltaAtStep
<1>6. n.height = h
  BY NodeTyped
<1>7. h # 0 /\ c \in Nodes[h - 1] => c.height = h - 1
  BY NodeTyped
<1>8. GetDeltaAt(n, loc) = deltaAt[h][n]
  BY <1>3, <1>6
<1>9. h # 0 /\ c \in Nodes[h - 1] => GetDeltaAt(c, loc) = deltaAt[h - 1][c]
  BY <1>3, <1>7
<1> HIDE DEF i, c, before, left
<1>10. IsLeaf(n) <=> h = 0
  BY <1>6 DEF IsLeaf
<1>11. /\ h = 0 => GetDeltaAt(n, loc) = before
       /\ h # 0 /\ Holds(n, i, loc) => GetDeltaAt(n, loc) = before + left + c.full
       /\ h # 0 /\ ~Holds(n, i, loc) /\ c \in Nodes[h - 1] =>
            GetDeltaAt(n, loc) = before + left + GetDeltaAt(c, loc)
  BY <1>5, <1>8, <1>9, <1>10
<1> QED
  BY <1>11 DEF i, c, before, left

(* The nodes of a tree are its root and those of its children.               *)
LEMMA NodesOfIs ==
  ASSUME NEW h \in Nat, NEW n \in Nodes[h]
  PROVE  NodesOf(n) = {n} \cup UNION {NodesOf(n.children[i]) : i \in DOMAIN n.children}
<1> DEFINE Is(f) == f = [k \in Nat |-> [m \in Nodes[k] |->
                      {m} \cup UNION {f[k - 1][m.children[i]] : i \in DOMAIN m.children}]]
           nodesOf == CHOOSE f : Is(f)
<1>1. \E f : Is(f)
  BY NodesOfDefined DEF NodesOfStep
<1>2. Is(nodesOf)
  <2> HIDE DEF Is
  <2> QED
    BY <1>1
<1>3. \A m : NodesOf(m) = nodesOf[m.height][m]
  BY DEF NodesOf
<1>4. nodesOf[h] = NodesOfStep(h, nodesOf[h - 1])
  <2> HIDE DEF nodesOf
  <2> QED
    BY <1>2 DEF NodesOfStep
<1> HIDE DEF nodesOf, Is
<1>5. nodesOf[h][n] = {n} \cup UNION {nodesOf[h - 1][n.children[i]] : i \in DOMAIN n.children}
  BY <1>4 DEF NodesOfStep
<1>6. \A i \in DOMAIN n.children : NodesOf(n.children[i]) = nodesOf[h - 1][n.children[i]]
  <2>1. TAKE i \in DOMAIN n.children
  <2>2. h # 0 /\ n.children \in Seq(Nodes[h - 1])
    BY NodeTyped
  <2>3. n.children[i] \in Nodes[h - 1] /\ h - 1 \in Nat
    BY <2>2
  <2> HIDE DEF nodesOf
  <2>4. n.children[i].height = h - 1
    BY <2>3, NodeTyped
  <2> QED
    BY <1>3, <2>4
<1>7. NodesOf(n) = nodesOf[h][n]
  BY <1>3, NodeTyped
<1> QED
  BY <1>5, <1>6, <1>7

-----------------------------------------------------------------------------
(* Sums                                                                     *)

(* A step for each number up to N, and the values that the steps lead to.   *)
Advances(G, N, S) == G \in [1..N -> [S -> S]]
Computed(f, G, N, S, base) ==
  f \in [0..N -> S] /\ f[0] = base /\ \A i \in 1..N : f[i] = G[i][f[i - 1]]

(* The values are there up to each number, or there were a least one up to
   which they are not.                                                      *)
LEMMA Recursion ==
  ASSUME NEW N \in Nat, NEW S, NEW base \in S, NEW G, Advances(G, N, S)
  PROVE  \E f : Computed(f, G, N, S, base)
<1> USE DEF Advances, Computed
<1> DEFINE Follows(f, n) == f[0] = base /\ \A i \in 1..n : f[i] = G[i][f[i - 1]]
           Defined(n) == \E f \in [0..n -> S] : Follows(f, n)
           Undefined == {n \in 0..N : ~Defined(n)}
<1>1. Undefined = {}
  <2>1. SUFFICES ASSUME Undefined # {} PROVE FALSE
    OBVIOUS
  <2>2. PICK n \in Undefined : \A m \in Undefined : n <= m
    <3>1. Undefined \subseteq Nat
      <4> HIDE DEF Defined
      <4> QED
        OBVIOUS
    <3> HIDE DEF Undefined
    <3> QED
      BY <2>1, <3>1, Smallest
  <2>3. n \in 0..N /\ ~Defined(n)
    <3> HIDE DEF Defined
    <3> QED
      BY <2>2
  <2>4. CASE n = 0
    <3> DEFINE f == [i \in 0..0 |-> base]
    <3>1. f \in [0..0 -> S] /\ Follows(f, 0)
      OBVIOUS
    <3> QED
      BY <2>3, <2>4, <3>1
  <2>5. CASE n # 0
    <3>1. n - 1 \in 0..N /\ ~(n <= n - 1)
      BY <2>3, <2>5
    <3>2. Defined(n - 1)
      <4> HIDE DEF Defined
      <4> QED
        BY <2>2, <3>1
    <3>3. PICK f \in [0..n - 1 -> S] : Follows(f, n - 1)
      BY <3>2
    <3> DEFINE v == G[n][f[n - 1]]
               g == [i \in 0..n |-> IF i = n THEN v ELSE f[i]]
    <3>4. v \in S
      BY <2>3, <2>5, <3>1
    <3>5. g \in [0..n -> S]
      BY <2>3, <2>5, <3>4
    <3>6. g[0] = base
      BY <2>3, <2>5, <3>3
    <3>7. ASSUME NEW i \in 1..n PROVE g[i] = G[i][g[i - 1]]
      <4>1. i - 1 \in 0..n /\ i - 1 # n /\ g[i - 1] = f[i - 1]
        BY <2>3
      <4>2. CASE i = n
        BY <2>3, <4>1, <4>2
      <4>3. CASE i # n
        <5>1. i \in 1..n - 1 /\ g[i] = f[i]
          BY <2>3, <4>3
        <5>2. f[i] = G[i][f[i - 1]]
          BY <3>3, <5>1
        <5> HIDE DEF g
        <5> QED
          BY <4>1, <5>1, <5>2
      <4> QED
        BY <4>2, <4>3
    <3>8. Follows(g, n)
      <4> HIDE DEF g
      <4> QED
        BY <3>6, <3>7
    <3> HIDE DEF g, Follows
    <3> QED
      BY <2>3, <3>5, <3>8
  <2> QED
    BY <2>4, <2>5
<1>2. Defined(N)
  <2> HIDE DEF Defined
  <2> QED
    BY <1>1
<1> QED
  BY <1>2

(* And whatever such a function is called, its values have the type.        *)
LEMMA RecursionTyped ==
  ASSUME NEW N \in Nat, NEW S, NEW base \in S, NEW f,
         f[0] = base, \A i \in 1..N : f[i - 1] \in S => f[i] \in S
  PROVE  \A i \in 0..N : f[i] \in S
<1> DEFINE Untyped == {i \in 0..N : f[i] \notin S}
<1>1. SUFFICES ASSUME Untyped # {} PROVE FALSE
  OBVIOUS
<1>2. PICK n \in Untyped : \A m \in Untyped : n <= m
  <2>1. Untyped \subseteq Nat
    OBVIOUS
  <2> HIDE DEF Untyped
  <2> QED
    BY <1>1, <2>1, Smallest
<1>3. n \in 1..N /\ f[n] \notin S
  OBVIOUS
<1>4. n - 1 \in 0..N /\ n - 1 \notin Untyped
  <2>1. n - 1 \in 0..N /\ ~(n <= n - 1)
    BY <1>3
  <2> HIDE DEF Untyped
  <2> QED
    BY <1>2, <2>1
<1> QED
  BY <1>3, <1>4

(* The sum of the first k of f.                                              *)
SumTo(f, k) == LET sum[i \in 0..k] == IF i = 0 THEN 0 ELSE sum[i - 1] + f[i]
               IN sum[k]
Ints(f, k) == \A i \in 1..k : f[i] \in Int

(* The partial sums that SumTo is defined by.                                *)
LEMMA SumSteps ==
  ASSUME NEW N \in Nat, NEW s, Ints(s, N)
  PROVE  \E p : /\ p[0] = 0 /\ \A i \in 1..N : p[i] = p[i - 1] + s[i]
                /\ \A i \in 0..N : p[i] \in Int
                /\ SumTo(s, N) = p[N]
<1> DEFINE G == [i \in 1..N |-> [a \in Int |-> a + s[i]]]
           Computes(f) == f = [i \in 0..N |-> IF i = 0 THEN 0 ELSE f[i - 1] + s[i]]
           sum == CHOOSE f : Computes(f)
<1>1. SumTo(s, N) = sum[N]
  BY DEF SumTo
<1>2. \A i \in 1..N : s[i] \in Int
  BY DEF Ints
<1>3. G \in [1..N -> [Int -> Int]] /\ \A i \in 1..N, a \in Int : G[i][a] = a + s[i]
  BY <1>2
<1> HIDE DEF G
<1>4. PICK f \in [0..N -> Int] : f[0] = 0 /\ \A i \in 1..N : f[i] = G[i][f[i - 1]]
  <2>1. Advances(G, N, Int) /\ 0 \in Int
    BY <1>3 DEF Advances
  <2> HIDE DEF Computes, sum
  <2>2. \E f : Computed(f, G, N, Int, 0)
    BY <2>1, Recursion
  <2> QED
    BY <2>2 DEF Computed
<1>5. Computes(f)
  <2>1. ASSUME NEW i \in 1..N PROVE f[i] = f[i - 1] + s[i]
    <3>1. i - 1 \in 0..N
      OBVIOUS
    <3> HIDE DEF Computes, sum
    <3>2. f[i - 1] \in Int
      BY <3>1
    <3>3. f[i] = G[i][f[i - 1]]
      BY <1>4
    <3> QED
      BY <1>3, <3>2, <3>3
  <2> QED
    BY <1>4, <2>1
<1>6. Computes(sum)
  <2> HIDE DEF Computes
  <2> QED
    BY <1>5
<1>7. sum[0] = 0 /\ \A i \in 1..N : sum[i] = sum[i - 1] + s[i]
  <2> HIDE DEF sum
  <2>1. \A i \in 0..N : sum[i] = IF i = 0 THEN 0 ELSE sum[i - 1] + s[i]
    BY <1>6
  <2> QED
    BY <2>1
<1> HIDE DEF sum
<1>8. \A i \in 0..N : sum[i] \in Int
  <2>1. ASSUME NEW i \in 1..N, sum[i - 1] \in Int PROVE sum[i] \in Int
    <3>1. sum[i] = sum[i - 1] + s[i] /\ s[i] \in Int
      BY <1>2, <1>7
    <3> QED
      BY <2>1, <3>1
  <2>2. sum[0] = 0 /\ 0 \in Int
    BY <1>7
  <2> QED
    BY <2>1, <2>2, RecursionTyped
<1> QED
  BY <1>1, <1>7, <1>8

(* What holds of 0, and of each next number up to k, holds of k: two sums that
   start together and go on together are the same.                           *)
LEMMA SumsTogether ==
  ASSUME NEW m \in Nat, NEW k \in Nat, m <= k, NEW p, NEW q, NEW c, NEW T,
         T = {i \in Nat : q[i] = p[i] + c}, m \in T,
         \A i \in m..k - 1 : i \in T => i + 1 \in T
  PROVE  q[k] = p[k] + c
<1>1. m..k \subseteq T
  BY Reaches
<1>2. k \in m..k
  OBVIOUS
<1> QED
  BY <1>1, <1>2

(* A sum has one more.                                                       *)
LEMMA SumNext ==
  /\ \A f : SumTo(f, 0) = 0
  /\ \A f : \A k \in Nat : Ints(f, k) => SumTo(f, k) \in Int
  /\ \A f : \A k \in Nat : Ints(f, k + 1) => SumTo(f, k + 1) = SumTo(f, k) + f[k + 1]
<1>1. ASSUME NEW f PROVE SumTo(f, 0) = 0
  <2>1. Ints(f, 0)
    BY DEF Ints
  <2> QED
    BY <2>1, SumSteps
<1>2. ASSUME NEW f, NEW k \in Nat, Ints(f, k) PROVE SumTo(f, k) \in Int
  <2>1. PICK p : (\A i \in 0..k : p[i] \in Int) /\ SumTo(f, k) = p[k]
    BY <1>2, SumSteps
  <2> QED
    BY <2>1
<1>3. ASSUME NEW f, NEW k \in Nat, Ints(f, k + 1)
      PROVE  SumTo(f, k + 1) = SumTo(f, k) + f[k + 1]
  <2>1. Ints(f, k) /\ k + 1 \in Nat /\ \A i \in 1..k + 1 : f[i] \in Int
    BY <1>3 DEF Ints
  <2>2. PICK p : /\ p[0] = 0 /\ \A i \in 1..k : p[i] = p[i - 1] + f[i]
                 /\ \A i \in 0..k : p[i] \in Int
                 /\ SumTo(f, k) = p[k]
    BY <2>1, SumSteps
  <2>3. PICK q : /\ q[0] = 0 /\ \A i \in 1..k + 1 : q[i] = q[i - 1] + f[i]
                 /\ \A i \in 0..k + 1 : q[i] \in Int
                 /\ SumTo(f, k + 1) = q[k + 1]
    <3> DEFINE n == k + 1
    <3>1. n \in Nat /\ Ints(f, n)
      BY <1>3
    <3> HIDE DEF n
    <3>2. \E q : /\ q[0] = 0 /\ \A i \in 1..n : q[i] = q[i - 1] + f[i]
                 /\ \A i \in 0..n : q[i] \in Int
                 /\ SumTo(f, n) = q[n]
      BY <3>1, SumSteps
    <3> QED
      BY <3>2 DEF n
  <2> DEFINE T == {i \in Nat : q[i] = p[i] + 0}
  <2>4. 0 \in T
    BY <2>2, <2>3
  <2>5. \A i \in 0..k - 1 : i \in T => i + 1 \in T
    <3>1. SUFFICES ASSUME NEW i \in 0..k - 1, q[i] = p[i] + 0 PROVE q[i + 1] = p[i + 1] + 0
      OBVIOUS
    <3>2. i + 1 \in 1..k /\ i + 1 \in 1..k + 1 /\ (i + 1) - 1 = i /\ i \in 0..k /\ i + 1 \in 0..k
      OBVIOUS
    <3>3. p[i + 1] = p[i] + f[i + 1] /\ q[i + 1] = q[i] + f[i + 1] /\ p[i] \in Int /\ p[i + 1] \in Int
      BY <2>2, <2>3, <3>2
    <3> QED
      BY <3>1, <3>3
  <2> HIDE DEF T
  <2>6. q[k] = p[k] + 0
    <3>1. T = {i \in Nat : q[i] = p[i] + 0}
      BY DEF T
    <3>2. 0 \in Nat /\ 0 <= k
      OBVIOUS
    <3> QED
      BY <2>4, <2>5, <3>1, <3>2, SumsTogether
  <2>7. q[k + 1] = q[k] + f[k + 1]
    <3>1. k + 1 \in 1..k + 1 /\ (k + 1) - 1 = k
      OBVIOUS
    <3> QED
      BY <2>3, <3>1
  <2>8. p[k] \in Int
    BY <2>2
  <2> QED
    BY <2>2, <2>3, <2>6, <2>7, <2>8
<1> QED
  BY <1>1, <1>2, <1>3

(* Two sums from m on, whose parts are the same.                             *)
LEMMA SumsAlike ==
  ASSUME NEW f, NEW g, NEW m \in Nat, NEW b \in Nat, NEW k \in Nat, m <= k, NEW c \in Int,
         Ints(f, k), Ints(g, b + k), SumTo(g, b + m) = SumTo(f, m) + c,
         \A j \in m + 1..k : g[b + j] = f[j]
  PROVE  SumTo(g, b + k) = SumTo(f, k) + c
<1> DEFINE T == {i \in Nat : SumTo(g, b + i) = SumTo(f, i) + c}
<1>1. m \in T
  OBVIOUS
<1>2. \A i \in m..k - 1 : i \in T => i + 1 \in T
  <2>1. SUFFICES ASSUME NEW i \in m..k - 1, SumTo(g, b + i) = SumTo(f, i) + c
                 PROVE  SumTo(g, b + (i + 1)) = SumTo(f, i + 1) + c
    OBVIOUS
  <2>2. /\ i \in Nat /\ b + i \in Nat /\ b + (i + 1) = (b + i) + 1 /\ i + 1 \in m + 1..k
        /\ Ints(f, i) /\ Ints(f, i + 1) /\ Ints(g, (b + i) + 1) /\ i + 1 \in 1..k
    BY DEF Ints
  <2>3. f[i + 1] \in Int /\ g[b + (i + 1)] = f[i + 1]
    BY <2>2 DEF Ints
  <2>4. SumTo(f, i + 1) = SumTo(f, i) + f[i + 1] /\ SumTo(f, i) \in Int
    BY <2>2, SumNext
  <2>5. SumTo(g, (b + i) + 1) = SumTo(g, b + i) + g[(b + i) + 1]
    BY <2>2, SumNext
  <2>6. SumTo(g, b + (i + 1)) = SumTo(g, b + i) + g[b + (i + 1)]
    BY <2>2, <2>5
  <2> QED
    BY <2>1, <2>3, <2>4, <2>6
<1> HIDE DEF T
<1>3. m..k \subseteq T
  BY <1>1, <1>2, Reaches
<1>4. k \in m..k
  OBVIOUS
<1> QED
  BY <1>3, <1>4 DEF T

(* The sum of the same numbers.                                              *)
LEMMA SumSame ==
  ASSUME NEW f, NEW g, NEW k \in Nat, Ints(f, k), \A i \in 1..k : g[i] = f[i]
  PROVE  SumTo(g, k) = SumTo(f, k)
<1>1. Ints(g, k) /\ Ints(g, 0 + k) /\ 0 + k = k
  BY DEF Ints
<1>2. SumTo(g, 0 + 0) = SumTo(f, 0) + 0
  BY SumNext
<1>3. \A j \in 0 + 1..k : g[0 + j] = f[j]
  OBVIOUS
<1>4. 0 \in Nat /\ 0 <= k /\ 0 \in Int
  OBVIOUS
<1>5. SumTo(g, 0 + k) = SumTo(f, k) + 0
  BY <1>1, <1>2, <1>3, <1>4, SumsAlike
<1> QED
  BY <1>1, <1>5, SumNext

(* A sum in two parts.                                                       *)
LEMMA SumParts ==
  ASSUME NEW f, NEW g, NEW m \in Nat, NEW k \in Nat, Ints(f, m + k),
         \A i \in 1..k : g[i] = f[m + i]
  PROVE  SumTo(f, m + k) = SumTo(f, m) + SumTo(g, k)
<1>1. Ints(g, k) /\ Ints(f, m)
  BY DEF Ints
<1>2. SumTo(f, m) \in Int /\ SumTo(g, k) \in Int /\ SumTo(g, 0) = 0
  BY <1>1, SumNext
<1> DEFINE c == SumTo(f, m)
           z == 0
<1>3. SumTo(f, m + z) = SumTo(g, z) + c
  BY <1>2
<1>4. \A j \in z + 1..k : f[m + j] = g[j]
  OBVIOUS
<1>5. z \in Nat /\ z <= k /\ c \in Int
  BY <1>2
<1> HIDE DEF c, z
<1>6. SumTo(f, m + k) = SumTo(g, k) + c
  BY <1>1, <1>3, <1>4, <1>5, SumsAlike
<1> QED
  BY <1>2, <1>6 DEF c

(* A sum with one more in between.                                           *)
LEMMA SumInsert ==
  ASSUME NEW f, NEW g, NEW n \in Nat, NEW i \in 1..n + 1, Ints(f, n), g[i] \in Int,
         \A j \in 1..i - 1 : g[j] = f[j], \A j \in i..n : g[j + 1] = f[j]
  PROVE  SumTo(g, n + 1) = SumTo(f, n) + g[i]
<1> DEFINE m == i - 1
<1>1. m \in Nat /\ m <= n /\ m + 1 = i /\ Ints(f, m) /\ 1 + n = n + 1 /\ 1 + m = m + 1
  BY DEF Ints
<1>2. Ints(g, n + 1)
  <2>1. \A j \in 1..n + 1 : j = i \/ j \in 1..i - 1 \/ (j - 1 \in i..n /\ (j - 1) + 1 = j)
    OBVIOUS
  <2>2. \A j \in 1..i - 1 : j \in 1..n
    OBVIOUS
  <2>3. \A j \in i..n : j \in 1..n
    OBVIOUS
  <2> QED
    BY <2>1, <2>2, <2>3 DEF Ints
<1>3. Ints(g, m + 1) /\ Ints(g, m)
  BY <1>1, <1>2 DEF Ints
<1>4. SumTo(g, m) = SumTo(f, m)
  BY <1>1, SumSame
<1>5. SumTo(g, m + 1) = SumTo(f, m) + g[i]
  BY <1>1, <1>3, <1>4, SumNext
<1> DEFINE c == g[i]
<1>6. SumTo(g, 1 + m) = SumTo(f, m) + c
  BY <1>1, <1>5
<1>7. \A j \in m + 1..n : g[1 + j] = f[j]
  <2>1. \A j \in m + 1..n : j \in i..n /\ 1 + j = j + 1
    BY <1>1
  <2> QED
    BY <2>1
<1> HIDE DEF m, c
<1>8. c \in Int /\ 1 \in Nat /\ Ints(g, 1 + n)
  BY <1>1, <1>2 DEF c
<1>9. SumTo(g, 1 + n) = SumTo(f, n) + c
  BY <1>1, <1>6, <1>7, <1>8, SumsAlike
<1> QED
  BY <1>1, <1>9 DEF c

(* A sum with one replaced.                                                  *)
LEMMA SumReplace ==
  ASSUME NEW f, NEW g, NEW n \in Nat, NEW i \in 1..n, Ints(f, n), g[i] \in Int,
         \A j \in 1..n : j # i => g[j] = f[j]
  PROVE  SumTo(g, n) = SumTo(f, n) + (g[i] - f[i])
<1> DEFINE m == i - 1
           c == g[i] - f[i]
           z == 0
<1>1. m \in Nat /\ m + 1 = i /\ Ints(f, m) /\ Ints(f, i) /\ i \in Nat /\ i <= n /\ f[i] \in Int
  BY DEF Ints
<1>2. Ints(g, n) /\ Ints(g, i)
  BY DEF Ints
<1>3. \A j \in 1..m : g[j] = f[j]
  OBVIOUS
<1> HIDE DEF m
<1>4. SumTo(g, m) = SumTo(f, m) /\ SumTo(f, m) \in Int
  BY <1>1, <1>3, SumSame, SumNext
<1>5. SumTo(g, m + 1) = SumTo(g, m) + g[m + 1] /\ SumTo(f, m + 1) = SumTo(f, m) + f[m + 1]
  BY <1>1, <1>2, SumNext
<1>6. SumTo(g, z + i) = SumTo(f, i) + c /\ z + n = n /\ Ints(g, z + n)
  <2>1. z + i = i /\ z + n = n
    OBVIOUS
  <2> QED
    BY <1>1, <1>2, <1>4, <1>5, <2>1
<1>7. \A j \in i + 1..n : g[z + j] = f[j]
  OBVIOUS
<1>8. c \in Int /\ z \in Nat
  BY <1>1
<1> HIDE DEF c, z
<1>9. SumTo(g, z + n) = SumTo(f, n) + c
  <2>1. i \in Nat /\ i <= n
    BY <1>1
  <2>2. Ints(g, z + n) /\ SumTo(g, z + i) = SumTo(f, i) + c
    BY <1>6
  <2> QED
    BY <1>7, <1>8, <2>1, <2>2, SumsAlike
<1> QED
  BY <1>6, <1>9 DEF c

(* A sum of nothing.                                                         *)
LEMMA SumZero ==
  ASSUME NEW f, NEW k \in Nat, \A i \in 1..k : f[i] = 0
  PROVE  SumTo(f, k) = 0
<1> DEFINE T == {i \in Nat : i <= k => SumTo(f, i) = 0}
<1>1. 0 \in T
  BY SumNext
<1>2. \A i \in 0..k - 1 : i \in T => i + 1 \in T
  <2>1. SUFFICES ASSUME NEW i \in 0..k - 1, SumTo(f, i) = 0 PROVE SumTo(f, i + 1) = 0
    OBVIOUS
  <2>2. i \in Nat /\ Ints(f, i + 1) /\ f[i + 1] = 0
    BY DEF Ints
  <2> QED
    BY <2>1, <2>2, SumNext
<1> HIDE DEF T
<1>3. 0..k \subseteq T /\ k \in 0..k
  BY <1>1, <1>2, Reaches
<1> QED
  BY <1>3 DEF T

-----------------------------------------------------------------------------
(* Sequences, places and orders                                              *)

(* A sequence with one more.                                                 *)
LEMMA InsertAtIs ==
  ASSUME NEW S, NEW s \in Seq(S), NEW e \in S, NEW i \in 1..Len(s) + 1
  PROVE  LET t == InsertAt(s, i, e)
         IN /\ t \in Seq(S) /\ Len(t) = Len(s) + 1 /\ t[i] = e
            /\ \A j \in 1..i - 1 : t[j] = s[j]
            /\ \A j \in i..Len(s) : t[j + 1] = s[j]
<1> DEFINE a == SubSeq(s, 1, i - 1)
           b == SubSeq(s, i, Len(s))
           ae == a \o <<e>>
           t == ae \o b
<1>1. Len(s) \in Nat /\ i - 1 \in Nat
  OBVIOUS
<1>2. a \in Seq(S) /\ Len(a) = i - 1 /\ \A j \in 1..i - 1 : a[j] = s[j]
  OBVIOUS
<1>3. b \in Seq(S) /\ Len(b) = Len(s) - i + 1 /\ \A j \in 1..Len(b) : b[j] = s[i + j - 1]
  BY <1>1
<1> HIDE DEF a, b
<1>4. ae \in Seq(S) /\ Len(ae) = i /\ ae[i] = e /\ \A j \in 1..i - 1 : ae[j] = a[j]
  BY <1>1, <1>2
<1> HIDE DEF ae
<1>5. /\ t \in Seq(S) /\ Len(t) = Len(s) + 1
      /\ \A j \in 1..i : t[j] = ae[j]
      /\ \A j \in 1..Len(b) : t[i + j] = b[j]
  BY <1>1, <1>3, <1>4
<1>6. InsertAt(s, i, e) = t
  BY DEF InsertAt, t, ae, a, b
<1> HIDE DEF t
<1>7. ASSUME NEW j \in i..Len(s) PROVE t[j + 1] = s[j]
  <2>1. j - i + 1 \in 1..Len(b) /\ i + (j - i + 1) = j + 1 /\ i + (j - i + 1) - 1 = j
    BY <1>1, <1>3
  <2> DEFINE m == j - i + 1
  <2>2. m \in 1..Len(b) /\ i + m = j + 1 /\ i + m - 1 = j
    BY <2>1
  <2> HIDE DEF m
  <2>3. t[i + m] = b[m] /\ b[m] = s[i + m - 1]
    BY <1>3, <1>5, <2>2
  <2> QED
    BY <2>2, <2>3
<1>8. t[i] = e /\ \A j \in 1..i - 1 : t[j] = s[j]
  BY <1>1, <1>2, <1>4, <1>5
<1> QED
  BY <1>5, <1>6, <1>7, <1>8

(* A sequence with one replaced.                                             *)
LEMMA ReplacedIs ==
  ASSUME NEW S, NEW s \in Seq(S), NEW e \in S, NEW i \in 1..Len(s)
  PROVE  LET t == [s EXCEPT ![i] = e]
         IN /\ t \in Seq(S) /\ Len(t) = Len(s) /\ t[i] = e
            /\ \A j \in 1..Len(s) : j # i => t[j] = s[j]
OBVIOUS

(* A part of a sequence.                                                     *)
LEMMA PartIs ==
  ASSUME NEW S, NEW s \in Seq(S), NEW a \in 1..Len(s) + 1, NEW b \in 0..Len(s), a <= b + 1
  PROVE  LET t == SubSeq(s, a, b)
         IN /\ t \in Seq(S) /\ Len(t) = b - a + 1
            /\ \A j \in 1..b - a + 1 : t[j] = s[a - 1 + j]
<1>1. Len(s) \in Nat
  OBVIOUS
<1> DEFINE t == SubSeq(s, a, b)
<1>2. t \in Seq(S) /\ Len(t) = b - a + 1
  BY <1>1
<1>3. \A j \in 1..b - a + 1 : t[j] = s[a + j - 1]
  BY <1>1
<1>4. \A j \in 1..b - a + 1 : a + j - 1 = a - 1 + j
  BY <1>1
<1> HIDE DEF t
<1>5. \A j \in 1..b - a + 1 : t[j] = s[a - 1 + j]
  BY <1>3, <1>4
<1> QED
  BY <1>2, <1>5 DEF t

(* The rest of a sequence.                                                   *)
LEMMA RestIs ==
  ASSUME NEW S, NEW s \in Seq(S), NEW m \in 0..Len(s)
  PROVE  LET t == SubSeq(s, m + 1, Len(s))
         IN /\ t \in Seq(S) /\ Len(t) = Len(s) - m
            /\ \A j \in 1..Len(s) - m : t[j] = s[m + j]
<1> DEFINE a == m + 1
           b == Len(s)
           t == SubSeq(s, a, b)
<1>1. /\ a \in 1..Len(s) + 1 /\ b \in 0..Len(s) /\ a <= b + 1
      /\ b - a + 1 = Len(s) - m /\ \A j \in 1..Len(s) - m : a - 1 + j = m + j
  OBVIOUS
<1> HIDE DEF a, b
<1>2. t \in Seq(S) /\ Len(t) = b - a + 1 /\ \A j \in 1..b - a + 1 : t[j] = s[a - 1 + j]
  BY <1>1, PartIs
<1> HIDE DEF t
<1>3. t \in Seq(S) /\ Len(t) = Len(s) - m /\ \A j \in 1..Len(s) - m : t[j] = s[m + j]
  BY <1>1, <1>2
<1> QED
  BY <1>3 DEF t, a, b

(* What the values of a node are.                                           *)
LEMMA ValuesTyped ==
  ASSUME NEW vs \in Seq(Value)
  PROVE  /\ Len(vs) \in Nat /\ DOMAIN vs = 1..Len(vs)
         /\ \A i \in 1..Len(vs) : vs[i] \in Value /\ vs[i].loc \in Nat /\ vs[i].delta \in Int
<1>1. Len(vs) \in Nat /\ DOMAIN vs = 1..Len(vs) /\ \A i \in 1..Len(vs) : vs[i] \in Value
  OBVIOUS
<1>2. \A v \in Value : v.loc \in Nat /\ v.delta \in Int
  BY DEF Value
<1> QED
  BY <1>1, <1>2

(* Values in order, each with the next or each with all that come later.     *)
Ordered(vs) == \A i, j \in 1..Len(vs) : i < j => vs[i].loc < vs[j].loc

(* Values are in order if each two neighbours are.                          *)
LEMMA OrderedIs ==
  ASSUME NEW vs \in Seq(Value)
  PROVE  Ordered(vs) <=> \A i \in 1..Len(vs) - 1 : vs[i].loc < vs[i + 1].loc
<1>1. Len(vs) \in Nat /\ \A i \in 1..Len(vs) : vs[i].loc \in Nat
  BY ValuesTyped
<1>2. ASSUME Ordered(vs), NEW i \in 1..Len(vs) - 1 PROVE vs[i].loc < vs[i + 1].loc
  <2>1. i \in 1..Len(vs) /\ i + 1 \in 1..Len(vs) /\ i < i + 1
    BY <1>1
  <2> QED
    BY <1>2, <2>1 DEF Ordered
<1>3. ASSUME \A i \in 1..Len(vs) - 1 : vs[i].loc < vs[i + 1].loc,
             NEW i \in 1..Len(vs), NEW j \in 1..Len(vs), i < j
      PROVE  vs[i].loc < vs[j].loc
  <2> DEFINE T == {k \in Nat : vs[i].loc < vs[k].loc}
             m == i + 1
  <2>1. m \in T /\ m \in Nat /\ j \in Nat /\ m <= j
    BY <1>1, <1>3
  <2>2. ASSUME NEW k \in m..j - 1, k \in T PROVE k + 1 \in T
    <3>1. k \in 1..Len(vs) - 1 /\ k \in 1..Len(vs) /\ k + 1 \in 1..Len(vs) /\ k + 1 \in Nat
      BY <1>1, <2>1
    <3>2. vs[i].loc < vs[k].loc /\ vs[k].loc < vs[k + 1].loc
      BY <1>3, <2>2, <3>1
    <3> QED
      BY <1>1, <3>1, <3>2
  <2> HIDE DEF T, m
  <2>3. m..j \subseteq T
    BY <2>1, <2>2, Reaches
  <2>4. j \in T
    BY <2>1, <2>3
  <2> QED
    BY <2>4 DEF T
<1> QED
  BY <1>2, <1>3 DEF Ordered

(* The place of a location among values.                                     *)
IsPlace(vs, i, loc) ==
  /\ i \in 1..Len(vs) + 1
  /\ i <= Len(vs) => vs[i].loc >= loc
  /\ \A j \in 1..i - 1 : vs[j].loc < loc

(* PlaceOf finds the first value that is not before the location.           *)
LEMMA PlaceOfIs ==
  ASSUME NEW n, NEW loc \in Nat, n.values \in Seq(Value)
  PROVE  /\ IsPlace(n.values, PlaceOf(n, loc), loc)
         /\ \A i : IsPlace(n.values, i, loc) => PlaceOf(n, loc) = i
<1> DEFINE vs == n.values
           T == {j \in 1..Len(vs) + 1 : j <= Len(vs) => vs[j].loc >= loc}
<1>1. Len(vs) \in Nat /\ \A i \in 1..Len(vs) : vs[i].loc \in Nat
  BY ValuesTyped
<1>2. Len(vs) + 1 \in T /\ T \subseteq Nat
  BY <1>1
<1> HIDE DEF T
<1>3. PICK i \in T : \A j \in T : i <= j
  BY <1>2, Smallest
<1>4. IsPlace(vs, i, loc)
  <2>1. i \in 1..Len(vs) + 1 /\ (i <= Len(vs) => vs[i].loc >= loc)
    BY DEF T
  <2>2. ASSUME NEW j \in 1..i - 1 PROVE vs[j].loc < loc
    <3>1. j \in 1..Len(vs) /\ ~(i <= j)
      BY <1>1, <2>1
    <3>2. j \notin T
      BY <1>3, <3>1
    <3>3. ~(vs[j].loc >= loc)
      BY <1>1, <3>1, <3>2 DEF T
    <3> QED
      BY <1>1, <3>1, <3>3
  <2> QED
    BY <2>1, <2>2 DEF IsPlace
<1> HIDE DEF vs
<1>5. \A k, m : IsPlace(vs, k, loc) /\ IsPlace(vs, m, loc) => ~(k < m)
  <2>1. SUFFICES ASSUME NEW k, NEW m, IsPlace(vs, k, loc), IsPlace(vs, m, loc), k < m PROVE FALSE
    OBVIOUS
  <2>2. k \in 1..Len(vs) /\ k \in 1..m - 1
    BY <1>1, <2>1 DEF IsPlace
  <2>3. vs[k].loc >= loc /\ vs[k].loc < loc /\ vs[k].loc \in Nat
    BY <1>1, <2>1, <2>2 DEF IsPlace
  <2> QED
    BY <2>3
<1>6. \A k, m : IsPlace(vs, k, loc) /\ IsPlace(vs, m, loc) => k = m
  <2>1. SUFFICES ASSUME NEW k, NEW m, IsPlace(vs, k, loc), IsPlace(vs, m, loc) PROVE k = m
    OBVIOUS
  <2>2. k \in Nat /\ m \in Nat
    BY <1>1, <2>1 DEF IsPlace
  <2>3. ~(k < m) /\ ~(m < k)
    BY <1>5, <2>1
  <2> QED
    BY <2>2, <2>3
<1>7. PlaceOf(n, loc) = CHOOSE k : IsPlace(vs, k, loc)
  <2>1. PlaceOf(n, loc) = CHOOSE k \in 1..Len(vs) + 1 :
            /\ k <= Len(vs) => vs[k].loc >= loc
            /\ \A j \in 1..k - 1 : vs[j].loc < loc
    BY DEF PlaceOf, vs
  <2> QED
    BY <2>1 DEF IsPlace
<1>8. IsPlace(vs, PlaceOf(n, loc), loc)
  BY <1>4, <1>7
<1> QED
  BY <1>6, <1>8 DEF vs

-----------------------------------------------------------------------------
(* What a sequence weighs                                                    *)
Weights(w, s) == [i \in DOMAIN s |-> w[s[i]]]
Weight(w, s) == SumTo(Weights(w, s), Len(s))

(* The weights of the members.                                              *)
LEMMA WeightsAre ==
  ASSUME NEW S, NEW s \in Seq(S), NEW w \in [S -> Int]
  PROVE  /\ Len(s) \in Nat /\ Ints(Weights(w, s), Len(s))
         /\ \A i \in 1..Len(s) : s[i] \in S /\ Weights(w, s)[i] = w[s[i]] /\ w[s[i]] \in Int
<1>1. Len(s) \in Nat /\ DOMAIN s = 1..Len(s) /\ \A i \in 1..Len(s) : s[i] \in S
  OBVIOUS
<1>2. \A i \in 1..Len(s) : Weights(w, s)[i] = w[s[i]] /\ w[s[i]] \in Int
  BY <1>1 DEF Weights
<1> QED
  BY <1>1, <1>2 DEF Ints

(* The weights of the members of any sequence.                              *)
LEMMA WeightOf ==
  \A S : \A s \in Seq(S), w \in [S -> Int] :
    \A i \in 1..Len(s) : Weights(w, s)[i] = w[s[i]] /\ w[s[i]] \in Int
BY WeightsAre

(* A weight is an integer.                                                  *)
LEMMA WeightTyped ==
  ASSUME NEW S, NEW s \in Seq(S), NEW w \in [S -> Int]
  PROVE  Weight(w, s) \in Int
<1>1. Len(s) \in Nat /\ Ints(Weights(w, s), Len(s))
  BY WeightsAre
<1> QED
  BY <1>1, SumNext DEF Weight

(* A member that comes in adds its weight.                                  *)
LEMMA WeightInserted ==
  ASSUME NEW S, NEW s \in Seq(S), NEW w \in [S -> Int], NEW e \in S, NEW i \in 1..Len(s) + 1
  PROVE  Weight(w, InsertAt(s, i, e)) = Weight(w, s) + w[e]
<1> DEFINE t == InsertAt(s, i, e)
           f == Weights(w, s)
           g == Weights(w, t)
           n == Len(s)
<1>1. /\ t \in Seq(S) /\ Len(t) = Len(s) + 1 /\ t[i] = e
      /\ \A j \in 1..i - 1 : t[j] = s[j]
      /\ \A j \in i..Len(s) : t[j + 1] = s[j]
  BY InsertAtIs
<1> HIDE DEF t
<1>2. n \in Nat /\ Ints(f, n) /\ \A j \in 1..n : f[j] = w[s[j]]
  BY WeightsAre
<1>3. \A j \in 1..n + 1 : g[j] = w[t[j]] /\ g[j] \in Int
  BY <1>1, WeightsAre
<1>4. Weight(w, s) = SumTo(f, n) /\ Weight(w, t) = SumTo(g, n + 1)
  BY <1>1 DEF Weight
<1>5. i \in 1..n + 1 /\ g[i] = w[e] /\ g[i] \in Int
  BY <1>1, <1>2, <1>3
<1>6. \A j \in 1..i - 1 : g[j] = f[j]
  <2>1. \A j \in 1..i - 1 : j \in 1..n /\ j \in 1..n + 1
    BY <1>2
  <2>2. SUFFICES ASSUME NEW j \in 1..i - 1 PROVE g[j] = f[j]
    OBVIOUS
  <2> HIDE DEF f, g, n
  <2>3. t[j] = s[j] /\ f[j] = w[s[j]] /\ g[j] = w[t[j]]
    BY <1>1, <1>2, <1>3, <2>1
  <2> QED
    BY <2>3
<1>7. \A j \in i..n : g[j + 1] = f[j]
  <2>1. \A j \in i..n : j \in 1..n /\ j + 1 \in 1..n + 1 /\ j \in i..Len(s)
    BY <1>2
  <2>2. SUFFICES ASSUME NEW j \in i..n PROVE g[j + 1] = f[j]
    OBVIOUS
  <2> HIDE DEF f, g, n
  <2>3. t[j + 1] = s[j] /\ f[j] = w[s[j]] /\ g[j + 1] = w[t[j + 1]]
    BY <1>1, <1>2, <1>3, <2>1
  <2> QED
    BY <2>3
<1> HIDE DEF f, g, n
<1>8. SumTo(g, n + 1) = SumTo(f, n) + g[i]
  <2>1. n \in Nat /\ Ints(f, n) /\ i \in 1..n + 1 /\ g[i] \in Int
    BY <1>2, <1>5
  <2> QED
    BY <1>6, <1>7, <2>1, SumInsert
<1> QED
  BY <1>4, <1>5, <1>8 DEF t

(* A member replaced changes the weight by the difference.                  *)
LEMMA WeightReplaced ==
  ASSUME NEW S, NEW s \in Seq(S), NEW w \in [S -> Int], NEW e \in S, NEW i \in 1..Len(s)
  PROVE  Weight(w, [s EXCEPT ![i] = e]) = Weight(w, s) + (w[e] - w[s[i]])
<1> DEFINE t == [s EXCEPT ![i] = e]
           f == Weights(w, s)
           g == Weights(w, t)
           n == Len(s)
<1>1. /\ t \in Seq(S) /\ Len(t) = Len(s) /\ t[i] = e
      /\ \A j \in 1..Len(s) : j # i => t[j] = s[j]
  BY ReplacedIs
<1> HIDE DEF t
<1>2. n \in Nat /\ Ints(f, n) /\ \A j \in 1..n : f[j] = w[s[j]]
  BY WeightsAre
<1>3. \A j \in 1..n : g[j] = w[t[j]] /\ g[j] \in Int
  <2>1. t \in Seq(S) /\ Len(t) = n
    BY <1>1
  <2>2. \A j \in 1..Len(t) : Weights(w, t)[j] = w[t[j]] /\ w[t[j]] \in Int
    BY <2>1, WeightsAre
  <2> QED
    BY <2>1, <2>2
<1>4. Weight(w, s) = SumTo(f, n) /\ Weight(w, t) = SumTo(g, n)
  BY <1>1 DEF Weight
<1>5. i \in 1..n /\ g[i] = w[e] /\ g[i] \in Int /\ f[i] = w[s[i]]
  BY <1>1, <1>2, <1>3
<1>6. \A j \in 1..n : j # i => g[j] = f[j]
  <2>1. n = Len(s)
    OBVIOUS
  <2> HIDE DEF f, g, n
  <2> QED
    BY <1>1, <1>2, <1>3, <2>1
<1> HIDE DEF f, g, n
<1>7. SumTo(g, n) = SumTo(f, n) + (g[i] - f[i])
  BY <1>2, <1>5, <1>6, SumReplace
<1> QED
  BY <1>4, <1>5, <1>7 DEF t

(* The first m and the rest, and a sum up to m.                              *)
LEMMA WeightParted ==
  ASSUME NEW S, NEW s \in Seq(S), NEW w \in [S -> Int], NEW m \in 0..Len(s)
  PROVE  /\ Weight(w, SubSeq(s, 1, m)) = SumTo(Weights(w, s), m)
         /\ Weight(w, s) = Weight(w, SubSeq(s, 1, m)) + Weight(w, SubSeq(s, m + 1, Len(s)))
<1> DEFINE a == SubSeq(s, 1, m)
           b == SubSeq(s, m + 1, Len(s))
           k == Len(s) - m
           f == Weights(w, s)
           fa == Weights(w, a)
           fb == Weights(w, b)
<1>1. Len(s) \in Nat /\ m \in Nat /\ k \in Nat /\ m + k = Len(s) /\ m <= Len(s)
  OBVIOUS
<1>2. a \in Seq(S) /\ Len(a) = m /\ \A j \in 1..m : a[j] = s[j]
  OBVIOUS
<1>3. b \in Seq(S) /\ Len(b) = k /\ \A j \in 1..k : b[j] = s[m + j]
  BY RestIs
<1> HIDE DEF a, b, k
<1>4. Ints(f, m + k) /\ \A j \in 1..m + k : f[j] = w[s[j]]
  BY <1>1, WeightsAre
<1>5. \A j \in 1..m : fa[j] = w[a[j]]
  <2>1. a \in Seq(S) /\ Len(a) = m
    BY <1>2
  <2>2. \A j \in 1..Len(a) : Weights(w, a)[j] = w[a[j]]
    <3> HIDE DEF f, fa, fb
    <3> QED
      BY <2>1, WeightOf, Zenon
  <2> QED
    BY <2>1, <2>2
<1>6. \A j \in 1..k : fb[j] = w[b[j]]
  <2>1. b \in Seq(S) /\ Len(b) = k
    BY <1>3
  <2>2. \A j \in 1..Len(b) : Weights(w, b)[j] = w[b[j]]
    <3> HIDE DEF f, fa, fb
    <3> QED
      BY <2>1, WeightOf, Zenon
  <2> QED
    BY <2>1, <2>2
<1>7. /\ Weight(w, s) = SumTo(f, m + k) /\ Weight(w, a) = SumTo(fa, m)
      /\ Weight(w, b) = SumTo(fb, k)
  BY <1>1, <1>2, <1>3 DEF Weight
<1> HIDE DEF f, fa, fb
<1>8. Ints(f, m) /\ \A j \in 1..m : fa[j] = f[j]
  <2>1. \A j \in 1..m : j \in 1..m + k
    BY <1>1
  <2>2. Ints(f, m)
    BY <1>4, <2>1 DEF Ints
  <2>3. ASSUME NEW j \in 1..m PROVE fa[j] = f[j]
    <3>1. fa[j] = w[a[j]] /\ a[j] = s[j] /\ f[j] = w[s[j]]
      BY <1>2, <1>4, <1>5, <2>1
    <3> QED
      BY <3>1
  <2> QED
    BY <2>2, <2>3
<1>9. \A j \in 1..k : fb[j] = f[m + j]
  <2>1. \A j \in 1..k : m + j \in 1..m + k
    BY <1>1
  <2> QED
    BY <1>3, <1>4, <1>6, <2>1
<1>10. SumTo(fa, m) = SumTo(f, m)
  BY <1>1, <1>8, SumSame
<1>11. SumTo(f, m + k) = SumTo(f, m) + SumTo(fb, k)
  BY <1>1, <1>4, <1>9, SumParts
<1> QED
  BY <1>7, <1>10, <1>11 DEF f, a, b

(* Around one in between.                                                    *)
LEMMA WeightAround ==
  ASSUME NEW S, NEW s \in Seq(S), NEW w \in [S -> Int], NEW m \in 1..Len(s)
  PROVE  Weight(w, s) = Weight(w, SubSeq(s, 1, m - 1)) + w[s[m]]
                        + Weight(w, SubSeq(s, m + 1, Len(s)))
<1> DEFINE f == Weights(w, s)
           l == m - 1
<1>1. Len(s) \in Nat /\ m \in 0..Len(s) /\ l \in 0..Len(s) /\ l \in Nat /\ l + 1 = m
  OBVIOUS
<1>2. /\ Weight(w, SubSeq(s, 1, m)) = SumTo(f, m)
      /\ Weight(w, s) = Weight(w, SubSeq(s, 1, m)) + Weight(w, SubSeq(s, m + 1, Len(s)))
  BY <1>1, WeightParted
<1> HIDE DEF l
<1>3. Weight(w, SubSeq(s, 1, l)) = SumTo(f, l)
  BY <1>1, WeightParted
<1>4. Ints(f, Len(s)) /\ f[m] = w[s[m]]
  BY WeightsAre
<1> HIDE DEF f
<1>5. Ints(f, l + 1)
  BY <1>1, <1>4 DEF Ints
<1>6. SumTo(f, l + 1) = SumTo(f, l) + f[l + 1]
  BY <1>1, <1>5, SumNext
<1>7. Weight(w, s) = Weight(w, SubSeq(s, 1, l)) + w[s[m]] + Weight(w, SubSeq(s, m + 1, Len(s)))
  BY <1>1, <1>2, <1>3, <1>4, <1>6
<1> QED
  BY <1>7 DEF l

(* One that is all that counts.                                              *)
LEMMA WeightZero ==
  ASSUME NEW S, NEW s \in Seq(S), NEW w \in [S -> Int], \A i \in 1..Len(s) : w[s[i]] = 0
  PROVE  Weight(w, s) = 0
<1>1. Len(s) \in Nat /\ \A i \in 1..Len(s) : Weights(w, s)[i] = 0
  BY WeightsAre
<1> QED
  BY <1>1, SumZero DEF Weight

(* Members of the same weights weigh the same.                              *)
LEMMA WeightSame ==
  ASSUME NEW S, NEW s \in Seq(S), NEW w \in [S -> Int], NEW u \in [S -> Int],
         \A i \in 1..Len(s) : u[s[i]] = w[s[i]]
  PROVE  Weight(u, s) = Weight(w, s)
<1>1. /\ Len(s) \in Nat /\ Ints(Weights(w, s), Len(s))
      /\ \A i \in 1..Len(s) : Weights(w, s)[i] = w[s[i]]
  BY WeightsAre
<1>2. \A i \in 1..Len(s) : Weights(u, s)[i] = u[s[i]]
  BY WeightsAre
<1> QED
  BY <1>1, <1>2, SumSame DEF Weight

-----------------------------------------------------------------------------
(* Sound trees                                                               *)
Verified(n) == \A m \in NodesOf(n) : VerifyNode(m)
Sound(h) == {n \in Nodes[h] : Verified(n)}
Kids(h) == IF h = 0 THEN {} ELSE Sound(h - 1)

Below(c, x) == \A loc \in LocsOf(c) : loc < x
Above(c, x) == \A loc \in LocsOf(c) : loc > x
Locs(vs, cs) == {vs[i].loc : i \in DOMAIN vs} \cup UNION {LocsOf(cs[i]) : i \in DOMAIN cs}

(* What counts before x, or all of it.                                       *)
All == -1
At(v, x) == IF x = All \/ v.loc < x THEN v.delta ELSE 0
Part(c, x) == IF x = All THEN c.full ELSE GetDeltaAt(c, x)
Ats(x) == [v \in Value |-> At(v, x)]
Parts(h, x) == [c \in Kids(h) |-> Part(c, x)]
Total(h, vs, cs, x) == Weight(Ats(x), vs) + Weight(Parts(h, x), cs)

(* The values and the children of a node.                                    *)
Between(vs, cs) ==
  /\ Len(cs) = Len(vs) + 1
  /\ \A i \in 1..Len(cs) : Len(cs[i].values) >= WidthFactor - 1
  /\ \A i \in 1..Len(vs) : Below(cs[i], vs[i].loc) /\ Above(cs[i + 1], vs[i].loc)

Shape(h, vs, cs) ==
  /\ vs \in Seq(Value) /\ Ordered(vs) /\ cs \in Seq(Kids(h))
  /\ h # 0 => Between(vs, cs)

(* A leaf has no children, and those of another node are a level lower.     *)
LEMMA KidsAre ==
  ASSUME NEW h \in Nat
  PROVE  /\ h = 0 => Kids(h) = {} /\ Seq(Kids(h)) = {<<>>}
         /\ h # 0 => Kids(h) = Sound(h - 1) /\ h - 1 \in Nat
<1>1. Seq({}) = {<<>>}
  <2>1. ASSUME NEW s \in Seq({}) PROVE s = <<>>
    <3>1. Len(s) \in Nat /\ \A i \in 1..Len(s) : s[i] \in {}
      OBVIOUS
    <3>2. Len(s) = 0
      <4>1. CASE Len(s) # 0
        <5>1. 1 \in 1..Len(s)
          BY <3>1, <4>1
        <5> QED
          BY <3>1, <5>1
      <4> QED
        BY <4>1
    <3> QED
      BY <3>2
  <2>2. <<>> \in Seq({})
    OBVIOUS
  <2> QED
    BY <2>1, <2>2, Zenon
<1> QED
  BY <1>1 DEF Kids

(* The locations of a tree.                                                  *)
LEMMA LocsOfIs ==
  ASSUME NEW h \in Nat, NEW n \in Nodes[h]
  PROVE  LocsOf(n) = Locs(n.values, n.children)
<1> DEFINE Of(m) == {m.values[i].loc : i \in DOMAIN m.values}
           cs == n.children
<1>1. NodesOf(n) = {n} \cup UNION {NodesOf(cs[i]) : i \in DOMAIN cs}
  BY NodesOfIs
<1>2. \A m : LocsOf(m) = UNION {Of(k) : k \in NodesOf(m)}
  BY DEF LocsOf
<1> HIDE DEF Of, cs
<1>3. LocsOf(n) = Of(n) \cup UNION {UNION {Of(k) : k \in NodesOf(cs[i])} : i \in DOMAIN cs}
  <2>1. \A x : x \in LocsOf(n) <=> \E k \in NodesOf(n) : x \in Of(k)
    BY <1>2, Zenon
  <2>2. \A k : k \in NodesOf(n) <=> k = n \/ \E i \in DOMAIN cs : k \in NodesOf(cs[i])
    BY <1>1, Zenon
  <2>3. \A x : x \in LocsOf(n) <=>
                 x \in Of(n) \/ \E i \in DOMAIN cs : \E k \in NodesOf(cs[i]) : x \in Of(k)
    BY <2>1, <2>2, Zenon
  <2> DEFINE In(i) == UNION {Of(k) : k \in NodesOf(cs[i])}
             R == Of(n) \cup UNION {In(i) : i \in DOMAIN cs}
  <2>4. \A i, x : x \in In(i) <=> \E k \in NodesOf(cs[i]) : x \in Of(k)
    OBVIOUS
  <2> HIDE DEF In
  <2>5. \A x : x \in R <=> x \in Of(n) \/ \E i \in DOMAIN cs : x \in In(i)
    OBVIOUS
  <2> HIDE DEF R
  <2>6. \A x : x \in R <=> x \in Of(n) \/ \E i \in DOMAIN cs : \E k \in NodesOf(cs[i]) : x \in Of(k)
    BY <2>4, <2>5, Zenon
  <2>7. LocsOf(n) = R
    BY <2>3, <2>6, Zenon
  <2> QED
    BY <2>7 DEF R, In
<1>4. \A i \in DOMAIN cs : UNION {Of(k) : k \in NodesOf(cs[i])} = LocsOf(cs[i])
  BY <1>2, Zenon
<1>5. {UNION {Of(k) : k \in NodesOf(cs[i])} : i \in DOMAIN cs} = {LocsOf(cs[i]) : i \in DOMAIN cs}
  BY <1>4, Zenon
<1>6. LocsOf(n) = Of(n) \cup UNION {LocsOf(cs[i]) : i \in DOMAIN cs}
  BY <1>3, <1>5
<1> QED
  BY <1>6 DEF Locs, Of, cs

(* A tree is verified if its root is and its children are.                   *)
LEMMA VerifiedIs ==
  ASSUME NEW h \in Nat, NEW n \in Nodes[h]
  PROVE  Verified(n) <=> VerifyNode(n) /\ \A i \in DOMAIN n.children : Verified(n.children[i])
<1> DEFINE cs == n.children
<1>1. NodesOf(n) = {n} \cup UNION {NodesOf(cs[i]) : i \in DOMAIN cs}
  BY NodesOfIs
<1> HIDE DEF cs
<1>2. \A k : k \in NodesOf(n) <=> k = n \/ \E i \in DOMAIN cs : k \in NodesOf(cs[i])
  BY <1>1, Zenon
<1>3. Verified(n) <=> VerifyNode(n) /\ \A i \in DOMAIN cs : Verified(cs[i])
  BY <1>2, Zenon DEF Verified
<1> QED
  BY <1>3 DEF cs

(* All that a node holds is what its values and its children hold.           *)
LEMMA FullsAre ==
  ASSUME NEW h \in Nat, NEW vs \in Seq(Value), NEW cs \in Seq(Kids(h))
  PROVE  /\ SumOfValues(vs) = Weight(Ats(All), vs)
         /\ SumOfNodes(cs) = Weight(Parts(h, All), cs)
         /\ Total(h, vs, cs, All) = SumOfValues(vs) + SumOfNodes(cs)
<1> DEFINE f == [i \in DOMAIN vs |-> vs[i].delta]
           g == [i \in DOMAIN cs |-> cs[i].full]
<1>1. Len(vs) \in Nat /\ DOMAIN vs = 1..Len(vs) /\ Len(cs) \in Nat /\ DOMAIN cs = 1..Len(cs)
  OBVIOUS
<1>2. Len(f) = Len(vs) /\ Len(g) = Len(cs)
  BY <1>1
<1>3. Weights(Ats(All), vs) = f
  <2>1. \A i \in DOMAIN vs : Ats(All)[vs[i]] = vs[i].delta
    BY DEF Ats, At
  <2> QED
    BY <2>1 DEF Weights
<1>4. Weights(Parts(h, All), cs) = g
  <2>1. \A i \in DOMAIN cs : cs[i] \in Kids(h)
    OBVIOUS
  <2>2. \A i \in DOMAIN cs : Parts(h, All)[cs[i]] = cs[i].full
    BY <2>1 DEF Parts, Part
  <2> QED
    BY <2>2 DEF Weights
<1>5. SumOfValues(vs) = SumTo(f, Len(f)) /\ SumOfNodes(cs) = SumTo(g, Len(g))
  BY DEF SumOfValues, SumOfNodes, SumOf, SumTo
<1> HIDE DEF f, g
<1> QED
  BY <1>2, <1>3, <1>4, <1>5 DEF Total, Weight

(* A tree is sound if its parts fit, it is not too wide and its sum is
   right.                                                                   *)
LEMMA SoundIs ==
  ASSUME NEW h \in Nat, NEW n \in Nodes[h]
  PROVE  n \in Sound(h) <=>
           /\ Shape(h, n.values, n.children)
           /\ Len(n.values) <= 2 * WidthFactor - 1
           /\ n.full = Total(h, n.values, n.children, All)
<1> DEFINE vs == n.values
           cs == n.children
<1>1. /\ n.height = h /\ vs \in Seq(Value)
      /\ h = 0 => cs = <<>>
      /\ h # 0 => cs \in Seq(Nodes[h - 1])
  BY NodeTyped
<1>2. Verified(n) <=> VerifyNode(n) /\ \A i \in DOMAIN cs : Verified(cs[i])
  BY VerifiedIs
<1>3. n \in Sound(h) <=> Verified(n)
  BY DEF Sound
<1>4. VerifyNode(n) <=>
        /\ Len(vs) <= 2 * WidthFactor - 1
        /\ n.full = SumOfValues(vs) + SumOfNodes(cs)
        /\ \A i \in 1..Len(vs) - 1 : vs[i].loc < vs[i + 1].loc
        /\ h # 0 =>
             /\ Len(cs) = Len(vs) + 1
             /\ \A i \in DOMAIN cs : Len(cs[i].values) >= WidthFactor - 1
             /\ \A i \in DOMAIN vs : Below(cs[i], vs[i].loc) /\ Above(cs[i + 1], vs[i].loc)
  BY <1>1 DEF VerifyNode, IsLeaf, Below, Above
<1> HIDE DEF vs, cs
<1>5. DOMAIN vs = 1..Len(vs) /\ (cs \in Seq(Nodes[h - 1]) \/ cs = <<>> => DOMAIN cs = 1..Len(cs))
  BY <1>1
<1>6. DOMAIN cs = 1..Len(cs)
  BY <1>1, <1>5
<1>7. VerifyNode(n) <=>
        /\ Len(vs) <= 2 * WidthFactor - 1
        /\ n.full = SumOfValues(vs) + SumOfNodes(cs)
        /\ Ordered(vs)
        /\ h # 0 => Between(vs, cs)
  <2>1. Ordered(vs) <=> \A i \in 1..Len(vs) - 1 : vs[i].loc < vs[i + 1].loc
    BY <1>1, OrderedIs
  <2>2. Between(vs, cs) <=>
          /\ Len(cs) = Len(vs) + 1
          /\ \A i \in DOMAIN cs : Len(cs[i].values) >= WidthFactor - 1
          /\ \A i \in DOMAIN vs : Below(cs[i], vs[i].loc) /\ Above(cs[i + 1], vs[i].loc)
    BY <1>5, <1>6, Zenon DEF Between
  <2> QED
    BY <1>4, <2>1, <2>2, Zenon
<1>8. (\A i \in DOMAIN cs : Verified(cs[i])) <=> cs \in Seq(Kids(h))
  <2>1. CASE h = 0
    BY <1>1, <2>1, KidsAre
  <2>2. CASE h # 0
    <3>1. cs \in Seq(Nodes[h - 1]) /\ Kids(h) = Sound(h - 1)
      BY <1>1, <2>2, KidsAre
    <3> DEFINE N == Nodes[h - 1]
               W == Sound(h - 1)
    <3>2. cs \in Seq(N) /\ W = {c \in N : Verified(c)}
      BY <3>1 DEF Sound
    <3> HIDE DEF N, W
    <3>3. (\A i \in DOMAIN cs : Verified(cs[i])) => cs \in Seq(W)
      <4>1. SUFFICES ASSUME \A i \in DOMAIN cs : Verified(cs[i]) PROVE cs \in Seq(W)
        OBVIOUS
      <4>2. \A i \in 1..Len(cs) : cs[i] \in W
        BY <1>6, <3>2, <4>1
      <4> QED
        BY <3>2, <4>2
    <3>4. cs \in Seq(W) => \A i \in DOMAIN cs : Verified(cs[i])
      <4>1. SUFFICES ASSUME cs \in Seq(W), NEW i \in DOMAIN cs PROVE Verified(cs[i])
        OBVIOUS
      <4>2. cs[i] \in W
        BY <4>1
      <4> QED
        BY <3>2, <4>2
    <3> QED
      BY <3>1, <3>3, <3>4 DEF W
  <2> QED
    BY <2>1, <2>2
<1>9. cs \in Seq(Kids(h)) => Total(h, vs, cs, All) = SumOfValues(vs) + SumOfNodes(cs)
  BY <1>1, FullsAre
<1>10. n \in Sound(h) <=>
         /\ Shape(h, vs, cs) /\ Len(vs) <= 2 * WidthFactor - 1
         /\ n.full = Total(h, vs, cs, All)
  BY <1>1, <1>2, <1>3, <1>7, <1>8, <1>9, Zenon DEF Shape
<1> QED
  BY <1>10 DEF vs, cs

-----------------------------------------------------------------------------
(* What a tree says was added before a place                                 *)
AtLeast(c, x) == \A loc \in LocsOf(c) : loc >= x

Counted(C) ==
  \A c \in C : /\ LocsOf(c) \subseteq Nat /\ c.full \in Int
               /\ \A x \in Nat : /\ GetDeltaAt(c, x) \in Int
                                 /\ Below(c, x) => GetDeltaAt(c, x) = c.full
                                 /\ AtLeast(c, x) => GetDeltaAt(c, x) = 0

(* The parts of a sound tree.                                               *)
LEMMA SoundTyped ==
  ASSUME NEW h \in Nat, NEW n \in Sound(h)
  PROVE  /\ n \in Nodes[h] /\ n.height = h /\ n.full \in Int
         /\ n.values \in Seq(Value) /\ n.children \in Seq(Kids(h))
         /\ Ordered(n.values) /\ Len(n.values) \in 0..2 * WidthFactor - 1
         /\ n.full = Total(h, n.values, n.children, All)
         /\ h # 0 => Between(n.values, n.children)
         /\ Shape(h, n.values, n.children)
         /\ n = Node(h, n.values, n.children, n.full)
<1>1. n \in Nodes[h]
  BY DEF Sound
<1>2. /\ Shape(h, n.values, n.children)
      /\ Len(n.values) <= 2 * WidthFactor - 1
      /\ n.full = Total(h, n.values, n.children, All)
  BY <1>1, SoundIs
<1>3. n.height = h /\ n.values \in Seq(Value) /\ n.full \in Int /\ n = Node(h, n.values, n.children, n.full)
  BY <1>1, NodeTyped
<1>4. Len(n.values) \in Nat
  BY <1>3
<1>5. Len(n.values) \in 0..2 * WidthFactor - 1
  BY <1>2, <1>4, DeltaTreeAssumption
<1> QED
  BY <1>1, <1>2, <1>3, <1>5 DEF Shape

(* What a value counts before a place is an integer.                        *)
LEMMA AtsTyped ==
  ASSUME NEW x
  PROVE  /\ Ats(x) \in [Value -> Int]
         /\ \A v \in Value : Ats(x)[v] = At(v, x) /\ At(v, x) \in Int
BY DEF Ats, At, Value

(* What a child counts before a place is an integer.                        *)
LEMMA PartsTyped ==
  ASSUME NEW h \in Nat, Counted(Kids(h)), NEW x \in Nat \cup {All}
  PROVE  /\ Parts(h, x) \in [Kids(h) -> Int]
         /\ \A c \in Kids(h) : Parts(h, x)[c] = Part(c, x) /\ Part(c, x) \in Int
<1>1. \A c \in Kids(h) : Part(c, x) \in Int
  BY DEF Counted, Part
<1> QED
  BY <1>1 DEF Parts

(* The locations of a node are those of its values and of its children.     *)
LEMMA LocsMembers ==
  ASSUME NEW vs \in Seq(Value), NEW S, NEW cs \in Seq(S)
  PROVE  /\ \A x : x \in Locs(vs, cs) <=> \/ \E i \in 1..Len(vs) : x = vs[i].loc
                                          \/ \E i \in 1..Len(cs) : x \in LocsOf(cs[i])
         /\ \A i \in 1..Len(vs) : vs[i].loc \in Locs(vs, cs)
         /\ \A i \in 1..Len(cs) : LocsOf(cs[i]) \subseteq Locs(vs, cs)
<1>1. DOMAIN vs = 1..Len(vs) /\ DOMAIN cs = 1..Len(cs)
  OBVIOUS
<1>2. \A x : x \in Locs(vs, cs) <=> \/ \E i \in 1..Len(vs) : x = vs[i].loc
                                    \/ \E i \in 1..Len(cs) : x \in LocsOf(cs[i])
  BY <1>1 DEF Locs
<1> QED
  BY <1>2, Zenon

(* The values before a place, and the children left of it, count in full.    *)
LEMMA ValuesBefore ==
  ASSUME NEW vs \in Seq(Value), Ordered(vs), NEW x \in Nat, NEW i, IsPlace(vs, i, x)
  PROVE  Weight(Ats(x), vs) = SumOfValues(SubSeq(vs, 1, i - 1))
<1> DEFINE m == i - 1
           a == SubSeq(vs, 1, m)
           b == SubSeq(vs, m + 1, Len(vs))
<1>1. Len(vs) \in Nat /\ \A j \in 1..Len(vs) : vs[j] \in Value /\ vs[j].loc \in Nat
  BY ValuesTyped
<1>2. m \in 0..Len(vs) /\ i = m + 1 /\ i \in 1..Len(vs) + 1
  BY <1>1 DEF IsPlace
<1>3. /\ Ats(x) \in [Value -> Int] /\ Ats(All) \in [Value -> Int]
      /\ \A v \in Value : Ats(x)[v] = At(v, x) /\ Ats(All)[v] = At(v, All)
  BY AtsTyped
<1>4. a \in Seq(Value) /\ Len(a) = m /\ \A j \in 1..m : a[j] = vs[j]
  BY <1>1, <1>2
<1>5. b \in Seq(Value) /\ Len(b) = Len(vs) - m /\ \A j \in 1..Len(vs) - m : b[j] = vs[m + j]
  <2> HIDE DEF m
  <2> QED
    BY <1>2, RestIs
<1>6. Weight(Ats(x), vs) = Weight(Ats(x), a) + Weight(Ats(x), b)
  <2> HIDE DEF m
  <2> QED
    BY <1>2, <1>3, WeightParted
<1>7. \A j \in 1..m : vs[j].loc < x /\ j \in 1..Len(vs)
  BY <1>1, <1>2 DEF IsPlace
<1>8. \A j \in 1..Len(vs) - m : ~(vs[m + j].loc < x) /\ m + j \in 1..Len(vs)
  <2>1. SUFFICES ASSUME NEW j \in 1..Len(vs) - m PROVE ~(vs[m + j].loc < x) /\ m + j \in 1..Len(vs)
    OBVIOUS
  <2>2. m + j \in 1..Len(vs) /\ i \in 1..Len(vs) /\ i <= m + j
    BY <1>1, <1>2
  <2>3. vs[i].loc >= x
    BY <2>2 DEF IsPlace
  <2>4. i = m + j \/ vs[i].loc < vs[m + j].loc
    BY <1>2, <2>2 DEF Ordered
  <2> QED
    BY <1>1, <2>2, <2>3, <2>4
<1> HIDE DEF m, a, b
<1>9. Weight(Ats(x), a) = Weight(Ats(All), a)
  <2>1. ASSUME NEW j \in 1..Len(a) PROVE Ats(x)[a[j]] = Ats(All)[a[j]]
    <3>1. a[j] = vs[j] /\ vs[j].loc < x /\ vs[j] \in Value
      BY <1>1, <1>4, <1>7, <2>1
    <3>2. At(vs[j], x) = At(vs[j], All)
      BY <3>1 DEF At
    <3> QED
      BY <1>3, <3>1, <3>2
  <2> QED
    BY <1>3, <1>4, <2>1, WeightSame
<1>10. Weight(Ats(x), b) = 0
  <2>1. ASSUME NEW j \in 1..Len(b) PROVE Ats(x)[b[j]] = 0
    <3>1. b[j] = vs[m + j] /\ ~(vs[m + j].loc < x) /\ vs[m + j] \in Value
      BY <1>1, <1>5, <1>8, <2>1
    <3>2. At(vs[m + j], x) = 0
      BY <3>1 DEF At, All
    <3> QED
      BY <1>3, <3>1, <3>2
  <2> QED
    BY <1>3, <1>5, <2>1, WeightZero
<1>11. SumOfValues(a) = Weight(Ats(All), a)
  <2>1. <<>> \in Seq(Kids(0)) /\ 0 \in Nat
    BY KidsAre
  <2> QED
    BY <1>4, <2>1, FullsAre
<1>12. Weight(Ats(All), a) \in Int
  BY <1>3, <1>4, WeightTyped
<1> QED
  BY <1>6, <1>9, <1>10, <1>11, <1>12 DEF a, m

(* What the children count before a place: all of those to the left of it,
   and part of the one at it.                                               *)
LEMMA ChildrenBefore ==
  ASSUME NEW h \in Nat, h # 0, Counted(Kids(h)), NEW vs \in Seq(Value), Ordered(vs),
         NEW cs \in Seq(Kids(h)), Between(vs, cs), NEW x \in Nat, NEW i, IsPlace(vs, i, x)
  PROVE  /\ i \in 1..Len(cs) /\ SumOfNodes(SubSeq(cs, 1, i - 1)) \in Int
         /\ Weight(Parts(h, x), cs) = SumOfNodes(SubSeq(cs, 1, i - 1)) + Part(cs[i], x)
<1> DEFINE K == Kids(h)
           m == i - 1
           a == SubSeq(cs, 1, m)
           b == SubSeq(cs, i + 1, Len(cs))
           w == Parts(h, x)
           u == Parts(h, All)
<1>1. Len(vs) \in Nat /\ \A j \in 1..Len(vs) : vs[j] \in Value /\ vs[j].loc \in Nat
  BY ValuesTyped
<1>2. /\ Len(cs) = Len(vs) + 1 /\ i \in 1..Len(cs) /\ m \in 0..Len(cs) /\ m + 1 = i
      /\ i \in 0..Len(cs)
  BY <1>1 DEF IsPlace, Between
<1>3. /\ w \in [K -> Int] /\ u \in [K -> Int]
      /\ \A c \in K : w[c] = Part(c, x) /\ u[c] = Part(c, All)
  BY PartsTyped
<1>4. \A j \in 1..Len(cs) : cs[j] \in K
  OBVIOUS
<1>5. /\ \A c \in K : LocsOf(c) \subseteq Nat
      /\ \A c \in K : Below(c, x) => Part(c, x) = Part(c, All)
      /\ \A c \in K : AtLeast(c, x) => Part(c, x) = 0
  BY DEF Counted, Part, All
<1>6. cs \in Seq(K)
  OBVIOUS
<1>7. a \in Seq(K) /\ Len(a) = m /\ \A j \in 1..m : a[j] = cs[j]
  BY <1>1, <1>2, <1>6
<1> HIDE DEF K, w, u
<1>8. b \in Seq(K) /\ Len(b) = Len(cs) - i /\ \A j \in 1..Len(cs) - i : b[j] = cs[i + j]
  BY <1>2, <1>6, RestIs
<1>9. Weight(w, cs) = Weight(w, SubSeq(cs, 1, i - 1)) + w[cs[i]] + Weight(w, b)
  BY <1>2, <1>3, <1>6, WeightAround
<1> HIDE DEF m, a, b
<1>10. Weight(w, a) = Weight(u, a)
  <2>1. ASSUME NEW j \in 1..Len(a) PROVE w[a[j]] = u[a[j]]
    <3>1. a[j] = cs[j] /\ j \in 1..i - 1 /\ j \in 1..Len(vs) /\ j \in 1..Len(cs)
      BY <1>1, <1>2, <1>7, <2>1
    <3>2. vs[j].loc < x /\ Below(cs[j], vs[j].loc) /\ cs[j] \in K /\ LocsOf(cs[j]) \subseteq Nat
      BY <1>4, <1>5, <3>1 DEF IsPlace, Between
    <3>3. Below(cs[j], x)
      <4>1. vs[j].loc \in Nat
        BY <1>1, <3>1
      <4> QED
        BY <3>2, <4>1 DEF Below
    <3> QED
      BY <1>3, <1>5, <3>1, <3>2, <3>3
  <2> QED
    BY <1>3, <1>7, <2>1, WeightSame
<1>11. Weight(w, b) = 0
  <2>1. ASSUME NEW j \in 1..Len(b) PROVE w[b[j]] = 0
    <3> DEFINE k == i + j - 1
    <3>1. /\ b[j] = cs[i + j] /\ k \in 1..Len(vs) /\ k + 1 = i + j /\ i + j \in 1..Len(cs)
          /\ i <= k /\ i \in 1..Len(vs)
      BY <1>1, <1>2, <1>8, <2>1
    <3> HIDE DEF k
    <3>2. vs[i].loc >= x /\ (i = k \/ vs[i].loc < vs[k].loc)
      BY <3>1 DEF IsPlace, Ordered
    <3>3. vs[k].loc >= x /\ vs[k].loc \in Nat
      BY <1>1, <3>1, <3>2
    <3>4. Above(cs[k + 1], vs[k].loc)
      BY <3>1 DEF Between
    <3>5. cs[i + j] \in K /\ LocsOf(cs[i + j]) \subseteq Nat /\ Above(cs[i + j], vs[k].loc)
      BY <1>4, <1>5, <3>1, <3>4
    <3>6. AtLeast(cs[i + j], x)
      BY <3>3, <3>5 DEF Above, AtLeast
    <3> QED
      BY <1>3, <1>5, <3>1, <3>5, <3>6
  <2> QED
    BY <1>3, <1>8, <2>1, WeightZero
<1>12. SumOfNodes(a) = Weight(u, a)
  <2>1. <<>> \in Seq(Value) /\ a \in Seq(Kids(h))
    BY <1>7 DEF K
  <2> QED
    BY <2>1, FullsAre DEF u
<1>13. w[cs[i]] = Part(cs[i], x) /\ w[cs[i]] \in Int /\ Weight(u, a) \in Int
  <2>1. Weight(u, a) \in Int
    BY <1>3, <1>7, WeightTyped
  <2>2. cs[i] \in K
    BY <1>2, <1>4
  <2> QED
    BY <1>3, <2>1, <2>2
<1>14. Weight(w, cs) = Weight(w, a) + w[cs[i]] + Weight(w, b)
  BY <1>9 DEF a, m
<1>15. Weight(w, cs) = SumOfNodes(a) + Part(cs[i], x) /\ SumOfNodes(a) \in Int
  BY <1>10, <1>11, <1>12, <1>13, <1>14
<1> QED
  BY <1>2, <1>15 DEF w, a, m

(* What is added before a place is what the values and children count for.  *)
LEMMA CountedUp ==
  ASSUME NEW h \in Nat, Counted(Kids(h))
  PROVE  /\ Counted(Sound(h))
         /\ \A n \in Sound(h), x \in Nat :
              GetDeltaAt(n, x) = Total(h, n.values, n.children, x)
<1>1. SUFFICES ASSUME NEW n \in Sound(h)
               PROVE  /\ LocsOf(n) \subseteq Nat /\ n.full \in Int
                      /\ \A x \in Nat :
                           /\ GetDeltaAt(n, x) \in Int
                           /\ Below(n, x) => GetDeltaAt(n, x) = n.full
                           /\ AtLeast(n, x) => GetDeltaAt(n, x) = 0
                           /\ GetDeltaAt(n, x) = Total(h, n.values, n.children, x)
  BY DEF Counted
<1> DEFINE vs == n.values
           cs == n.children
           K == Kids(h)
<1>2. /\ n \in Nodes[h] /\ n.full \in Int /\ vs \in Seq(Value) /\ cs \in Seq(K) /\ Ordered(vs)
      /\ n.full = Total(h, vs, cs, All) /\ (h # 0 => Between(vs, cs))
  BY SoundTyped
<1>3. LocsOf(n) = Locs(vs, cs)
  BY <1>2, LocsOfIs
<1> HIDE DEF vs, cs, K
<1>4. Len(vs) \in Nat /\ \A i \in 1..Len(vs) : vs[i] \in Value /\ vs[i].loc \in Nat
  BY <1>2, ValuesTyped
<1>5. \A c \in K : LocsOf(c) \subseteq Nat
  BY DEF K, Counted
<1>6. /\ \A x : x \in LocsOf(n) <=> \/ \E i \in 1..Len(vs) : x = vs[i].loc
                                    \/ \E i \in 1..Len(cs) : x \in LocsOf(cs[i])
      /\ \A i \in 1..Len(vs) : vs[i].loc \in LocsOf(n)
      /\ \A i \in 1..Len(cs) : LocsOf(cs[i]) \subseteq LocsOf(n)
  BY <1>2, <1>3, LocsMembers
<1>7. \A i \in 1..Len(cs) : cs[i] \in K
  BY <1>2
<1>8. LocsOf(n) \subseteq Nat
  BY <1>4, <1>5, <1>6, <1>7, Zenon
<1>9. ASSUME NEW x \in Nat
      PROVE  /\ GetDeltaAt(n, x) \in Int
             /\ Below(n, x) => GetDeltaAt(n, x) = n.full
             /\ AtLeast(n, x) => GetDeltaAt(n, x) = 0
             /\ GetDeltaAt(n, x) = Total(h, vs, cs, x)
  <2> DEFINE i == PlaceOf(n, x)
             before == SumOfValues(SubSeq(vs, 1, i - 1))
             left == SumOfNodes(SubSeq(cs, 1, i - 1))
             A == Weight(Ats(x), vs)
             P == Weight(Parts(h, x), cs)
  <2>1. IsPlace(vs, i, x)
    BY <1>2, PlaceOfIs DEF vs
  <2>2. /\ h = 0 => GetDeltaAt(n, x) = before
        /\ h # 0 /\ Holds(n, i, x) => GetDeltaAt(n, x) = before + left + cs[i].full
        /\ h # 0 /\ ~Holds(n, i, x) /\ cs[i] \in Nodes[h - 1] =>
             GetDeltaAt(n, x) = before + left + GetDeltaAt(cs[i], x)
    BY <1>2, GetDeltaAtIs DEF vs, cs
  <2> HIDE DEF i
  <2>3. A = before
    BY <1>2, <2>1, ValuesBefore
  <2>4. h # 0 => i \in 1..Len(cs) /\ left \in Int /\ P = left + Part(cs[i], x)
    <3>1. SUFFICES ASSUME h # 0 PROVE i \in 1..Len(cs) /\ left \in Int /\ P = left + Part(cs[i], x)
      OBVIOUS
    <3>2. Between(vs, cs) /\ cs \in Seq(Kids(h))
      BY <1>2, <3>1 DEF K
    <3> QED
      BY <1>2, <2>1, <3>1, <3>2, ChildrenBefore
  <2>5. /\ Ats(x) \in [Value -> Int] /\ Ats(All) \in [Value -> Int]
        /\ \A v \in Value : Ats(x)[v] = At(v, x) /\ Ats(All)[v] = At(v, All)
    BY AtsTyped
  <2>6. /\ Parts(h, x) \in [K -> Int] /\ Parts(h, All) \in [K -> Int]
        /\ \A c \in K : Parts(h, x)[c] = Part(c, x) /\ Parts(h, All)[c] = Part(c, All)
    BY PartsTyped DEF K
  <2>7. A \in Int /\ P \in Int
    BY <1>2, <2>5, <2>6, WeightTyped
  <2>8. Total(h, vs, cs, x) = A + P
    BY DEF Total
  <2> HIDE DEF before, left, A, P
  <2>9. h = 0 => P = 0
    <3>1. SUFFICES ASSUME h = 0 PROVE P = 0
      OBVIOUS
    <3>2. Len(cs) = 0
      <4>1. cs = <<>>
        BY <1>2, <3>1, KidsAre DEF K
      <4> QED
        BY <4>1
    <3>3. \A j \in 1..Len(cs) : Parts(h, x)[cs[j]] = 0
      BY <3>2
    <3> QED
      BY <1>2, <2>6, <3>3, WeightZero DEF P
  <2>10. h # 0 => cs[i] \in K /\ cs[i] \in Nodes[h - 1]
    BY <1>7, <2>4, KidsAre DEF K, Sound
  <2>11. GetDeltaAt(n, x) = A + P
    <3>1. CASE h = 0
      BY <2>2, <2>3, <2>7, <2>9, <3>1
    <3>2. CASE h # 0 /\ ~Holds(n, i, x)
      <4>1. GetDeltaAt(n, x) = before + left + GetDeltaAt(cs[i], x)
        BY <2>2, <2>10, <3>2
      <4>2. Part(cs[i], x) = GetDeltaAt(cs[i], x)
        BY DEF Part, All
      <4>3. GetDeltaAt(cs[i], x) \in Int
        BY <2>10, <3>2 DEF Counted, K
      <4>4. P = left + GetDeltaAt(cs[i], x) /\ before = A
        BY <2>3, <2>4, <3>2, <4>2
      <4>5. left \in Int
        BY <2>4, <3>2
      <4> QED
        BY <2>7, <4>1, <4>3, <4>4, <4>5
    <3>3. CASE h # 0 /\ Holds(n, i, x)
      <4>1. i \in 1..Len(vs) /\ vs[i].loc = x
        BY <1>4, <2>1, <3>3 DEF Holds, vs, IsPlace
      <4>2. Below(cs[i], x)
        BY <1>2, <3>3, <4>1 DEF Between
      <4>3. GetDeltaAt(cs[i], x) = cs[i].full /\ cs[i].full \in Int
        BY <2>10, <3>3, <4>2 DEF Counted, K
      <4>4. Part(cs[i], x) = GetDeltaAt(cs[i], x)
        BY DEF Part, All
      <4>5. GetDeltaAt(n, x) = before + left + cs[i].full
        BY <2>2, <3>3
      <4>6. left \in Int /\ P = left + cs[i].full /\ before = A
        BY <2>3, <2>4, <3>3, <4>3, <4>4
      <4> QED
        BY <2>7, <4>3, <4>5, <4>6
    <3> QED
      BY <3>1, <3>2, <3>3
  <2>12. Below(n, x) => A = Weight(Ats(All), vs) /\ P = Weight(Parts(h, All), cs)
    <3>1. SUFFICES ASSUME Below(n, x)
                   PROVE  A = Weight(Ats(All), vs) /\ P = Weight(Parts(h, All), cs)
      OBVIOUS
    <3>2. ASSUME NEW j \in 1..Len(vs) PROVE Ats(x)[vs[j]] = Ats(All)[vs[j]]
      <4>1. vs[j].loc < x /\ vs[j] \in Value
        BY <1>4, <1>6, <3>1 DEF Below
      <4> QED
        BY <2>5, <4>1 DEF At
    <3>3. ASSUME NEW j \in 1..Len(cs) PROVE Parts(h, x)[cs[j]] = Parts(h, All)[cs[j]]
      <4>1. Below(cs[j], x) /\ cs[j] \in K
        BY <1>6, <1>7, <3>1 DEF Below
      <4>2. GetDeltaAt(cs[j], x) = cs[j].full
        BY <4>1 DEF Counted, K
      <4> QED
        BY <2>6, <4>1, <4>2 DEF Part
    <3>4. A = Weight(Ats(All), vs)
      BY <1>2, <2>5, <3>2, WeightSame DEF A
    <3>5. P = Weight(Parts(h, All), cs)
      BY <1>2, <2>6, <3>3, WeightSame DEF P
    <3> QED
      BY <3>4, <3>5
  <2>13. AtLeast(n, x) => A = 0 /\ P = 0
    <3>1. SUFFICES ASSUME AtLeast(n, x) PROVE A = 0 /\ P = 0
      OBVIOUS
    <3>2. ASSUME NEW j \in 1..Len(vs) PROVE Ats(x)[vs[j]] = 0
      <4>1. vs[j].loc >= x /\ vs[j] \in Value /\ vs[j].loc \in Nat
        BY <1>4, <1>6, <3>1 DEF AtLeast
      <4> QED
        BY <2>5, <4>1 DEF At, All
    <3>3. ASSUME NEW j \in 1..Len(cs) PROVE Parts(h, x)[cs[j]] = 0
      <4>1. AtLeast(cs[j], x) /\ cs[j] \in K
        BY <1>6, <1>7, <3>1 DEF AtLeast
      <4>2. GetDeltaAt(cs[j], x) = 0
        BY <4>1 DEF Counted, K
      <4> QED
        BY <2>6, <4>1, <4>2 DEF Part, All
    <3>4. A = 0
      BY <1>2, <2>5, <3>2, WeightZero DEF A
    <3>5. P = 0
      BY <1>2, <2>6, <3>3, WeightZero DEF P
    <3> QED
      BY <3>4, <3>5
  <2>14. Below(n, x) => GetDeltaAt(n, x) = n.full
    BY <1>2, <2>11, <2>12 DEF Total
  <2>15. AtLeast(n, x) => GetDeltaAt(n, x) = 0
    BY <2>11, <2>13
  <2> QED
    BY <2>7, <2>8, <2>11, <2>14, <2>15
<1> QED
  BY <1>2, <1>8, <1>9 DEF vs, cs

(* So it is of trees of every height.                                        *)
LEMMA AllCounted ==
  ASSUME NEW h \in Nat
  PROVE  /\ Counted(Kids(h)) /\ Counted(Sound(h))
         /\ \A n \in Sound(h), x \in Nat :
              GetDeltaAt(n, x) = Total(h, n.values, n.children, x)
<1> DEFINE T == {k \in Nat : Counted(Kids(k))}
<1>1. 0 \in T
  <2>1. Kids(0) = {}
    BY DEF Kids
  <2> QED
    BY <2>1 DEF Counted
<1>2. ASSUME NEW k \in Nat, k \in T PROVE k + 1 \in T
  <2>1. Counted(Sound(k))
    BY <1>2, CountedUp
  <2>2. k + 1 \in Nat /\ k + 1 # 0 /\ (k + 1) - 1 = k
    OBVIOUS
  <2>3. Kids(k + 1) = Sound(k)
    BY <2>2 DEF Kids
  <2> QED
    BY <2>1, <2>2, <2>3
<1> HIDE DEF T
<1>3. Nat \subseteq T
  BY <1>1, <1>2, AllNumbers
<1>4. Counted(Kids(h))
  BY <1>3 DEF T
<1> QED
  BY <1>4, CountedUp

-----------------------------------------------------------------------------
(* What is made of values and children                                       *)
Places == Nat \cup {All}

(* What a tree counts is an integer.                                        *)
LEMMA PartIsInt ==
  ASSUME NEW h \in Nat, NEW c \in Sound(h), NEW x \in Places
  PROVE  Part(c, x) \in Int
BY AllCounted DEF Counted, Part, Places

(* A node made of sound parts is sound.                                     *)
LEMMA NodeSound ==
  ASSUME NEW h \in Nat, NEW vs, NEW cs, Shape(h, vs, cs), Len(vs) <= 2 * WidthFactor - 1,
         NEW full, full = Total(h, vs, cs, All)
  PROVE  LET n == Node(h, vs, cs, full)
         IN /\ n \in Sound(h) /\ LocsOf(n) = Locs(vs, cs)
            /\ n.height = h /\ n.values = vs /\ n.children = cs /\ n.full = full
            /\ \A x \in Places : Part(n, x) = Total(h, vs, cs, x)
<1> DEFINE n == Node(h, vs, cs, full)
<1>1. vs \in Seq(Value) /\ cs \in Seq(Kids(h))
  BY DEF Shape
<1>2. full \in Int
  <2>1. Ats(All) \in [Value -> Int] /\ Parts(h, All) \in [Kids(h) -> Int]
    BY AtsTyped, PartsTyped, AllCounted DEF All
  <2>2. Weight(Ats(All), vs) \in Int /\ Weight(Parts(h, All), cs) \in Int
    BY <1>1, <2>1, WeightTyped
  <2> QED
    BY <2>2 DEF Total
<1>3. h = 0 => cs = <<>>
  BY <1>1, KidsAre
<1>4. h # 0 => cs \in Seq(Nodes[h - 1])
  <2>1. SUFFICES ASSUME h # 0 PROVE cs \in Seq(Nodes[h - 1])
    OBVIOUS
  <2>2. Kids(h) = Sound(h - 1) /\ Sound(h - 1) \subseteq Nodes[h - 1]
    BY <2>1, KidsAre DEF Sound
  <2> QED
    BY <1>1, <2>2
<1>5. /\ n \in Nodes[h] /\ n.height = h /\ n.values = vs /\ n.children = cs /\ n.full = full
  BY <1>1, <1>2, <1>3, <1>4, NodeMade
<1> HIDE DEF n
<1>6. n \in Sound(h)
  BY <1>5, SoundIs
<1>7. LocsOf(n) = Locs(vs, cs)
  BY <1>5, LocsOfIs
<1>8. ASSUME NEW x \in Places PROVE Part(n, x) = Total(h, vs, cs, x)
  <2>1. CASE x = All
    BY <1>5, <2>1 DEF Part
  <2>2. CASE x # All
    <3>1. x \in Nat /\ Part(n, x) = GetDeltaAt(n, x)
      BY <2>2 DEF Places, Part
    <3> QED
      BY <1>5, <1>6, <3>1, AllCounted
  <2> QED
    BY <2>1, <2>2
<1> QED
  BY <1>5, <1>6, <1>7, <1>8 DEF n

(* A sound tree counts what its parts count.                                *)
LEMMA SoundParts ==
  ASSUME NEW h \in Nat, NEW n \in Sound(h)
  PROVE  /\ LocsOf(n) = Locs(n.values, n.children) /\ LocsOf(n) \subseteq Nat
         /\ \A x \in Places : Part(n, x) = Total(h, n.values, n.children, x)
<1>1. LocsOf(n) \subseteq Nat
  BY AllCounted DEF Counted
<1>2. /\ Shape(h, n.values, n.children) /\ Len(n.values) <= 2 * WidthFactor - 1
      /\ n.full = Total(h, n.values, n.children, All)
      /\ n = Node(h, n.values, n.children, n.full)
  <2>1. Len(n.values) \in 0..2 * WidthFactor - 1 /\ 2 * WidthFactor - 1 \in Int
    BY SoundTyped, DeltaTreeAssumption
  <2> QED
    BY <2>1, SoundTyped
<1> DEFINE vs == n.values
           cs == n.children
           full == n.full
<1>3. /\ Shape(h, vs, cs) /\ Len(vs) <= 2 * WidthFactor - 1 /\ full = Total(h, vs, cs, All)
      /\ n = Node(h, vs, cs, full)
  BY <1>2
<1> HIDE DEF vs, cs, full
<1>4. LocsOf(n) = Locs(vs, cs) /\ \A x \in Places : Part(n, x) = Total(h, vs, cs, x)
  BY <1>3, NodeSound
<1> QED
  BY <1>1, <1>4 DEF vs, cs

(* Sums of values and of children.                                           *)
LEMMA TotalTyped ==
  ASSUME NEW h \in Nat, NEW x \in Places
  PROVE  /\ Ats(x) \in [Value -> Int] /\ Parts(h, x) \in [Kids(h) -> Int]
         /\ \A v \in Value : Ats(x)[v] = At(v, x) /\ At(v, x) \in Int
         /\ \A c \in Kids(h) : Parts(h, x)[c] = Part(c, x) /\ Part(c, x) \in Int
         /\ \A vs \in Seq(Value), cs \in Seq(Kids(h)) :
              /\ Weight(Ats(x), vs) \in Int /\ Weight(Parts(h, x), cs) \in Int
              /\ Total(h, vs, cs, x) \in Int
              /\ Total(h, vs, cs, x) = Weight(Ats(x), vs) + Weight(Parts(h, x), cs)
<1>1. x \in Nat \cup {All} /\ Counted(Kids(h))
  BY AllCounted DEF Places
<1>2. /\ Ats(x) \in [Value -> Int]
      /\ \A v \in Value : Ats(x)[v] = At(v, x) /\ At(v, x) \in Int
  BY AtsTyped
<1>3. /\ Parts(h, x) \in [Kids(h) -> Int]
      /\ \A c \in Kids(h) : Parts(h, x)[c] = Part(c, x) /\ Part(c, x) \in Int
  BY <1>1, PartsTyped
<1>4. ASSUME NEW vs \in Seq(Value), NEW cs \in Seq(Kids(h))
      PROVE  Weight(Ats(x), vs) \in Int /\ Weight(Parts(h, x), cs) \in Int
  BY <1>2, <1>3, WeightTyped
<1> QED
  BY <1>2, <1>3, <1>4 DEF Total

(* A part of the values, with the children between and around them.          *)
PartOf(h, vs, cs, m, k, a, ca) ==
  /\ m \in Nat /\ k \in Nat /\ m + k <= Len(vs)
  /\ a \in Seq(Value) /\ ca \in Seq(Kids(h)) /\ Len(a) = k
  /\ \A j \in 1..k : a[j] = vs[m + j]
  /\ h # 0 => Len(ca) = k + 1 /\ \A j \in 1..k + 1 : ca[j] = cs[m + j]

(* A part of the values and children of a node has their shape.             *)
LEMMA ShapeOfPart ==
  ASSUME NEW h \in Nat, NEW vs, NEW cs, Shape(h, vs, cs), NEW m, NEW k, NEW a, NEW ca,
         PartOf(h, vs, cs, m, k, a, ca)
  PROVE  Shape(h, a, ca)
<1> USE DEF PartOf
<1>1. vs \in Seq(Value) /\ Ordered(vs) /\ (h # 0 => Between(vs, cs)) /\ Len(vs) \in Nat
  BY DEF Shape
<1>2. \A j \in 1..k : m + j \in 1..Len(vs)
  BY <1>1
<1>3. Ordered(a)
  <2>1. SUFFICES ASSUME NEW i \in 1..Len(a), NEW j \in 1..Len(a), i < j PROVE a[i].loc < a[j].loc
    BY DEF Ordered
  <2>2. m + i < m + j /\ a[i] = vs[m + i] /\ a[j] = vs[m + j]
    BY <2>1
  <2> QED
    BY <1>1, <1>2, <2>1, <2>2 DEF Ordered
<1>4. h # 0 => Between(a, ca)
  <2>1. SUFFICES ASSUME h # 0 PROVE Between(a, ca)
    OBVIOUS
  <2>2. Between(vs, cs) /\ Len(ca) = k + 1 /\ \A j \in 1..k + 1 : ca[j] = cs[m + j]
    BY <1>1, <2>1
  <2>3. ASSUME NEW j \in 1..Len(ca) PROVE Len(ca[j].values) >= WidthFactor - 1
    <3>1. m + j \in 1..Len(cs) /\ ca[j] = cs[m + j]
      BY <1>1, <2>2, <2>3 DEF Between
    <3> QED
      BY <2>2, <3>1 DEF Between
  <2>4. ASSUME NEW j \in 1..Len(a) PROVE Below(ca[j], a[j].loc) /\ Above(ca[j + 1], a[j].loc)
    <3>1. j \in 1..k + 1 /\ j + 1 \in 1..k + 1 /\ m + (j + 1) = (m + j) + 1
      BY <2>4
    <3>2. a[j] = vs[m + j] /\ ca[j] = cs[m + j] /\ ca[j + 1] = cs[(m + j) + 1] /\ m + j \in 1..Len(vs)
      BY <1>2, <2>2, <2>4, <3>1
    <3> QED
      BY <2>2, <3>2 DEF Between
  <2> QED
    BY <2>2, <2>3, <2>4 DEF Between
<1> QED
  BY <1>3, <1>4 DEF Shape

-----------------------------------------------------------------------------
(* Splits                                                                    *)

(* Two trees of a height that a value parts.                                 *)
Parting(h, l, v, r) ==
  /\ l \in Sound(h) /\ r \in Sound(h) /\ v \in Value
  /\ Len(l.values) >= WidthFactor - 1 /\ Len(r.values) >= WidthFactor - 1
  /\ Below(l, v.loc) /\ Above(r, v.loc)

(* Half of a node is sound.                                                  *)
LEMMA HalfSound ==
  ASSUME NEW h \in Nat, NEW vs, NEW cs, Shape(h, vs, cs), NEW m, NEW k, NEW a, NEW ca,
         PartOf(h, vs, cs, m, k, a, ca), k <= 2 * WidthFactor - 1
  PROVE  LET n == RecomputeFullDeltaLocally(Node(h, a, ca, 0))
         IN /\ n \in Sound(h) /\ LocsOf(n) = Locs(a, ca)
            /\ n.height = h /\ n.values = a /\ n.children = ca
            /\ \A x \in Places : Part(n, x) = Total(h, a, ca, x)
<1> DEFINE full == Total(h, a, ca, All)
<1>1. Shape(h, a, ca)
  BY ShapeOfPart
<1>2. Len(a) <= 2 * WidthFactor - 1 /\ a \in Seq(Value) /\ ca \in Seq(Kids(h))
  BY DEF PartOf
<1>3. full = SumOfValues(a) + SumOfNodes(ca)
  BY <1>2, FullsAre
<1>4. RecomputeFullDeltaLocally(Node(h, a, ca, 0)) = Node(h, a, ca, full)
  <2> HIDE DEF full
  <2> QED
    BY <1>3 DEF RecomputeFullDeltaLocally, Node
<1>5. full = Total(h, a, ca, All)
  OBVIOUS
<1> HIDE DEF full
<1>6. LET n == Node(h, a, ca, full)
      IN /\ n \in Sound(h) /\ LocsOf(n) = Locs(a, ca)
         /\ n.height = h /\ n.values = a /\ n.children = ca /\ n.full = full
         /\ \A x \in Places : Part(n, x) = Total(h, a, ca, x)
  BY <1>1, <1>2, <1>5, NodeSound
<1> QED
  BY <1>4, <1>6

(* The parts of a full node.                                                 *)
SplitUp(h, vs, cs, s, l, v, r) ==
  /\ s = Halves(l, r, v) /\ v = vs[WidthFactor] /\ Parting(h, l, v, r)
  /\ Locs(vs, cs) = LocsOf(l) \cup {v.loc} \cup LocsOf(r)
  /\ \A x \in Places : Total(h, vs, cs, x) = Part(l, x) + At(v, x) + Part(r, x)
  /\ l.height = h /\ r.height = h
  /\ Len(l.values) = WidthFactor - 1 /\ Len(r.values) = WidthFactor - 1
  /\ \A j \in 1..WidthFactor - 1 : l.values[j] = vs[j] /\ r.values[j] = vs[WidthFactor + j]
  /\ h # 0 => /\ Len(l.children) = WidthFactor /\ Len(r.children) = WidthFactor
              /\ \A j \in 1..WidthFactor : /\ l.children[j] = cs[j]
                                           /\ r.children[j] = cs[WidthFactor + j]

(* DoSplit leaves two sound halves, parted by the value in the middle.      *)
LEMMA SplitIs ==
  ASSUME NEW h \in Nat, NEW n, n.height = h, Shape(h, n.values, n.children),
         Len(n.values) = 2 * WidthFactor - 1
  PROVE  LET s == DoSplit(n)
         IN SplitUp(h, n.values, n.children, s, s.lhs, s.split, s.rhs)
<1> DEFINE vs == n.values
           cs == n.children
           K == WidthFactor
           Half(a, c) == RecomputeFullDeltaLocally(Node(h, a, c, 0))
           va == SubSeq(vs, 1, K - 1)
           vb == SubSeq(vs, K + 1, 2 * K - 1)
           ca == IF h = 0 THEN <<>> ELSE SubSeq(cs, 1, K)
           cb == IF h = 0 THEN <<>> ELSE SubSeq(cs, K + 1, 2 * K)
           l == Half(va, ca)
           r == Half(vb, cb)
           v == vs[K]
<1>1. DoSplit(n) = Halves(l, r, v)
  BY DEF DoSplit, IsLeaf
<1> HIDE DEF vs, cs
<1>2. /\ vs \in Seq(Value) /\ cs \in Seq(Kids(h)) /\ Ordered(vs) /\ (h # 0 => Between(vs, cs))
      /\ Len(vs) = 2 * K - 1 /\ Shape(h, vs, cs) /\ K \in Nat /\ K > 1
  BY DeltaTreeAssumption DEF vs, cs, Shape
<1>3. h # 0 => Len(cs) = 2 * K
  BY <1>2 DEF Between
<1>4. va \in Seq(Value) /\ Len(va) = K - 1 /\ \A j \in 1..K - 1 : va[j] = vs[j]
  BY <1>2
<1>5. vb \in Seq(Value) /\ Len(vb) = K - 1 /\ \A j \in 1..K - 1 : vb[j] = vs[K + j]
  <2> DEFINE z == K
  <2>1. z \in 0..Len(vs) /\ Len(vs) - z = K - 1 /\ z = K
    BY <1>2
  <2>2. SubSeq(vs, z + 1, Len(vs)) = vb
    BY <1>2
  <2> HIDE DEF K, vb, z
  <2>3. LET t == SubSeq(vs, z + 1, Len(vs))
        IN /\ t \in Seq(Value) /\ Len(t) = Len(vs) - z
           /\ \A j \in 1..Len(vs) - z : t[j] = vs[z + j]
    BY <1>2, <2>1, RestIs
  <2> QED
    BY <2>1, <2>2, <2>3
<1>6. h = 0 => ca = <<>> /\ cb = <<>> /\ cs = <<>> /\ <<>> \in Seq(Kids(h))
  BY <1>2, KidsAre
<1>7. h # 0 => ca \in Seq(Kids(h)) /\ Len(ca) = K /\ \A j \in 1..K : ca[j] = cs[j]
  BY <1>2, <1>3
<1>8. h # 0 => cb \in Seq(Kids(h)) /\ Len(cb) = K /\ \A j \in 1..K : cb[j] = cs[K + j]
  <2>1. SUFFICES ASSUME h # 0
                 PROVE  cb \in Seq(Kids(h)) /\ Len(cb) = K /\ \A j \in 1..K : cb[j] = cs[K + j]
    OBVIOUS
  <2> DEFINE z == K
             S == Kids(h)
  <2>2. z \in 0..Len(cs) /\ Len(cs) - z = K /\ z = K /\ cs \in Seq(S)
    BY <1>2, <1>3, <2>1
  <2>3. SubSeq(cs, z + 1, Len(cs)) = cb
    BY <1>3, <2>1
  <2> HIDE DEF K, cb, z, S
  <2>4. LET t == SubSeq(cs, z + 1, Len(cs))
        IN /\ t \in Seq(S) /\ Len(t) = Len(cs) - z
           /\ \A j \in 1..Len(cs) - z : t[j] = cs[z + j]
    BY <2>2, RestIs
  <2>5. cb \in Seq(S) /\ Len(cb) = K /\ \A j \in 1..K : cb[j] = cs[K + j]
    BY <2>2, <2>3, <2>4
  <2> QED
    BY <2>5 DEF S
<1>9. ca \in Seq(Kids(h)) /\ cb \in Seq(Kids(h))
  BY <1>6, <1>7, <1>8, Zenon
<1> HIDE DEF va, vb, ca, cb
<1>10. /\ l \in Sound(h) /\ LocsOf(l) = Locs(va, ca)
       /\ l.height = h /\ l.values = va /\ l.children = ca
       /\ \A x \in Places : Part(l, x) = Total(h, va, ca, x)
  <2> DEFINE z == 0
             k == K - 1
  <2>1. z \in Nat /\ k \in Nat /\ z + k <= Len(vs) /\ k <= 2 * WidthFactor - 1
    BY <1>2
  <2>2. Len(va) = k /\ \A j \in 1..k : va[j] = vs[z + j]
    BY <1>4
  <2>3. h # 0 => Len(ca) = k + 1 /\ \A j \in 1..k + 1 : ca[j] = cs[z + j]
    BY <1>2, <1>7
  <2> HIDE DEF z, k, K
  <2>4. PartOf(h, vs, cs, z, k, va, ca)
    BY <1>4, <1>9, <2>1, <2>2, <2>3, Zenon DEF PartOf
  <2>5. Shape(h, vs, cs) /\ k <= 2 * WidthFactor - 1
    BY <1>2, <2>1
  <2> QED
    BY <2>4, <2>5, HalfSound
<1>11. /\ r \in Sound(h) /\ LocsOf(r) = Locs(vb, cb)
       /\ r.height = h /\ r.values = vb /\ r.children = cb
       /\ \A x \in Places : Part(r, x) = Total(h, vb, cb, x)
  <2> DEFINE z == K
             k == K - 1
  <2>1. z \in Nat /\ k \in Nat /\ z + k <= Len(vs) /\ k <= 2 * WidthFactor - 1
    BY <1>2
  <2>2. Len(vb) = k /\ \A j \in 1..k : vb[j] = vs[z + j]
    BY <1>5
  <2>3. h # 0 => Len(cb) = k + 1 /\ \A j \in 1..k + 1 : cb[j] = cs[z + j]
    BY <1>2, <1>8
  <2> HIDE DEF z, k, K
  <2>4. PartOf(h, vs, cs, z, k, vb, cb)
    BY <1>5, <1>9, <2>1, <2>2, <2>3, Zenon DEF PartOf
  <2>5. Shape(h, vs, cs) /\ k <= 2 * WidthFactor - 1
    BY <1>2, <2>1
  <2> QED
    BY <2>4, <2>5, HalfSound
<1> HIDE DEF l, r
<1>12. v \in Value /\ \A j \in 1..Len(vs) : vs[j] \in Value /\ vs[j].loc \in Nat
  <2>1. K \in 1..Len(vs)
    BY <1>2
  <2> QED
    BY <1>2, <2>1, ValuesTyped
<1>13. \A j \in 1..K - 1 : /\ j \in 1..Len(vs) /\ K + j \in 1..Len(vs) /\ K \in 1..Len(vs)
                           /\ vs[j].loc < v.loc /\ v.loc < vs[K + j].loc
  <2>1. SUFFICES ASSUME NEW j \in 1..K - 1
                 PROVE  /\ j \in 1..Len(vs) /\ K + j \in 1..Len(vs) /\ K \in 1..Len(vs)
                        /\ vs[j].loc < v.loc /\ v.loc < vs[K + j].loc
    OBVIOUS
  <2>2. j \in 1..Len(vs) /\ K + j \in 1..Len(vs) /\ K \in 1..Len(vs) /\ j < K /\ K < K + j
    BY <1>2
  <2> QED
    BY <1>2, <2>2 DEF Ordered
<1>14. /\ \A y : y \in LocsOf(l) <=> \/ \E i \in 1..K - 1 : y = vs[i].loc
                                     \/ \E i \in 1..Len(ca) : y \in LocsOf(ca[i])
       /\ \A y : y \in LocsOf(r) <=> \/ \E i \in 1..K - 1 : y = vs[K + i].loc
                                     \/ \E i \in 1..Len(cb) : y \in LocsOf(cb[i])
  <2>1. \A y : y \in LocsOf(l) <=> \/ \E i \in 1..Len(va) : y = va[i].loc
                                   \/ \E i \in 1..Len(ca) : y \in LocsOf(ca[i])
    BY <1>4, <1>9, <1>10, LocsMembers
  <2>2. \A y : y \in LocsOf(r) <=> \/ \E i \in 1..Len(vb) : y = vb[i].loc
                                   \/ \E i \in 1..Len(cb) : y \in LocsOf(cb[i])
    BY <1>5, <1>9, <1>11, LocsMembers
  <2> HIDE DEF K
  <2>3. (\A i \in 1..Len(va) : va[i] = vs[i]) /\ Len(va) = K - 1
    BY <1>4
  <2>4. (\A i \in 1..Len(vb) : vb[i] = vs[K + i]) /\ Len(vb) = K - 1
    BY <1>5
  <2>5. \A y : (\E i \in 1..Len(va) : y = va[i].loc) <=> \E i \in 1..K - 1 : y = vs[i].loc
    BY <2>3, Zenon
  <2>6. \A y : (\E i \in 1..Len(vb) : y = vb[i].loc) <=> \E i \in 1..K - 1 : y = vs[K + i].loc
    BY <2>4, Zenon
  <2> QED
    BY <2>1, <2>2, <2>5, <2>6, Zenon
<1> HIDE DEF K
<1>15. (h = 0 => Len(ca) = 0 /\ Len(cb) = 0 /\ Len(cs) = 0) /\ Len(vs) = 2 * K - 1
  BY <1>2, <1>6
<1>16. Below(l, v.loc) /\ Above(r, v.loc)
  <2>1. ASSUME NEW i \in 1..Len(ca) PROVE Below(ca[i], v.loc)
    <3>1. h # 0 /\ i \in 1..K /\ ca[i] = cs[i] /\ Between(vs, cs) /\ i \in 1..Len(vs) /\ K \in 1..Len(vs)
      BY <1>2, <1>7, <1>15, <2>1
    <3>2. Below(cs[i], vs[i].loc) /\ (i = K \/ (i < K /\ vs[i].loc < v.loc))
      BY <1>2, <3>1 DEF Between, Ordered
    <3>3. LocsOf(cs[i]) \subseteq Nat
      <4>1. i \in 1..Len(cs) /\ cs[i] \in Kids(h)
        BY <1>2, <1>3, <1>15, <3>1 DEF K
      <4> QED
        BY <4>1, AllCounted DEF Counted
    <3>4. vs[i].loc \in Nat /\ v.loc \in Nat
      BY <1>12, <3>1
    <3> QED
      BY <3>1, <3>2, <3>3, <3>4 DEF Below
  <2>2. ASSUME NEW i \in 1..Len(cb) PROVE Above(cb[i], v.loc)
    <3> DEFINE j == K + i - 1
    <3>1. h # 0 /\ i \in 1..K /\ cb[i] = cs[K + i] /\ Between(vs, cs)
      BY <1>2, <1>8, <1>15, <2>2
    <3>2. j \in 1..Len(vs) /\ j + 1 = K + i /\ K \in 1..Len(vs) /\ K <= j /\ j + 1 \in 1..2 * K
      BY <1>2, <1>15, <3>1
    <3> HIDE DEF j
    <3>3. Above(cs[j + 1], vs[j].loc) /\ (j = K \/ (K < j /\ v.loc < vs[j].loc))
      BY <1>2, <3>1, <3>2 DEF Between, Ordered
    <3>4. LocsOf(cs[j + 1]) \subseteq Nat
      <4>1. j + 1 \in 1..Len(cs)
        BY <1>3, <3>1, <3>2 DEF K
      <4>2. cs[j + 1] \in Kids(h)
        BY <1>2, <4>1
      <4> QED
        BY <4>2, AllCounted DEF Counted
    <3>5. vs[j].loc \in Nat /\ v.loc \in Nat
      BY <1>12, <3>2
    <3>6. \A loc \in LocsOf(cs[j + 1]) : loc > v.loc
      <4>1. vs[j].loc >= v.loc
        BY <3>3, <3>5
      <4> HIDE DEF v
      <4>2. TAKE y \in LocsOf(cs[j + 1])
      <4>3. y > vs[j].loc /\ y \in Nat
        BY <3>3, <3>4, <4>2 DEF Above
      <4> QED
        BY <3>5, <4>1, <4>3
    <3>7. cb[i] = cs[j + 1]
      BY <3>1, <3>2
    <3> QED
      BY <3>6, <3>7 DEF Above
  <2>3. Below(l, v.loc)
    BY <1>13, <1>14, <2>1, Zenon DEF Below
  <2>4. Above(r, v.loc)
    <3>1. \A i \in 1..K - 1 : vs[K + i].loc > v.loc
      BY <1>12, <1>13
    <3> QED
      BY <1>14, <2>2, <3>1, Zenon DEF Above
  <2> QED
    BY <2>3, <2>4
<1>17. Locs(vs, cs) = LocsOf(l) \cup {v.loc} \cup LocsOf(r)
  <2>1. \A y : y \in Locs(vs, cs) <=> \/ \E i \in 1..Len(vs) : y = vs[i].loc
                                      \/ \E i \in 1..Len(cs) : y \in LocsOf(cs[i])
    BY <1>2, LocsMembers
  <2>2. \A y : (\E i \in 1..Len(vs) : y = vs[i].loc) <=>
                 \/ \E i \in 1..K - 1 : y = vs[i].loc
                 \/ y = v.loc
                 \/ \E i \in 1..K - 1 : y = vs[K + i].loc
    <3>1. ASSUME NEW i \in 1..Len(vs), i \notin 1..K - 1, i # K
          PROVE  \E j \in 1..K - 1 : vs[i] = vs[K + j]
      <4>1. i - K \in 1..K - 1 /\ K + (i - K) = i
        BY <1>2, <1>15, <3>1
      <4> QED
        BY <4>1
    <3>2. K \in 1..Len(vs) /\ \A i \in 1..K - 1 : i \in 1..Len(vs) /\ K + i \in 1..Len(vs)
      BY <1>2, <1>15
    <3> QED
      BY <3>1, <3>2, Zenon
  <2>3. \A y : (\E i \in 1..Len(cs) : y \in LocsOf(cs[i])) <=>
                 \/ \E i \in 1..Len(ca) : y \in LocsOf(ca[i])
                 \/ \E i \in 1..Len(cb) : y \in LocsOf(cb[i])
    <3>1. CASE h = 0
      <4>1. 1..Len(cs) = {} /\ 1..Len(ca) = {} /\ 1..Len(cb) = {}
        BY <1>15, <3>1
      <4> QED
        BY <4>1, Zenon
    <3>2. CASE h # 0
      <4>1. /\ Len(cs) = 2 * K /\ Len(ca) = K /\ Len(cb) = K
            /\ (\A j \in 1..K : ca[j] = cs[j]) /\ (\A j \in 1..K : cb[j] = cs[K + j])
        BY <1>3, <1>7, <1>8, <3>2 DEF K
      <4>2. ASSUME NEW i \in 1..2 * K, i \notin 1..K
            PROVE  \E j \in 1..K : cs[i] = cb[j]
        <5>1. i - K \in 1..K /\ K + (i - K) = i
          BY <1>2, <4>2
        <5>2. cb[i - K] = cs[K + (i - K)]
          BY <4>1, <5>1
        <5> QED
          BY <5>1, <5>2
      <4>3. \A i \in 1..K : i \in 1..2 * K /\ K + i \in 1..2 * K
        BY <1>2
      <4> QED
        BY <4>1, <4>2, <4>3, Zenon
    <3> QED
      BY <3>1, <3>2
  <2>4. \A y : y \in Locs(vs, cs) <=> y \in LocsOf(l) \/ y = v.loc \/ y \in LocsOf(r)
    BY <1>14, <2>1, <2>2, <2>3, Zenon
  <2> QED
    BY <2>4, Zenon
<1>18. ASSUME NEW x \in Places
       PROVE  Total(h, vs, cs, x) = Part(l, x) + At(v, x) + Part(r, x)
  <2> DEFINE w == Ats(x)
             u == Parts(h, x)
  <2>1. /\ w \in [Value -> Int] /\ u \in [Kids(h) -> Int] /\ w[v] = At(v, x) /\ At(v, x) \in Int
        /\ Total(h, vs, cs, x) = Weight(w, vs) + Weight(u, cs)
        /\ Total(h, va, ca, x) = Weight(w, va) + Weight(u, ca)
        /\ Total(h, vb, cb, x) = Weight(w, vb) + Weight(u, cb)
        /\ Weight(w, va) \in Int /\ Weight(u, ca) \in Int
        /\ Weight(w, vb) \in Int /\ Weight(u, cb) \in Int
    BY <1>2, <1>4, <1>5, <1>9, <1>12, TotalTyped
  <2> HIDE DEF w, u
  <2>2. Weight(w, vs) = Weight(w, va) + w[v] + Weight(w, vb)
    <3>1. K \in 1..Len(vs)
      BY <1>2, <1>15
    <3>2. Weight(w, vs) = Weight(w, SubSeq(vs, 1, K - 1)) + w[vs[K]] + Weight(w, SubSeq(vs, K + 1, Len(vs)))
      BY <1>2, <2>1, <3>1, WeightAround
    <3> QED
      BY <1>15, <3>2 DEF va, vb
  <2>3. Weight(u, cs) = Weight(u, ca) + Weight(u, cb)
    <3>1. CASE h = 0
      <4>1. /\ ca = <<>> /\ cb = <<>> /\ cs = <<>> /\ cs \in Seq(Kids(h))
            /\ \A j \in 1..Len(cs) : u[cs[j]] = 0
        BY <1>2, <1>6, <1>15, <3>1
      <4>2. Weight(u, cs) = 0
        BY <2>1, <4>1, WeightZero
      <4> QED
        BY <4>1, <4>2
    <3>2. CASE h # 0
      <4>1. Len(cs) = 2 * K /\ K \in 0..Len(cs)
        BY <1>2, <1>3, <3>2 DEF K
      <4>2. Weight(u, cs) = Weight(u, SubSeq(cs, 1, K)) + Weight(u, SubSeq(cs, K + 1, Len(cs)))
        BY <1>2, <2>1, <4>1, WeightParted
      <4> QED
        BY <3>2, <4>1, <4>2 DEF ca, cb
    <3> QED
      BY <3>1, <3>2
  <2> QED
    BY <1>10, <1>11, <2>1, <2>2, <2>3
<1>19. /\ Halves(l, r, v).lhs = l /\ Halves(l, r, v).rhs = r /\ Halves(l, r, v).split = v
  BY DEF Halves
<1>20. Parting(h, l, v, r)
  <2>1. Len(va) = K - 1 /\ Len(vb) = K - 1 /\ K = WidthFactor /\ K - 1 >= K - 1
    BY <1>2, <1>4, <1>5 DEF K
  <2> QED
    BY <1>10, <1>11, <1>12, <1>16, <2>1 DEF Parting
<1> DEFINE s == Halves(l, r, v)
<1>21. /\ s = Halves(l, r, v) /\ v = vs[K]
       /\ Parting(h, l, v, r)
       /\ Locs(vs, cs) = LocsOf(l) \cup {v.loc} \cup LocsOf(r)
       /\ \A x \in Places : Total(h, vs, cs, x) = Part(l, x) + At(v, x) + Part(r, x)
       /\ l.height = h /\ r.height = h
       /\ Len(l.values) = K - 1 /\ Len(r.values) = K - 1
       /\ \A j \in 1..K - 1 : l.values[j] = vs[j] /\ r.values[j] = vs[K + j]
       /\ h # 0 => /\ Len(l.children) = K /\ Len(r.children) = K
                   /\ \A j \in 1..K : l.children[j] = cs[j] /\ r.children[j] = cs[K + j]
  BY <1>4, <1>5, <1>7, <1>8, <1>10, <1>11, <1>17, <1>18, <1>20, Zenon
<1>22. SplitUp(h, vs, cs, s, l, v, r)
  BY <1>21, Zenon DEF SplitUp, K
<1>23. SplitUp(h, vs, cs, s, s.lhs, s.split, s.rhs)
  BY <1>19, <1>22
<1> QED
  BY <1>1, <1>23 DEF vs, cs

-----------------------------------------------------------------------------
(* Values and children that come in                                          *)
Apart(vs, i, loc) == IsPlace(vs, i, loc) /\ (i <= Len(vs) => vs[i].loc # loc)

(* Where one is inserted in a sequence, and what is on either side.          *)
LEMMA InsertedAs ==
  ASSUME NEW S, NEW s \in Seq(S), NEW e \in S, NEW i \in 1..Len(s) + 1
  PROVE  LET t == InsertAt(s, i, e)
         IN \A j \in 1..Len(t) : \/ j = i /\ t[j] = e
                                 \/ j \in 1..i - 1 /\ j \in 1..Len(s) /\ t[j] = s[j]
                                 \/ j > i /\ j - 1 \in i..Len(s) /\ j - 1 \in 1..Len(s)
                                    /\ t[j] = s[j - 1]
<1> DEFINE t == InsertAt(s, i, e)
<1>1. /\ Len(t) = Len(s) + 1 /\ t[i] = e /\ Len(s) \in Nat
      /\ \A j \in 1..i - 1 : t[j] = s[j]
      /\ \A j \in i..Len(s) : t[j + 1] = s[j]
  BY InsertAtIs
<1> HIDE DEF t
<1>2. ASSUME NEW j \in 1..Len(t)
      PROVE  \/ j = i /\ t[j] = e
             \/ j \in 1..i - 1 /\ j \in 1..Len(s) /\ t[j] = s[j]
             \/ j > i /\ j - 1 \in i..Len(s) /\ j - 1 \in 1..Len(s) /\ t[j] = s[j - 1]
  <2>1. CASE j = i
    BY <1>1, <2>1
  <2>2. CASE j < i
    BY <1>1, <2>2
  <2>3. CASE j > i
    <3>1. j - 1 \in i..Len(s) /\ j - 1 \in 1..Len(s) /\ (j - 1) + 1 = j
      BY <1>1, <2>3
    <3>2. t[(j - 1) + 1] = s[j - 1]
      BY <1>1, <3>1
    <3> QED
      BY <2>3, <3>1, <3>2
  <2>4. j \in Int /\ i \in Int
    BY <1>1
  <2> QED
    BY <2>1, <2>2, <2>3, <2>4
<1> QED
  BY <1>2 DEF t

(* What is in a sequence after an insertion.                                *)
LEMMA InsertedHas ==
  ASSUME NEW S, NEW s \in Seq(S), NEW e \in S, NEW i \in 1..Len(s) + 1
  PROVE  LET t == InsertAt(s, i, e)
         IN /\ \A j \in 1..Len(t) : t[j] = e \/ \E k \in 1..Len(s) : t[j] = s[k]
            /\ \E j \in 1..Len(t) : t[j] = e
            /\ \A k \in 1..Len(s) : \E j \in 1..Len(t) : t[j] = s[k]
<1> DEFINE t == InsertAt(s, i, e)
<1>1. /\ Len(t) = Len(s) + 1 /\ t[i] = e /\ Len(s) \in Nat
      /\ \A j \in 1..i - 1 : t[j] = s[j]
      /\ \A j \in i..Len(s) : t[j + 1] = s[j]
  BY InsertAtIs
<1>2. \A j \in 1..Len(t) : t[j] = e \/ \E k \in 1..Len(s) : t[j] = s[k]
  <2>1. \A j \in 1..Len(t) : \/ j = i /\ t[j] = e
                             \/ j \in 1..i - 1 /\ j \in 1..Len(s) /\ t[j] = s[j]
                             \/ j > i /\ j - 1 \in i..Len(s) /\ j - 1 \in 1..Len(s)
                                /\ t[j] = s[j - 1]
    BY InsertedAs
  <2> HIDE DEF t
  <2> QED
    BY <2>1, Zenon
<1> HIDE DEF t
<1>3. i \in 1..Len(t)
  BY <1>1
<1>4. ASSUME NEW k \in 1..Len(s) PROVE \E j \in 1..Len(t) : t[j] = s[k]
  <2>1. CASE k < i
    <3>1. k \in 1..i - 1 /\ k \in 1..Len(t)
      BY <1>1, <2>1
    <3> QED
      BY <1>1, <3>1
  <2>2. CASE ~(k < i)
    <3>1. k \in i..Len(s) /\ k + 1 \in 1..Len(t)
      BY <1>1, <2>2
    <3> QED
      BY <1>1, <3>1
  <2> QED
    BY <2>1, <2>2
<1> QED
  BY <1>1, <1>2, <1>3, <1>4 DEF t

(* All there is to say of one inserted.                                      *)
Shifted(t, s, i, e) ==
  /\ Len(t) = Len(s) + 1 /\ t[i] = e
  /\ \A j \in 1..i - 1 : t[j] = s[j]
  /\ \A j \in i..Len(s) : t[j + 1] = s[j]
Gains(t, s, e) ==
  /\ \A j \in 1..Len(t) : t[j] = e \/ \E k \in 1..Len(s) : t[j] = s[k]
  /\ \E j \in 1..Len(t) : t[j] = e
  /\ \A k \in 1..Len(s) : \E j \in 1..Len(t) : t[j] = s[k]
(* How the members of a sequence move when one is inserted.                 *)
LEMMA InsertedTells ==
  \A S : \A s \in Seq(S), e \in S : \A i \in 1..Len(s) + 1 :
    LET t == InsertAt(s, i, e)
    IN t \in Seq(S) /\ Shifted(t, s, i, e) /\ Gains(t, s, e)
<1>1. SUFFICES ASSUME NEW S, NEW s \in Seq(S), NEW e \in S, NEW i \in 1..Len(s) + 1
               PROVE  LET t == InsertAt(s, i, e)
                      IN t \in Seq(S) /\ Shifted(t, s, i, e) /\ Gains(t, s, e)
  OBVIOUS
<1> DEFINE t == InsertAt(s, i, e)
<1>2. t \in Seq(S) /\ Shifted(t, s, i, e)
  BY InsertAtIs DEF Shifted
<1>3. Gains(t, s, e)
  BY InsertedHas DEF Gains
<1> QED
  BY <1>2, <1>3

LocSet(vs) == {vs[j].loc : j \in 1..Len(vs)}

(* A value that comes in adds its location.                                 *)
LEMMA GainedLocs ==
  \A t, vs, v : Gains(t, vs, v) => LocSet(t) = LocSet(vs) \cup {v.loc}
<1>1. SUFFICES ASSUME NEW t, NEW vs, NEW v, Gains(t, vs, v)
               PROVE  LocSet(t) = LocSet(vs) \cup {v.loc}
  OBVIOUS
<1>2. ASSUME NEW j \in 1..Len(t) PROVE t[j].loc \in LocSet(vs) \cup {v.loc}
  <2>1. CASE t[j] = v
    BY <2>1
  <2>2. CASE \E k \in 1..Len(vs) : t[j] = vs[k]
    BY <2>2 DEF LocSet
  <2> QED
    BY <1>1, <2>1, <2>2, Zenon DEF Gains
<1>3. v.loc \in LocSet(t)
  <2>1. PICK j \in 1..Len(t) : t[j] = v
    BY <1>1, Zenon DEF Gains
  <2> QED
    BY <2>1 DEF LocSet
<1>4. ASSUME NEW k \in 1..Len(vs) PROVE vs[k].loc \in LocSet(t)
  <2>1. PICK j \in 1..Len(t) : t[j] = vs[k]
    BY <1>1, Zenon DEF Gains
  <2> QED
    BY <2>1 DEF LocSet
<1>5. LocSet(t) \subseteq LocSet(vs) \cup {v.loc}
  BY <1>2 DEF LocSet
<1>6. LocSet(vs) \subseteq LocSet(t)
  BY <1>4 DEF LocSet
<1> QED
  BY <1>3, <1>5, <1>6

(* The locations of the values, and those of the children.                  *)
LEMMA LocsApart ==
  ASSUME NEW vs \in Seq(Value), NEW S, NEW cs \in Seq(S)
  PROVE  \A x : x \in Locs(vs, cs) <=> \/ x \in LocSet(vs)
                                       \/ \E i \in 1..Len(cs) : x \in LocsOf(cs[i])
BY LocsMembers DEF LocSet

(* A value in its place keeps the order.                                     *)
LEMMA OrderKept ==
  ASSUME NEW vs \in Seq(Value), Ordered(vs), NEW v \in Value, NEW i, Apart(vs, i, v.loc)
  PROVE  /\ Ordered(InsertAt(vs, i, v)) /\ InsertAt(vs, i, v) \in Seq(Value)
         /\ Len(InsertAt(vs, i, v)) = Len(vs) + 1 /\ i \in 1..Len(vs) + 1
         /\ \A j \in 1..i - 1 : j \in 1..Len(vs) /\ vs[j].loc < v.loc
         /\ \A j \in i..Len(vs) : j \in 1..Len(vs) /\ v.loc < vs[j].loc
<1> DEFINE t == InsertAt(vs, i, v)
<1>1. i \in 1..Len(vs) + 1 /\ Len(vs) \in Nat /\ \A j \in 1..Len(vs) : vs[j].loc \in Nat
  BY ValuesTyped DEF Apart, IsPlace
<1>2. v.loc \in Nat
  BY DEF Value
<1>3. \A j \in 1..i - 1 : j \in 1..Len(vs) /\ vs[j].loc < v.loc
  BY <1>1 DEF Apart, IsPlace
<1>4. ASSUME NEW j \in i..Len(vs) PROVE j \in 1..Len(vs) /\ v.loc < vs[j].loc
  <2>1. j \in 1..Len(vs) /\ i \in 1..Len(vs) /\ i <= Len(vs) /\ (j = i \/ i < j)
    BY <1>1, <1>4
  <2>2. v.loc < vs[i].loc
    BY <1>1, <1>2, <2>1 DEF Apart, IsPlace
  <2>3. j = i \/ vs[i].loc < vs[j].loc
    BY <2>1 DEF Ordered
  <2>4. vs[i].loc \in Nat /\ vs[j].loc \in Nat
    BY <1>1, <2>1
  <2> QED
    BY <1>2, <2>1, <2>2, <2>3, <2>4
<1>5. t \in Seq(Value) /\ Len(t) = Len(vs) + 1
  BY <1>1, InsertAtIs
<1>6. \A j \in 1..Len(t) : \/ j = i /\ t[j] = v
                           \/ j \in 1..i - 1 /\ j \in 1..Len(vs) /\ t[j] = vs[j]
                           \/ j > i /\ j - 1 \in i..Len(vs) /\ j - 1 \in 1..Len(vs)
                              /\ t[j] = vs[j - 1]
  BY <1>1, InsertedAs
<1> HIDE DEF t
<1>7. ASSUME NEW a \in 1..Len(t), NEW b \in 1..Len(t), a < b PROVE t[a].loc < t[b].loc
  <2>1. a \in Int /\ b \in Int /\ i \in Int
    BY <1>1
  <2>2. CASE a = i
    <3>1. t[a] = v /\ b - 1 \in i..Len(vs) /\ t[b] = vs[b - 1]
      BY <1>6, <1>7, <2>1, <2>2
    <3> QED
      BY <1>4, <3>1
  <2>3. CASE a \in 1..i - 1 /\ t[a] = vs[a] /\ a \in 1..Len(vs)
    <3>1. CASE b = i
      <4>1. t[b] = v
        BY <1>6, <2>1, <3>1
      <4> QED
        BY <1>3, <2>3, <3>1, <4>1
    <3>2. CASE b \in 1..Len(vs) /\ t[b] = vs[b]
      BY <1>7, <2>3, <3>2 DEF Ordered
    <3>3. CASE b > i /\ b - 1 \in 1..Len(vs) /\ t[b] = vs[b - 1]
      <4>1. a < b - 1
        BY <2>1, <2>3, <3>3
      <4> QED
        BY <2>3, <3>3, <4>1 DEF Ordered
    <3> QED
      BY <1>6, <3>1, <3>2, <3>3
  <2>4. CASE a > i /\ a - 1 \in 1..Len(vs) /\ t[a] = vs[a - 1]
    <3>1. b > i /\ b - 1 \in 1..Len(vs) /\ t[b] = vs[b - 1]
      BY <1>6, <1>7, <2>1, <2>4
    <3>2. a - 1 < b - 1
      BY <1>7, <2>1
    <3> QED
      BY <2>4, <3>1, <3>2 DEF Ordered
  <2> QED
    BY <1>6, <2>2, <2>3, <2>4
<1>8. Ordered(t)
  BY <1>7 DEF Ordered
<1> QED
  BY <1>1, <1>3, <1>4, <1>5, <1>8 DEF t

(* A value that comes into a leaf.                                           *)
LEMMA LeafTakes ==
  ASSUME NEW vs, Shape(0, vs, <<>>), NEW v \in Value, NEW i, Apart(vs, i, v.loc)
  PROVE  LET t == InsertAt(vs, i, v)
         IN /\ Shape(0, t, <<>>) /\ Len(t) = Len(vs) + 1
            /\ Locs(t, <<>>) = Locs(vs, <<>>) \cup {v.loc}
            /\ \A x \in Places : Total(0, t, <<>>, x) = Total(0, vs, <<>>, x) + At(v, x)
<1> DEFINE t == InsertAt(vs, i, v)
           o == <<>>
<1>1. vs \in Seq(Value) /\ Ordered(vs) /\ o \in Seq(Kids(0)) /\ 0 \in Nat
  BY DEF Shape
<1>2. t \in Seq(Value) /\ Ordered(t) /\ Len(t) = Len(vs) + 1 /\ i \in 1..Len(vs) + 1
  BY <1>1, OrderKept
<1>3. Shape(0, t, o)
  BY <1>1, <1>2 DEF Shape
<1>4. ASSUME NEW x \in Places PROVE Total(0, t, o, x) = Total(0, vs, o, x) + At(v, x)
  <2>1. /\ Ats(x) \in [Value -> Int] /\ Ats(x)[v] = At(v, x) /\ At(v, x) \in Int
        /\ Total(0, t, o, x) = Weight(Ats(x), t) + Weight(Parts(0, x), o)
        /\ Total(0, vs, o, x) = Weight(Ats(x), vs) + Weight(Parts(0, x), o)
        /\ Weight(Ats(x), vs) \in Int /\ Weight(Parts(0, x), o) \in Int
    <3> HIDE DEF t, o
    <3> QED
      BY <1>1, <1>2, TotalTyped
  <2>2. Weight(Ats(x), t) = Weight(Ats(x), vs) + Ats(x)[v]
    BY <1>1, <1>2, <2>1, WeightInserted
  <2> HIDE DEF t, o
  <2> QED
    BY <2>1, <2>2
<1>5. Locs(t, o) = Locs(vs, o) \cup {v.loc}
  <2>1. Gains(t, vs, v)
    BY <1>1, <1>2, InsertedTells, Zenon
  <2>2. Len(o) = 0
    OBVIOUS
  <2> HIDE DEF t, o
  <2>3. 1..Len(o) = {}
    BY <2>2
  <2>4. \A y : y \in Locs(t, o) <=> y \in LocSet(t)
    BY <1>1, <1>2, <2>3, LocsApart
  <2>5. \A y : y \in Locs(vs, o) <=> y \in LocSet(vs)
    BY <1>1, <2>3, LocsApart
  <2>6. LocSet(t) = LocSet(vs) \cup {v.loc}
    BY <2>1, GainedLocs, Zenon
  <2> QED
    BY <2>4, <2>5, <2>6, Zenon
<1> QED
  BY <1>2, <1>3, <1>4, <1>5

(* A value and the node on its right that come into an interior node.       *)
Percolates(h, vs, cs, i, v, rhs) ==
  /\ h # 0 /\ Shape(h, vs, cs) /\ v \in Value /\ Apart(vs, i, v.loc)
  /\ rhs \in Kids(h) /\ Len(rhs.values) >= WidthFactor - 1
  /\ Below(cs[i], v.loc) /\ Above(rhs, v.loc)
  /\ i <= Len(vs) => Below(rhs, vs[i].loc)

(* Values and children keep their shape when a split child comes up.        *)
LEMMA PercolatedShape ==
  ASSUME NEW h \in Nat, NEW vs, NEW cs, NEW i, NEW v, NEW rhs, Percolates(h, vs, cs, i, v, rhs)
  PROVE  LET t == InsertAt(vs, i, v)
             c == InsertAt(cs, i + 1, rhs)
         IN /\ Shape(h, t, c) /\ Len(t) = Len(vs) + 1
            /\ Locs(t, c) = Locs(vs, cs) \cup {v.loc} \cup LocsOf(rhs)
            /\ \A x \in Places :
                 Total(h, t, c, x) = Total(h, vs, cs, x) + At(v, x) + Part(rhs, x)
<1> DEFINE t == InsertAt(vs, i, v)
           c == InsertAt(cs, i + 1, rhs)
           k == i + 1
<1>1. /\ h # 0 /\ Shape(h, vs, cs) /\ v \in Value /\ Apart(vs, i, v.loc)
      /\ rhs \in Kids(h) /\ Len(rhs.values) >= WidthFactor - 1
      /\ Below(cs[i], v.loc) /\ Above(rhs, v.loc)
      /\ i <= Len(vs) => Below(rhs, vs[i].loc)
  BY DEF Percolates
<1>2. /\ vs \in Seq(Value) /\ Ordered(vs) /\ cs \in Seq(Kids(h)) /\ Between(vs, cs)
      /\ Len(cs) = Len(vs) + 1 /\ Len(vs) \in Nat
  BY <1>1 DEF Shape, Between
<1>3. /\ t \in Seq(Value) /\ Ordered(t) /\ Len(t) = Len(vs) + 1 /\ i \in 1..Len(vs) + 1
  BY <1>1, <1>2, OrderKept
<1>4. k \in 1..Len(cs) + 1 /\ k = i + 1 /\ i \in 1..Len(cs)
  BY <1>2, <1>3
<1>5. Shifted(t, vs, i, v) /\ Gains(t, vs, v)
  BY <1>1, <1>2, <1>3, InsertedTells, Zenon
<1>6. c = InsertAt(cs, k, rhs)
  OBVIOUS
<1>7. \A j \in 1..Len(t) : \/ j = i /\ t[j] = v
                           \/ j \in 1..i - 1 /\ j \in 1..Len(vs) /\ t[j] = vs[j]
                           \/ j > i /\ j - 1 \in i..Len(vs) /\ j - 1 \in 1..Len(vs)
                              /\ t[j] = vs[j - 1]
  <2> HIDE DEF c, k
  <2> QED
    BY <1>1, <1>2, <1>3, InsertedAs
<1> HIDE DEF t, c, k
<1>8. /\ c \in Seq(Kids(h)) /\ Shifted(c, cs, k, rhs) /\ Gains(c, cs, rhs)
      /\ Len(c) = Len(cs) + 1 /\ c[k] = rhs
      /\ (\A j \in 1..k - 1 : c[j] = cs[j]) /\ (\A j \in k..Len(cs) : c[j + 1] = cs[j])
  <2>1. c \in Seq(Kids(h)) /\ Shifted(c, cs, k, rhs) /\ Gains(c, cs, rhs)
    BY <1>1, <1>2, <1>4, <1>6, InsertedTells, Zenon
  <2> QED
    BY <2>1 DEF Shifted
<1>9. t[i] = v
  BY <1>5 DEF Shifted
<1>10. Between(t, c)
  <2>1. Len(c) = Len(t) + 1
    BY <1>2, <1>3, <1>8
  <2>2. \A j \in 1..Len(c) : Len(c[j].values) >= WidthFactor - 1
    <3>1. \A m \in 1..Len(cs) : Len(cs[m].values) >= WidthFactor - 1
      BY <1>2 DEF Between
    <3> QED
      BY <1>1, <1>8, <3>1, Zenon DEF Gains
  <2>3. ASSUME NEW j \in 1..Len(t) PROVE Below(c[j], t[j].loc) /\ Above(c[j + 1], t[j].loc)
    <3>1. j \in Int /\ i \in Int
      BY <1>3
    <3>2. CASE j = i
      <4>1. t[j] = v /\ c[j + 1] = rhs
        BY <1>4, <1>8, <1>9, <3>2
      <4>2. j \in 1..k - 1
        BY <1>3, <1>4, <3>2
      <4>3. c[j] = cs[i]
        BY <1>8, <3>2, <4>2
      <4> QED
        BY <1>1, <4>1, <4>3
    <3>3. CASE j \in 1..i - 1 /\ j \in 1..Len(vs) /\ t[j] = vs[j]
      <4>1. j \in 1..k - 1 /\ j + 1 \in 1..k - 1
        BY <1>3, <1>4, <3>3
      <4>2. c[j] = cs[j] /\ c[j + 1] = cs[j + 1]
        BY <1>8, <4>1
      <4> QED
        BY <1>2, <3>3, <4>2 DEF Between
    <3>4. CASE j > i /\ j - 1 \in i..Len(vs) /\ j - 1 \in 1..Len(vs) /\ t[j] = vs[j - 1]
      <4> DEFINE m == j - 1
      <4>1. m \in 1..Len(vs) /\ m \in i..Len(vs) /\ m + 1 = j /\ t[j] = vs[m]
        BY <3>1, <3>4
      <4> HIDE DEF m
      <4>2. Above(cs[m + 1], vs[m].loc) /\ Below(cs[m], vs[m].loc)
        BY <1>2, <4>1 DEF Between
      <4>3. j \in k..Len(cs)
        BY <1>2, <1>3, <1>4, <3>4, <4>1
      <4>4. c[j + 1] = cs[m + 1]
        BY <1>8, <4>1, <4>3
      <4>5. CASE m = i
        <5>1. j = k /\ i <= Len(vs)
          BY <1>3, <1>4, <4>1, <4>5
        <5> QED
          BY <1>1, <1>8, <4>1, <4>2, <4>4, <4>5, <5>1
      <4>6. CASE m # i
        <5>1. m \in k..Len(cs)
          BY <1>2, <1>3, <1>4, <4>1, <4>6
        <5>2. c[j] = cs[m]
          BY <1>8, <4>1, <5>1
        <5> QED
          BY <4>1, <4>2, <4>4, <5>2
      <4> QED
        BY <4>5, <4>6
    <3> QED
      BY <1>7, <3>2, <3>3, <3>4
  <2> QED
    BY <2>1, <2>2, <2>3 DEF Between
<1>11. Shape(h, t, c)
  BY <1>1, <1>3, <1>8, <1>10 DEF Shape
<1>12. ASSUME NEW x \in Places
       PROVE  Total(h, t, c, x) = Total(h, vs, cs, x) + At(v, x) + Part(rhs, x)
  <2> DEFINE w == Ats(x)
             u == Parts(h, x)
  <2>1. /\ w \in [Value -> Int] /\ u \in [Kids(h) -> Int]
        /\ w[v] = At(v, x) /\ At(v, x) \in Int /\ u[rhs] = Part(rhs, x) /\ Part(rhs, x) \in Int
        /\ Total(h, t, c, x) = Weight(w, t) + Weight(u, c)
        /\ Total(h, vs, cs, x) = Weight(w, vs) + Weight(u, cs)
        /\ Weight(w, vs) \in Int /\ Weight(u, cs) \in Int
    BY <1>1, <1>2, <1>3, <1>8, TotalTyped
  <2> HIDE DEF w, u
  <2>2. Weight(w, t) = Weight(w, vs) + w[v]
    <3>1. Weight(w, InsertAt(vs, i, v)) = Weight(w, vs) + w[v]
      BY <1>1, <1>2, <1>3, <2>1, WeightInserted
    <3> QED
      BY <3>1 DEF t
  <2>3. Weight(u, c) = Weight(u, cs) + u[rhs]
    <3>1. Weight(u, InsertAt(cs, k, rhs)) = Weight(u, cs) + u[rhs]
      BY <1>1, <1>2, <1>4, <2>1, WeightInserted
    <3> QED
      BY <1>6, <3>1
  <2> QED
    BY <2>1, <2>2, <2>3
<1>13. Locs(t, c) = Locs(vs, cs) \cup {v.loc} \cup LocsOf(rhs)
  <2>1. Gains(t, vs, v) /\ Gains(c, cs, rhs)
    BY <1>5, <1>8
  <2>2. \A y : y \in Locs(t, c) <=> \/ y \in LocSet(t)
                                    \/ \E j \in 1..Len(c) : y \in LocsOf(c[j])
    BY <1>3, <1>8, LocsApart
  <2>3. \A y : y \in Locs(vs, cs) <=> \/ y \in LocSet(vs)
                                      \/ \E j \in 1..Len(cs) : y \in LocsOf(cs[j])
    BY <1>2, LocsApart
  <2>4. LocSet(t) = LocSet(vs) \cup {v.loc}
    BY <2>1, GainedLocs, Zenon
  <2>5. \A y : (\E j \in 1..Len(c) : y \in LocsOf(c[j])) <=>
                 y \in LocsOf(rhs) \/ \E j \in 1..Len(cs) : y \in LocsOf(cs[j])
    BY <2>1, Zenon DEF Gains
  <2>6. \A y : y \in Locs(t, c) <=> y \in Locs(vs, cs) \/ y = v.loc \/ y \in LocsOf(rhs)
    BY <2>2, <2>3, <2>4, <2>5, Zenon
  <2> QED
    BY <2>6, Zenon
<1> QED
  BY <1>3, <1>11, <1>12, <1>13 DEF t, c

-----------------------------------------------------------------------------
(* Insertions                                                                *)
Gain(loc, d, x) == At(Delta(loc, d), x)

(* A tree that a delta was added to, or two and a value that part it.        *)
Grown(m, h, n, loc, d) ==
  /\ m \in Sound(h) /\ Len(m.values) >= Len(n.values)
  /\ LocsOf(m) = LocsOf(n) \cup {loc}
  /\ \A x \in Places : Part(m, x) = Part(n, x) + Gain(loc, d, x)
Parted(r, h, n, loc, d) ==
  /\ Parting(h, r.lhs, r.split, r.rhs)
  /\ LocsOf(r.lhs) \cup {r.split.loc} \cup LocsOf(r.rhs) = LocsOf(n) \cup {loc}
  /\ \A x \in Places :
       Part(r.lhs, x) + At(r.split, x) + Part(r.rhs, x) = Part(n, x) + Gain(loc, d, x)
Done(r, h, n, loc, d) == IF r.isSplit THEN Parted(r, h, n, loc, d) ELSE Grown(r.lhs, h, n, loc, d)

(* What an insertion adds before each place.                                *)
LEMMA GainIs ==
  ASSUME NEW loc \in Nat, NEW d \in Int
  PROVE  /\ Delta(loc, d) \in Value /\ Delta(loc, d).loc = loc /\ Delta(loc, d).delta = d
         /\ Gain(loc, d, All) = d /\ \A x : Gain(loc, d, x) \in Int
         /\ \A x \in Nat : Gain(loc, d, x) = IF loc < x THEN d ELSE 0
<1>1. Delta(loc, d) \in Value /\ Delta(loc, d).loc = loc /\ Delta(loc, d).delta = d
  BY DEF Delta, Value
<1> QED
  BY <1>1 DEF Gain, At, All

(* A value that has a place of its own is not there yet.                    *)
LEMMA Absent ==
  ASSUME NEW vs \in Seq(Value), Ordered(vs), NEW v \in Value, NEW i, Apart(vs, i, v.loc)
  PROVE  v.loc \notin LocSet(vs)
<1>1. /\ \A j \in 1..i - 1 : j \in 1..Len(vs) /\ vs[j].loc < v.loc
      /\ \A j \in i..Len(vs) : j \in 1..Len(vs) /\ v.loc < vs[j].loc
      /\ i \in 1..Len(vs) + 1
  BY OrderKept
<1>2. v.loc \in Nat /\ Len(vs) \in Nat /\ \A j \in 1..Len(vs) : vs[j].loc \in Nat
  BY ValuesTyped DEF Value
<1>3. ASSUME NEW j \in 1..Len(vs) PROVE vs[j].loc # v.loc
  <2>1. j \in 1..i - 1 \/ j \in i..Len(vs)
    BY <1>1, <1>2
  <2>2. vs[j].loc < v.loc \/ v.loc < vs[j].loc
    BY <1>1, <2>1
  <2> QED
    BY <1>2, <2>2
<1> QED
  BY <1>3 DEF LocSet

(* A place that no value has.                                                *)
LEMMA PlaceApart ==
  ASSUME NEW n, NEW loc \in Nat, n.values \in Seq(Value)
  PROVE  /\ IsPlace(n.values, PlaceOf(n, loc), loc)
         /\ Holds(n, PlaceOf(n, loc), loc) =>
              /\ PlaceOf(n, loc) \in 1..Len(n.values)
              /\ n.values[PlaceOf(n, loc)].loc = loc
         /\ ~Holds(n, PlaceOf(n, loc), loc) => Apart(n.values, PlaceOf(n, loc), loc)
<1> DEFINE i == PlaceOf(n, loc)
<1>1. IsPlace(n.values, i, loc)
  BY PlaceOfIs
<1> HIDE DEF i
<1>2. i \in 1..Len(n.values) + 1 /\ Len(n.values) \in Nat
  BY <1>1 DEF IsPlace
<1>3. Holds(n, i, loc) => i \in 1..Len(n.values) /\ n.values[i].loc = loc
  BY <1>2 DEF Holds
<1>4. ~Holds(n, i, loc) => Apart(n.values, i, loc)
  BY <1>1 DEF Holds, Apart
<1> QED
  BY <1>1, <1>3, <1>4 DEF i

(* The locations of a leaf.                                                  *)
LEMMA LeafLocs ==
  ASSUME NEW n \in Sound(0)
  PROVE  n.children = <<>> /\ LocsOf(n) = LocSet(n.values)
<1>1. n.children \in Seq(Kids(0)) /\ n.values \in Seq(Value) /\ 0 \in Nat
  BY SoundTyped
<1>2. n.children = <<>>
  BY <1>1, KidsAre
<1>3. LocsOf(n) = Locs(n.values, n.children)
  BY <1>1, SoundParts
<1> DEFINE vs == n.values
           cs == n.children
           S == Kids(0)
<1>4. vs \in Seq(Value) /\ cs \in Seq(S) /\ 1..Len(cs) = {}
  BY <1>1, <1>2
<1> HIDE DEF vs, cs, S
<1>5. \A x : x \in Locs(vs, cs) <=> x \in LocSet(vs)
  BY <1>4, LocsApart
<1>6. Locs(vs, cs) = LocSet(vs)
  BY <1>5, Zenon
<1> QED
  BY <1>2, <1>3, <1>6 DEF vs, cs

(* A leaf with the new value.                                               *)
LEMMA IntoLeafGrows ==
  ASSUME NEW n \in Sound(0), NEW loc \in Nat, NEW d \in Int, loc \notin LocsOf(n),
         Len(n.values) < 2 * WidthFactor - 1
  PROVE  Grown(IntoLeaf(n, loc, d), 0, n, loc, d)
<1> DEFINE vs == n.values
           v == Delta(loc, d)
           i == PlaceOf(n, loc)
           t == InsertAt(vs, i, v)
           full == n.full + d
<1>1. /\ n.children = <<>> /\ loc \notin LocSet(vs) /\ 0 \in Nat
      /\ n = Node(0, vs, <<>>, n.full) /\ Shape(0, vs, <<>>)
      /\ n.full = Total(0, vs, <<>>, All) /\ n.full \in Int /\ vs \in Seq(Value)
      /\ LocsOf(n) = Locs(vs, <<>>)
      /\ \A x \in Places : Part(n, x) = Total(0, vs, <<>>, x)
  <2>1. n.children = <<>> /\ LocsOf(n) = LocSet(n.values) /\ 0 \in Nat
    BY LeafLocs
  <2>2. /\ n = Node(0, n.values, n.children, n.full) /\ Shape(0, n.values, n.children)
        /\ n.full = Total(0, n.values, n.children, All) /\ n.full \in Int /\ n.values \in Seq(Value)
    BY <2>1, SoundTyped
  <2>3. /\ LocsOf(n) = Locs(n.values, n.children)
        /\ \A x \in Places : Part(n, x) = Total(0, n.values, n.children, x)
    BY <2>1, SoundParts
  <2> QED
    BY <2>1, <2>2, <2>3
<1>2. IntoLeaf(n, loc, d) = Node(0, t, <<>>, full)
  <2>1. n.height = 0
    BY SoundTyped, <1>1
  <2> QED
    BY <1>1, <2>1 DEF IntoLeaf
<1>3. v \in Value /\ v.loc = loc /\ (\A x \in Places : At(v, x) = Gain(loc, d, x)) /\ Gain(loc, d, All) = d
  BY GainIs DEF Gain
<1>4. Apart(vs, i, v.loc)
  <2>1. /\ Holds(n, i, loc) => i \in 1..Len(vs) /\ vs[i].loc = loc
        /\ ~Holds(n, i, loc) => Apart(vs, i, loc)
    BY <1>1, PlaceApart
  <2> HIDE DEF vs, i
  <2>2. ~Holds(n, i, loc)
    BY <1>1, <2>1 DEF LocSet
  <2> QED
    BY <1>3, <2>1, <2>2
<1>5. Len(vs) \in Nat /\ Len(vs) < 2 * WidthFactor - 1
  BY <1>1
<1> HIDE DEF vs, v, i, t
<1>6. /\ Shape(0, t, <<>>) /\ Len(t) = Len(vs) + 1
      /\ Locs(t, <<>>) = Locs(vs, <<>>) \cup {v.loc}
      /\ \A x \in Places : Total(0, t, <<>>, x) = Total(0, vs, <<>>, x) + At(v, x)
  BY <1>1, <1>3, <1>4, LeafTakes DEF t
<1>7. full = Total(0, t, <<>>, All)
  BY <1>1, <1>3, <1>6 DEF Places
<1>8. Len(t) <= 2 * WidthFactor - 1
  BY <1>5, <1>6, DeltaTreeAssumption
<1> DEFINE o == <<>>
           m == Node(0, t, o, full)
<1>9. Shape(0, t, o) /\ full = Total(0, t, o, All)
  BY <1>6, <1>7
<1> HIDE DEF full, o
<1>10. /\ m \in Sound(0) /\ LocsOf(m) = Locs(t, o) /\ m.values = t
       /\ \A x \in Places : Part(m, x) = Total(0, t, o, x)
  BY <1>1, <1>8, <1>9, NodeSound
<1> HIDE DEF m
<1>11. LocsOf(m) = LocsOf(n) \cup {loc}
  BY <1>1, <1>3, <1>6, <1>10 DEF o
<1>12. \A x \in Places : Part(m, x) = Part(n, x) + Gain(loc, d, x)
  BY <1>1, <1>3, <1>6, <1>10 DEF o
<1>13. Len(m.values) >= Len(n.values)
  BY <1>5, <1>6, <1>10 DEF vs
<1>14. Grown(m, 0, n, loc, d)
  BY <1>10, <1>11, <1>12, <1>13 DEF Grown
<1> QED
  BY <1>2, <1>14 DEF m, o

-----------------------------------------------------------------------------
(* What an insertion leaves, and its members.                                *)
LEMMA LeftsAre ==
  ASSUME NEW l, NEW r, NEW v, NEW m
  PROVE  /\ Halves(l, r, v).isSplit /\ Halves(l, r, v).lhs = l
         /\ Halves(l, r, v).rhs = r /\ Halves(l, r, v).split = v
         /\ ~Whole(m).isSplit /\ Whole(m).lhs = m
<1>1. Halves(l, r, v).isSplit /\ ~Whole(m).isSplit
  BY Zenon DEF Halves, Whole
<1>2. Halves(l, r, v).lhs = l /\ Halves(l, r, v).rhs = r /\ Halves(l, r, v).split = v
  BY DEF Halves
<1>3. Whole(m).lhs = m
  BY DEF Whole
<1> QED
  BY <1>1, <1>2, <1>3, Zenon

(* Two halves of a node.                                                     *)
Halved(n, h, l, v, r) ==
  /\ Parting(h, l, v, r) /\ v.loc \in LocsOf(n)
  /\ LocsOf(n) = LocsOf(l) \cup {v.loc} \cup LocsOf(r)
  /\ \A x \in Places : Part(n, x) = Part(l, x) + At(v, x) + Part(r, x)

(* A half takes the delta.                                                   *)
LEMMA HalfGrows ==
  ASSUME NEW h \in Nat, NEW n, NEW l, NEW v, NEW r, Halved(n, h, l, v, r),
         NEW loc \in Nat, NEW d \in Int, NEW m
  PROVE  /\ Grown(m, h, l, loc, d) /\ loc < v.loc => Done(Halves(m, r, v), h, n, loc, d)
         /\ Grown(m, h, r, loc, d) /\ loc > v.loc => Done(Halves(l, m, v), h, n, loc, d)
<1>1. /\ l \in Sound(h) /\ r \in Sound(h) /\ v \in Value
      /\ Len(l.values) >= WidthFactor - 1 /\ Len(r.values) >= WidthFactor - 1
      /\ Below(l, v.loc) /\ Above(r, v.loc)
      /\ LocsOf(n) = LocsOf(l) \cup {v.loc} \cup LocsOf(r)
      /\ \A x \in Places : Part(n, x) = Part(l, x) + At(v, x) + Part(r, x)
  BY DEF Halved, Parting
<1>2. \A x \in Places : /\ Part(l, x) \in Int /\ Part(r, x) \in Int
                        /\ At(v, x) \in Int /\ Gain(loc, d, x) \in Int
  BY <1>1, PartIsInt, AtsTyped, GainIs
<1>3. Len(l.values) \in Nat /\ Len(r.values) \in Nat /\ WidthFactor - 1 \in Int
  BY <1>1, SoundTyped, DeltaTreeAssumption
<1>4. ASSUME Grown(m, h, l, loc, d), loc < v.loc PROVE Done(Halves(m, r, v), h, n, loc, d)
  <2>1. /\ m \in Sound(h) /\ Len(m.values) >= Len(l.values)
        /\ LocsOf(m) = LocsOf(l) \cup {loc}
        /\ \A x \in Places : Part(m, x) = Part(l, x) + Gain(loc, d, x)
    BY <1>4 DEF Grown
  <2>2. Len(m.values) \in Nat
    BY <2>1, SoundTyped
  <2>3. Len(m.values) >= WidthFactor - 1
    BY <1>1, <1>3, <2>1, <2>2
  <2>4. Below(m, v.loc)
    BY <1>1, <1>4, <2>1 DEF Below
  <2>5. Parting(h, m, v, r)
    BY <1>1, <2>1, <2>3, <2>4 DEF Parting
  <2>6. LocsOf(m) \cup {v.loc} \cup LocsOf(r) = LocsOf(n) \cup {loc}
    BY <1>1, <2>1
  <2>7. ASSUME NEW x \in Places
        PROVE  Part(m, x) + At(v, x) + Part(r, x) = Part(n, x) + Gain(loc, d, x)
    BY <1>1, <1>2, <2>1
  <2>8. Parted(Halves(m, r, v), h, n, loc, d)
    BY <2>5, <2>6, <2>7, LeftsAre DEF Parted
  <2> QED
    BY <2>8, LeftsAre DEF Done
<1>5. ASSUME Grown(m, h, r, loc, d), loc > v.loc PROVE Done(Halves(l, m, v), h, n, loc, d)
  <2>1. /\ m \in Sound(h) /\ Len(m.values) >= Len(r.values)
        /\ LocsOf(m) = LocsOf(r) \cup {loc}
        /\ \A x \in Places : Part(m, x) = Part(r, x) + Gain(loc, d, x)
    BY <1>5 DEF Grown
  <2>2. Len(m.values) \in Nat
    BY <2>1, SoundTyped
  <2>3. Len(m.values) >= WidthFactor - 1
    BY <1>1, <1>3, <2>1, <2>2
  <2>4. Above(m, v.loc)
    BY <1>1, <1>5, <2>1 DEF Above
  <2>5. Parting(h, l, v, m)
    BY <1>1, <2>1, <2>3, <2>4 DEF Parting
  <2>6. LocsOf(l) \cup {v.loc} \cup LocsOf(m) = LocsOf(n) \cup {loc}
    BY <1>1, <2>1
  <2>7. ASSUME NEW x \in Places
        PROVE  Part(l, x) + At(v, x) + Part(m, x) = Part(n, x) + Gain(loc, d, x)
    BY <1>1, <1>2, <2>1
  <2>8. Parted(Halves(l, m, v), h, n, loc, d)
    BY <2>5, <2>6, <2>7, LeftsAre DEF Parted
  <2> QED
    BY <2>8, LeftsAre DEF Done
<1> QED
  BY <1>4, <1>5

(* A full node is halved.                                                    *)
LEMMA NodeHalved ==
  ASSUME NEW h \in Nat, NEW n \in Sound(h), Len(n.values) = 2 * WidthFactor - 1
  PROVE  LET s == DoSplit(n)
         IN s = Halves(s.lhs, s.rhs, s.split) /\ Halved(n, h, s.lhs, s.split, s.rhs)
            /\ Len(s.lhs.values) = WidthFactor - 1 /\ Len(s.rhs.values) = WidthFactor - 1
<1> DEFINE s == DoSplit(n)
<1>1. n.height = h /\ Shape(h, n.values, n.children)
  BY SoundTyped
<1>2. SplitUp(h, n.values, n.children, s, s.lhs, s.split, s.rhs)
  BY <1>1, SplitIs
<1>3. /\ LocsOf(n) = Locs(n.values, n.children)
      /\ \A x \in Places : Part(n, x) = Total(h, n.values, n.children, x)
  BY SoundParts
<1> HIDE DEF s
<1>4. Halved(n, h, s.lhs, s.split, s.rhs)
  BY <1>2, <1>3 DEF Halved, SplitUp
<1> QED
  BY <1>2, <1>4 DEF s, SplitUp

(* A leaf takes a delta for a place that has none.                           *)
LEMMA LeafInsertionDone ==
  ASSUME NEW n \in Sound(0), NEW loc \in Nat, NEW d \in Int, loc \notin LocsOf(n)
  PROVE  Done(LeafInsertion(n, loc, d), 0, n, loc, d)
<1>1. 0 \in Nat /\ Len(n.values) \in 0..2 * WidthFactor - 1
  BY SoundTyped
<1>2. CASE ~IsFull(n)
  <2>1. Len(n.values) < 2 * WidthFactor - 1
    BY <1>1, <1>2, DeltaTreeAssumption DEF IsFull
  <2>2. Grown(IntoLeaf(n, loc, d), 0, n, loc, d)
    BY <2>1, IntoLeafGrows
  <2>3. LeafInsertion(n, loc, d) = Whole(IntoLeaf(n, loc, d))
    BY <1>2 DEF LeafInsertion
  <2> QED
    BY <2>2, <2>3, LeftsAre DEF Done
<1>3. CASE IsFull(n)
  <2> DEFINE s == DoSplit(n)
             l == s.lhs
             r == s.rhs
             v == s.split
             z == 0
  <2>1. z \in Nat /\ n \in Sound(z) /\ Len(n.values) = 2 * WidthFactor - 1
    BY <1>1, <1>3 DEF IsFull
  <2>2. /\ s = Halves(l, r, v) /\ Halved(n, z, l, v, r)
        /\ Len(l.values) = WidthFactor - 1 /\ Len(r.values) = WidthFactor - 1
    BY <2>1, NodeHalved
  <2>4. LeafInsertion(n, loc, d) = IF v.loc > loc THEN Halves(IntoLeaf(l, loc, d), r, v)
                                                 ELSE Halves(l, IntoLeaf(r, loc, d), v)
    BY <1>3 DEF LeafInsertion
  <2> HIDE DEF s, l, r, v
  <2>5. /\ l \in Sound(z) /\ r \in Sound(z) /\ v \in Value
        /\ LocsOf(n) = LocsOf(l) \cup {v.loc} \cup LocsOf(r)
    BY <2>2 DEF Halved, Parting
  <2>6. loc \notin LocsOf(l) /\ loc \notin LocsOf(r) /\ loc # v.loc /\ v.loc \in Nat
    BY <2>5 DEF Value
  <2>7. /\ Len(l.values) < 2 * WidthFactor - 1 /\ Len(r.values) < 2 * WidthFactor - 1
    BY <2>2, DeltaTreeAssumption
  <2> DEFINE a == IntoLeaf(l, loc, d)
             b == IntoLeaf(r, loc, d)
  <2>8. Grown(a, z, l, loc, d) /\ Grown(b, z, r, loc, d)
    BY <2>5, <2>6, <2>7, IntoLeafGrows
  <2>9. LeafInsertion(n, loc, d) = IF v.loc > loc THEN Halves(a, r, v) ELSE Halves(l, b, v)
    BY <2>4
  <2> HIDE DEF a, b, z
  <2>10. /\ loc < v.loc => Done(Halves(a, r, v), z, n, loc, d)
         /\ loc > v.loc => Done(Halves(l, b, v), z, n, loc, d)
    BY <2>1, <2>2, <2>8, HalfGrows
  <2>12. v.loc > loc \/ loc > v.loc
    BY <2>6
  <2>13. CASE v.loc > loc
    BY <2>6, <2>9, <2>10, <2>13 DEF z
  <2>14. CASE loc > v.loc
    <3>1. ~(v.loc > loc)
      BY <2>6, <2>14
    <3> QED
      BY <2>6, <2>9, <2>10, <2>14, <3>1 DEF z
  <2> QED
    BY <2>12, <2>13, <2>14
<1> QED
  BY <1>2, <1>3

(* A value takes the delta.                                                  *)
LEMMA ValueGrows ==
  ASSUME NEW h \in Nat, NEW vs, NEW cs, Shape(h, vs, cs), NEW i \in 1..Len(vs), NEW d \in Int
  PROVE  LET v == Delta(vs[i].loc, vs[i].delta + d)
             t == [vs EXCEPT ![i] = v]
         IN /\ Shape(h, t, cs) /\ Len(t) = Len(vs) /\ Locs(t, cs) = Locs(vs, cs)
            /\ vs[i].loc \in Locs(vs, cs)
            /\ \A x \in Places : Total(h, t, cs, x) = Total(h, vs, cs, x) + Gain(vs[i].loc, d, x)
<1> DEFINE v == Delta(vs[i].loc, vs[i].delta + d)
           t == [vs EXCEPT ![i] = v]
<1>1. vs \in Seq(Value) /\ Ordered(vs) /\ cs \in Seq(Kids(h)) /\ (h # 0 => Between(vs, cs))
  BY DEF Shape
<1>2. /\ vs[i] \in Value /\ vs[i].loc \in Nat /\ vs[i].delta \in Int
      /\ Len(vs) \in Nat /\ DOMAIN vs = 1..Len(vs)
  BY <1>1, ValuesTyped
<1>3. v \in Value /\ v.loc = vs[i].loc /\ v.delta = vs[i].delta + d
  BY <1>2, GainIs
<1>4. ASSUME NEW x \in Places PROVE At(v, x) = At(vs[i], x) + Gain(vs[i].loc, d, x)
  <2>1. Delta(vs[i].loc, d).loc = vs[i].loc /\ Delta(vs[i].loc, d).delta = d
    BY <1>2, GainIs
  <2> QED
    BY <1>2, <1>3, <2>1 DEF Gain, At
<1> HIDE DEF v
<1>5. t \in Seq(Value) /\ Len(t) = Len(vs) /\ t[i] = v /\ \A j \in 1..Len(vs) : j # i => t[j] = vs[j]
  BY <1>1, <1>3, ReplacedIs
<1>6. ASSUME NEW x \in Places
      PROVE  Weight(Ats(x), t) = Weight(Ats(x), vs) + (At(v, x) - At(vs[i], x))
  <2>1. Ats(x) \in [Value -> Int] /\ Ats(x)[v] = At(v, x) /\ Ats(x)[vs[i]] = At(vs[i], x)
    BY <1>2, <1>3, AtsTyped
  <2>2. Weight(Ats(x), t) = Weight(Ats(x), vs) + (Ats(x)[v] - Ats(x)[vs[i]])
    BY <1>1, <1>3, <2>1, WeightReplaced
  <2> QED
    BY <2>1, <2>2
<1> HIDE DEF t
<1>7. \A j \in 1..Len(vs) : t[j].loc = vs[j].loc
  BY <1>3, <1>5
<1>8. Ordered(t)
  BY <1>1, <1>5, <1>7 DEF Ordered
<1>9. h # 0 => Between(t, cs)
  <2>1. SUFFICES ASSUME h # 0 PROVE Between(t, cs)
    OBVIOUS
  <2>2. Between(vs, cs)
    BY <1>1, <2>1
  <2> QED
    BY <1>5, <1>7, <2>2 DEF Between
<1>10. Shape(h, t, cs)
  BY <1>1, <1>5, <1>8, <1>9 DEF Shape
<1>11. /\ \A x : x \in Locs(t, cs) <=> x \in Locs(vs, cs)
       /\ vs[i].loc \in Locs(vs, cs)
  <2>1. \A x : x \in Locs(t, cs) <=> \/ \E j \in 1..Len(t) : x = t[j].loc
                                     \/ \E j \in 1..Len(cs) : x \in LocsOf(cs[j])
    BY <1>1, <1>5, LocsMembers
  <2>2. /\ \A x : x \in Locs(vs, cs) <=> \/ \E j \in 1..Len(vs) : x = vs[j].loc
                                         \/ \E j \in 1..Len(cs) : x \in LocsOf(cs[j])
        /\ \A j \in 1..Len(vs) : vs[j].loc \in Locs(vs, cs)
    BY <1>1, LocsMembers
  <2>3. ASSUME NEW x PROVE (\E j \in 1..Len(t) : x = t[j].loc) <=> (\E j \in 1..Len(vs) : x = vs[j].loc)
    BY <1>5, <1>7
  <2> QED
    BY <2>1, <2>2, <2>3, Zenon
<1>12. Locs(t, cs) = Locs(vs, cs)
  BY <1>11, Zenon
<1>13. ASSUME NEW x \in Places
       PROVE  Total(h, t, cs, x) = Total(h, vs, cs, x) + Gain(vs[i].loc, d, x)
  <2>1. /\ Total(h, t, cs, x) = Weight(Ats(x), t) + Weight(Parts(h, x), cs)
        /\ Total(h, vs, cs, x) = Weight(Ats(x), vs) + Weight(Parts(h, x), cs)
        /\ Weight(Ats(x), vs) \in Int /\ Weight(Parts(h, x), cs) \in Int
        /\ At(v, x) \in Int /\ At(vs[i], x) \in Int
    BY <1>1, <1>2, <1>3, <1>5, TotalTyped
  <2>2. Gain(vs[i].loc, d, x) \in Int
    BY <1>2, GainIs
  <2> QED
    BY <1>4, <1>6, <2>1, <2>2
<1> QED
  BY <1>5, <1>10, <1>11, <1>12, <1>13 DEF t, v

(* A node whose value was there already takes the delta.                    *)
LEMMA AddedHereGrows ==
  ASSUME NEW h \in Nat, NEW n \in Sound(h), NEW loc \in Nat, NEW d \in Int,
         NEW i \in 1..Len(n.values), n.values[i].loc = loc
  PROVE  Grown(AddedHere(n, i, d), h, n, loc, d)
<1> DEFINE vs == n.values
           cs == n.children
           full == n.full + d
           v == Delta(vs[i].loc, vs[i].delta + d)
           t == [vs EXCEPT ![i] = v]
           m == Node(h, t, cs, full)
<1>1. /\ n.height = h /\ n.full \in Int /\ Shape(h, vs, cs) /\ n.full = Total(h, vs, cs, All)
      /\ Len(vs) \in 0..2 * WidthFactor - 1
  BY SoundTyped
<1>2. LocsOf(n) = Locs(vs, cs) /\ \A x \in Places : Part(n, x) = Total(h, vs, cs, x)
  BY SoundParts
<1>3. AddedHere(n, i, d) = m
  <2>1. AddedHere(n, i, d) = Node(n.height, [vs EXCEPT ![i] = Delta(@.loc, @.delta + d)], cs, full)
    BY DEF AddedHere
  <2>2. [vs EXCEPT ![i] = Delta(@.loc, @.delta + d)] = t
    OBVIOUS
  <2> QED
    BY <1>1, <2>1, <2>2
<1>4. /\ Shape(h, t, cs) /\ Len(t) = Len(vs) /\ Locs(t, cs) = Locs(vs, cs)
      /\ loc \in Locs(vs, cs)
      /\ \A x \in Places : Total(h, t, cs, x) = Total(h, vs, cs, x) + Gain(loc, d, x)
  <2> HIDE DEF full
  <2>1. /\ Shape(h, t, cs) /\ Len(t) = Len(vs) /\ Locs(t, cs) = Locs(vs, cs)
        /\ vs[i].loc \in Locs(vs, cs)
        /\ \A x \in Places : Total(h, t, cs, x) = Total(h, vs, cs, x) + Gain(vs[i].loc, d, x)
    BY <1>1, ValueGrows
  <2>2. vs[i].loc = loc
    OBVIOUS
  <2> HIDE DEF t, vs, cs
  <2> QED
    BY <2>1, <2>2
<1> HIDE DEF vs, cs, t
<1>5. All \in Places /\ Gain(loc, d, All) = d
  BY GainIs DEF Places
<1>6. full = Total(h, t, cs, All) /\ Len(t) <= 2 * WidthFactor - 1
  BY <1>1, <1>4, <1>5
<1> HIDE DEF full
<1>7. /\ m \in Sound(h) /\ LocsOf(m) = Locs(t, cs) /\ m.values = t
      /\ \A x \in Places : Part(m, x) = Total(h, t, cs, x)
  BY <1>4, <1>6, NodeSound
<1> HIDE DEF m
<1>8. LocsOf(m) = LocsOf(n) \cup {loc}
  BY <1>2, <1>4, <1>7
<1>9. ASSUME NEW x \in Places PROVE Part(m, x) = Part(n, x) + Gain(loc, d, x)
  BY <1>2, <1>4, <1>7
<1>10. Len(m.values) >= Len(n.values)
  BY <1>1, <1>4, <1>7 DEF vs
<1>11. Grown(m, h, n, loc, d)
  BY <1>7, <1>8, <1>9, <1>10 DEF Grown
<1> QED
  BY <1>3, <1>11

-----------------------------------------------------------------------------
(* Interior nodes                                                            *)
Others(cs, i) == (1..Len(cs)) \ {i}
Rest(vs, cs, i) == LocSet(vs) \cup UNION {LocsOf(cs[j]) : j \in Others(cs, i)}

(* All but what is below the i-th child.                                     *)
LEMMA RestAndChild ==
  ASSUME NEW vs \in Seq(Value), NEW S, NEW cs \in Seq(S), NEW i \in 1..Len(cs)
  PROVE  Locs(vs, cs) = Rest(vs, cs, i) \cup LocsOf(cs[i])
<1>1. \A x : x \in Locs(vs, cs) <=> \/ x \in LocSet(vs)
                                    \/ \E j \in 1..Len(cs) : x \in LocsOf(cs[j])
  BY LocsApart
<1>2. \A x : x \in Rest(vs, cs, i) <=> \/ x \in LocSet(vs)
                                       \/ \E j \in Others(cs, i) : x \in LocsOf(cs[j])
  <2>1. \A x : x \in UNION {LocsOf(cs[j]) : j \in Others(cs, i)}
                 <=> \E j \in Others(cs, i) : x \in LocsOf(cs[j])
    OBVIOUS
  <2> DEFINE U == UNION {LocsOf(cs[j]) : j \in Others(cs, i)}
  <2>2. Rest(vs, cs, i) = LocSet(vs) \cup U
    BY DEF Rest
  <2> HIDE DEF U
  <2>3. \A x : x \in Rest(vs, cs, i) <=> x \in LocSet(vs) \/ x \in U
    BY <2>2
  <2> QED
    BY <2>1, <2>3 DEF U
<1>3. \A j : j \in 1..Len(cs) <=> j \in Others(cs, i) \/ j = i
  BY DEF Others
<1>4. \A x : x \in Locs(vs, cs) <=> x \in Rest(vs, cs, i) \/ x \in LocsOf(cs[i])
  BY <1>1, <1>2, <1>3, Zenon
<1> QED
  BY <1>4

(* Another child in the place of one.                                        *)
Fits(h, vs, i, m) ==
  /\ m \in Kids(h) /\ Len(m.values) >= WidthFactor - 1
  /\ i <= Len(vs) => Below(m, vs[i].loc)
  /\ i > 1 => Above(m, vs[i - 1].loc)

Replaced(h, vs, cs, i, m, t) ==
  /\ Shape(h, vs, t) /\ t[i] = m /\ Len(t) = Len(cs)
  /\ Locs(vs, cs) = Rest(vs, cs, i) \cup LocsOf(cs[i])
  /\ Locs(vs, t) = Rest(vs, cs, i) \cup LocsOf(m)
  /\ \A x \in Places : Total(h, vs, t, x) = Total(h, vs, cs, x) + (Part(m, x) - Part(cs[i], x))

(* A child that is replaced by one that fits leaves the node sound.         *)
LEMMA ChildReplaced ==
  ASSUME NEW h \in Nat, h # 0, NEW vs, NEW cs, Shape(h, vs, cs), NEW i \in 1..Len(vs) + 1,
         NEW m, Fits(h, vs, i, m)
  PROVE  Replaced(h, vs, cs, i, m, [cs EXCEPT ![i] = m])
<1> DEFINE t == [cs EXCEPT ![i] = m]
<1>1. /\ vs \in Seq(Value) /\ Ordered(vs) /\ cs \in Seq(Kids(h)) /\ Between(vs, cs)
      /\ Len(cs) = Len(vs) + 1 /\ Len(vs) \in Nat
  BY DEF Shape, Between
<1>2. /\ m \in Kids(h) /\ Len(m.values) >= WidthFactor - 1
      /\ i <= Len(vs) => Below(m, vs[i].loc)
      /\ i > 1 => Above(m, vs[i - 1].loc)
  BY DEF Fits
<1>3. i \in 1..Len(cs)
  BY <1>1
<1>4. t \in Seq(Kids(h)) /\ Len(t) = Len(cs) /\ t[i] = m /\ \A j \in 1..Len(cs) : j # i => t[j] = cs[j]
  BY <1>1, <1>2, <1>3, ReplacedIs
<1>5. ASSUME NEW x \in Places
      PROVE  Weight(Parts(h, x), t) = Weight(Parts(h, x), cs) + (Part(m, x) - Part(cs[i], x))
  <2>1. cs[i] \in Kids(h)
    BY <1>1, <1>3
  <2>2. /\ Parts(h, x) \in [Kids(h) -> Int]
        /\ Parts(h, x)[m] = Part(m, x) /\ Parts(h, x)[cs[i]] = Part(cs[i], x)
    BY <1>2, <2>1, TotalTyped
  <2>3. Weight(Parts(h, x), t) = Weight(Parts(h, x), cs) + (Parts(h, x)[m] - Parts(h, x)[cs[i]])
    BY <1>1, <1>2, <1>3, <2>2, WeightReplaced
  <2> QED
    BY <2>2, <2>3
<1> HIDE DEF t
<1>6. Between(vs, t)
  <2>1. /\ \A j \in 1..Len(cs) : Len(cs[j].values) >= WidthFactor - 1
        /\ \A j \in 1..Len(vs) : Below(cs[j], vs[j].loc) /\ Above(cs[j + 1], vs[j].loc)
    BY <1>1 DEF Between
  <2>2. ASSUME NEW j \in 1..Len(t) PROVE Len(t[j].values) >= WidthFactor - 1
    <3>1. CASE j = i
      BY <1>2, <1>4, <3>1
    <3>2. CASE j # i
      BY <1>4, <2>1, <3>2
    <3> QED
      BY <3>1, <3>2
  <2>3. ASSUME NEW j \in 1..Len(vs) PROVE Below(t[j], vs[j].loc)
    <3>1. CASE j = i
      BY <1>1, <1>2, <1>4, <3>1
    <3>2. CASE j # i
      <4>1. j \in 1..Len(cs)
        BY <1>1
      <4> QED
        BY <1>4, <2>1, <3>2, <4>1
    <3> QED
      BY <3>1, <3>2
  <2>4. ASSUME NEW j \in 1..Len(vs) PROVE Above(t[j + 1], vs[j].loc)
    <3>1. CASE j + 1 = i
      <4>1. i > 1 /\ j = i - 1
        BY <1>1, <3>1
      <4> QED
        BY <1>2, <1>4, <3>1, <4>1
    <3>2. CASE j + 1 # i
      <4>1. j + 1 \in 1..Len(cs)
        BY <1>1
      <4>2. t[j + 1] = cs[j + 1]
        BY <1>4, <3>2, <4>1
      <4> QED
        BY <2>1, <4>2
    <3> QED
      BY <3>1, <3>2
  <2>5. Len(t) = Len(vs) + 1
    BY <1>1, <1>4
  <2> QED
    BY <2>2, <2>3, <2>4, <2>5 DEF Between
<1>7. Shape(h, vs, t)
  BY <1>1, <1>4, <1>6 DEF Shape
<1>8. Locs(vs, cs) = Rest(vs, cs, i) \cup LocsOf(cs[i])
  BY <1>1, <1>3, RestAndChild
<1>9. Locs(vs, t) = Rest(vs, cs, i) \cup LocsOf(m)
  <2>1. Locs(vs, t) = Rest(vs, t, i) \cup LocsOf(t[i])
    BY <1>1, <1>3, <1>4, RestAndChild
  <2>2. Others(t, i) = Others(cs, i)
    BY <1>4 DEF Others
  <2>3. \A j \in Others(cs, i) : LocsOf(t[j]) = LocsOf(cs[j])
    BY <1>4 DEF Others
  <2>4. {LocsOf(t[j]) : j \in Others(t, i)} = {LocsOf(cs[j]) : j \in Others(cs, i)}
    BY <2>2, <2>3
  <2>5. Rest(vs, t, i) = Rest(vs, cs, i)
    BY <2>4 DEF Rest
  <2> QED
    BY <1>4, <2>1, <2>5
<1>10. ASSUME NEW x \in Places
       PROVE  Total(h, vs, t, x) = Total(h, vs, cs, x) + (Part(m, x) - Part(cs[i], x))
  <2>1. /\ Total(h, vs, t, x) = Weight(Ats(x), vs) + Weight(Parts(h, x), t)
        /\ Total(h, vs, cs, x) = Weight(Ats(x), vs) + Weight(Parts(h, x), cs)
        /\ Weight(Ats(x), vs) \in Int /\ Weight(Parts(h, x), cs) \in Int
    BY <1>1, <1>4, TotalTyped
  <2>2. Part(m, x) \in Int /\ Part(cs[i], x) \in Int
    <3>1. cs[i] \in Kids(h)
      BY <1>1, <1>3
    <3> QED
      BY <1>2, <3>1, TotalTyped
  <2> QED
    BY <1>5, <2>1, <2>2
<1> QED
  BY <1>4, <1>7, <1>8, <1>9, <1>10 DEF t, Replaced

(* A node that takes what comes up from a child.                             *)
LEMMA WithPercolatedIs ==
  ASSUME NEW h \in Nat, NEW n, n.height = h,
         NEW i, NEW v, NEW rhs, Percolates(h, n.values, n.children, i, v, rhs)
  PROVE  WithPercolated(n, v, rhs) =
           Node(h, InsertAt(n.values, i, v), InsertAt(n.children, i + 1, rhs), n.full)
<1>1. /\ n.values \in Seq(Value) /\ v \in Value /\ IsPlace(n.values, i, v.loc)
  BY DEF Percolates, Shape, Apart
<1>2. v.loc \in Nat
  BY <1>1 DEF Value
<1>3. PlaceOf(n, v.loc) = i
  BY <1>1, <1>2, PlaceOfIs
<1> QED
  BY <1>3 DEF WithPercolated

(* A node that is not full is sound with what comes up.                     *)
LEMMA PercolatedSound ==
  ASSUME NEW h \in Nat, NEW vs, NEW cs, NEW i, NEW v, NEW rhs, Percolates(h, vs, cs, i, v, rhs),
         Len(vs) < 2 * WidthFactor - 1,
         NEW full, full = Total(h, vs, cs, All) + v.delta + rhs.full
  PROVE  LET m == Node(h, InsertAt(vs, i, v), InsertAt(cs, i + 1, rhs), full)
         IN /\ m \in Sound(h) /\ Len(m.values) = Len(vs) + 1
            /\ LocsOf(m) = Locs(vs, cs) \cup {v.loc} \cup LocsOf(rhs)
            /\ \A x \in Places : Part(m, x) = Total(h, vs, cs, x) + At(v, x) + Part(rhs, x)
<1> DEFINE t == InsertAt(vs, i, v)
           c == InsertAt(cs, i + 1, rhs)
           m == Node(h, t, c, full)
<1>1. /\ Shape(h, t, c) /\ Len(t) = Len(vs) + 1
      /\ Locs(t, c) = Locs(vs, cs) \cup {v.loc} \cup LocsOf(rhs)
      /\ \A x \in Places : Total(h, t, c, x) = Total(h, vs, cs, x) + At(v, x) + Part(rhs, x)
  BY PercolatedShape
<1> HIDE DEF t, c
<1>2. Len(vs) \in Nat
  BY ValuesTyped DEF Percolates, Shape
<1>3. Len(t) <= 2 * WidthFactor - 1
  BY <1>1, <1>2, DeltaTreeAssumption
<1>4. full = Total(h, t, c, All)
  <2>1. At(v, All) = v.delta /\ Part(rhs, All) = rhs.full /\ All \in Places
    BY DEF At, Part, Places
  <2> QED
    BY <1>1, <2>1
<1>5. /\ m \in Sound(h) /\ LocsOf(m) = Locs(t, c) /\ m.values = t
      /\ \A x \in Places : Part(m, x) = Total(h, t, c, x)
  BY <1>1, <1>3, <1>4, NodeSound
<1> HIDE DEF m
<1>6. \A x \in Places : Part(m, x) = Total(h, vs, cs, x) + At(v, x) + Part(rhs, x)
  BY <1>1, <1>5
<1>7. m \in Sound(h) /\ Len(m.values) = Len(vs) + 1
      /\ LocsOf(m) = Locs(vs, cs) \cup {v.loc} \cup LocsOf(rhs)
  BY <1>1, <1>5
<1> QED
  BY <1>6, <1>7 DEF m, t, c

-----------------------------------------------------------------------------
(* What comes back                                                           *)

(* The child an insertion goes into: what it may leave fits its place.       *)
Into(h, n, i, loc) ==
  /\ h # 0 /\ n \in Sound(h) /\ Apart(n.values, i, loc)

(* What the child is, and what may be put below it.                         *)
LEMMA IntoIs ==
  ASSUME NEW h \in Nat, NEW n, NEW i, NEW loc \in Nat, Into(h, n, i, loc)
  PROVE  /\ i \in 1..Len(n.values) + 1 /\ i \in 1..Len(n.children)
         /\ Len(n.values) \in 0..2 * WidthFactor - 1
         /\ n.children[i] \in Kids(h) /\ n.children[i] \in Sound(h - 1) /\ h - 1 \in Nat
         /\ Len(n.children[i].values) >= WidthFactor - 1
         /\ i <= Len(n.values) => Below(n.children[i], n.values[i].loc) /\ loc < n.values[i].loc
         /\ i > 1 => Above(n.children[i], n.values[i - 1].loc) /\ n.values[i - 1].loc < loc
         /\ \A j \in 1..Len(n.values) : n.values[j].loc \in Nat
<1> DEFINE vs == n.values
           cs == n.children
<1>1. /\ vs \in Seq(Value) /\ Ordered(vs) /\ cs \in Seq(Kids(h)) /\ Between(vs, cs)
      /\ Len(vs) \in 0..2 * WidthFactor - 1
  BY SoundTyped DEF Into
<1>2. IsPlace(vs, i, loc) /\ (i <= Len(vs) => vs[i].loc # loc)
  BY DEF Into, Apart
<1> HIDE DEF vs, cs
<1>3. /\ i \in 1..Len(vs) + 1 /\ i \in 1..Len(cs) /\ Len(vs) \in Nat
      /\ \A j \in 1..Len(vs) : vs[j].loc \in Nat
  BY <1>1, <1>2, ValuesTyped DEF IsPlace, Between
<1>4. cs[i] \in Kids(h)
  BY <1>1, <1>3
<1>5. cs[i] \in Sound(h - 1) /\ h - 1 \in Nat
  BY <1>4, KidsAre DEF Into
<1>6. Len(cs[i].values) >= WidthFactor - 1
  BY <1>1, <1>3 DEF Between
<1>7. i <= Len(vs) => Below(cs[i], vs[i].loc) /\ loc < vs[i].loc
  <2>1. SUFFICES ASSUME i <= Len(vs) PROVE Below(cs[i], vs[i].loc) /\ loc < vs[i].loc
    OBVIOUS
  <2>2. i \in 1..Len(vs)
    BY <1>3, <2>1
  <2>3. vs[i].loc >= loc /\ vs[i].loc # loc /\ vs[i].loc \in Nat
    BY <1>2, <1>3, <2>1, <2>2 DEF IsPlace
  <2> QED
    BY <1>1, <2>2, <2>3 DEF Between
<1>8. i > 1 => Above(cs[i], vs[i - 1].loc) /\ vs[i - 1].loc < loc
  <2>1. SUFFICES ASSUME i > 1 PROVE Above(cs[i], vs[i - 1].loc) /\ vs[i - 1].loc < loc
    OBVIOUS
  <2>2. i - 1 \in 1..Len(vs) /\ i - 1 \in 1..i - 1 /\ i - 1 + 1 = i
    BY <1>3, <2>1
  <2>3. vs[i - 1].loc < loc
    BY <1>2, <2>2 DEF IsPlace
  <2>4. Above(cs[i - 1 + 1], vs[i - 1].loc)
    BY <1>1, <2>2 DEF Between
  <2> QED
    BY <2>2, <2>3, <2>4
<1> QED
  BY <1>1, <1>3, <1>4, <1>5, <1>6, <1>7, <1>8 DEF vs, cs

(* A tree within the locations of the child and the new one fits there.      *)
LEMMA PlaceKept ==
  ASSUME NEW h \in Nat, NEW n, NEW i, NEW loc \in Nat, Into(h, n, i, loc)
  PROVE  /\ \A m : /\ m \in Kids(h) /\ Len(m.values) >= WidthFactor - 1
                   /\ LocsOf(m) \subseteq LocsOf(n.children[i]) \cup {loc}
                   => Fits(h, n.values, i, m)
         /\ \A y \in LocsOf(n.children[i]) \cup {loc} : Apart(n.values, i, y)
<1> DEFINE vs == n.values
           c == n.children[i]
<1>1. /\ i \in 1..Len(vs) + 1 /\ Len(vs) \in Nat
      /\ c \in Sound(h - 1) /\ h - 1 \in Nat
      /\ i <= Len(vs) => Below(c, vs[i].loc) /\ loc < vs[i].loc
      /\ i > 1 => Above(c, vs[i - 1].loc) /\ vs[i - 1].loc < loc
      /\ \A j \in 1..Len(vs) : vs[j].loc \in Nat
  BY IntoIs
<1>2. /\ LocsOf(c) \subseteq Nat
  BY <1>1, SoundParts
<1>3. IsPlace(vs, i, loc) /\ vs \in Seq(Value) /\ Ordered(vs)
  BY SoundTyped DEF Into, Apart
<1> HIDE DEF vs, c
<1>4. ASSUME NEW y \in LocsOf(c) \cup {loc}
      PROVE  /\ y \in Nat /\ i <= Len(vs) => y < vs[i].loc
             /\ y \in Nat /\ i > 1 => y > vs[i - 1].loc
  BY <1>1, <1>2 DEF Below, Above
<1>5. ASSUME NEW m, m \in Kids(h), Len(m.values) >= WidthFactor - 1,
             LocsOf(m) \subseteq LocsOf(c) \cup {loc}
      PROVE  Fits(h, vs, i, m)
  <2>1. i <= Len(vs) => Below(m, vs[i].loc)
    BY <1>2, <1>4, <1>5 DEF Below
  <2>2. i > 1 => Above(m, vs[i - 1].loc)
    BY <1>2, <1>4, <1>5 DEF Above
  <2> QED
    BY <1>5, <2>1, <2>2 DEF Fits
<1>6. ASSUME NEW y \in LocsOf(c) \cup {loc} PROVE Apart(vs, i, y)
  <2>1. y \in Nat
    BY <1>2
  <2>2. i <= Len(vs) => y < vs[i].loc /\ vs[i].loc \in Nat
    BY <1>1, <1>4, <2>1
  <2>3. ASSUME NEW j \in 1..i - 1 PROVE vs[j].loc < y
    <3>1. i > 1 /\ i - 1 \in 1..Len(vs) /\ j \in 1..Len(vs) /\ j <= i - 1
      BY <1>1
    <3>2. vs[i - 1].loc < y
      BY <1>4, <2>1, <3>1
    <3>3. j < i - 1 => vs[j].loc < vs[i - 1].loc
      BY <1>3, <3>1 DEF Ordered
    <3>4. vs[j].loc \in Nat /\ vs[i - 1].loc \in Nat
      BY <1>1, <3>1
    <3>5. CASE j = i - 1
      BY <3>2, <3>5
    <3>6. CASE j < i - 1
      BY <2>1, <3>2, <3>3, <3>4, <3>6
    <3> QED
      BY <1>1, <3>1, <3>5, <3>6
  <2>4. IsPlace(vs, i, y)
    BY <1>1, <2>1, <2>2, <2>3 DEF IsPlace
  <2>5. i <= Len(vs) => vs[i].loc # y
    BY <2>1, <2>2
  <2> QED
    BY <2>4, <2>5 DEF Apart
<1> QED
  BY <1>5, <1>6 DEF vs, c

(* The child was not split.                                                  *)
LEMMA WholeReturned ==
  ASSUME NEW h \in Nat, NEW n, NEW i, NEW loc \in Nat, NEW d \in Int, Into(h, n, i, loc),
         NEW r, ~r.isSplit, Grown(r.lhs, h - 1, n.children[i], loc, d)
  PROVE  Done(Returned(n, i, d, r), h, n, loc, d)
<1> DEFINE vs == n.values
           cs == n.children
           c == n.children[i]
           m == r.lhs
           t == [cs EXCEPT ![i] = m]
           full == n.full + d
           k == Node(h, vs, t, full)
<1>1. /\ n \in Sound(h) /\ n.height = h /\ h # 0 /\ Shape(h, vs, cs) /\ n.full \in Int
      /\ n.full = Total(h, vs, cs, All) /\ Len(vs) \in 0..2 * WidthFactor - 1
  BY SoundTyped DEF Into
<1>2. LocsOf(n) = Locs(vs, cs) /\ \A x \in Places : Part(n, x) = Total(h, vs, cs, x)
  BY <1>1, SoundParts
<1>3. i \in 1..Len(vs) + 1 /\ c \in Kids(h) /\ h - 1 \in Nat /\ Kids(h) = Sound(h - 1)
      /\ Len(c.values) >= WidthFactor - 1
  BY <1>1, IntoIs, KidsAre
<1>4. /\ m \in Sound(h - 1) /\ Len(m.values) >= Len(c.values)
      /\ LocsOf(m) = LocsOf(c) \cup {loc}
      /\ \A x \in Places : Part(m, x) = Part(c, x) + Gain(loc, d, x)
  BY DEF Grown
<1>5. Returned(n, i, d, r) = Whole(k)
  BY <1>1 DEF Returned
<1>6. Len(m.values) >= WidthFactor - 1
  <2>1. Len(m.values) \in Nat /\ Len(c.values) \in Nat
    BY <1>3, <1>4, SoundTyped
  <2> QED
    BY <1>3, <1>4, <2>1, DeltaTreeAssumption
<1>7. Fits(h, vs, i, m)
  <2>1. m \in Kids(h) /\ LocsOf(m) \subseteq LocsOf(c) \cup {loc}
    BY <1>3, <1>4
  <2> HIDE DEF m
  <2> QED
    BY <1>6, <2>1, PlaceKept
<1>8. ASSUME NEW x \in Places PROVE Part(m, x) \in Int /\ Part(c, x) \in Int /\ Gain(loc, d, x) \in Int
  BY <1>3, <1>4, PartIsInt, GainIs
<1> HIDE DEF vs, cs, m, full
<1>9. /\ Shape(h, vs, t)
      /\ Locs(vs, cs) = Rest(vs, cs, i) \cup LocsOf(cs[i])
      /\ Locs(vs, t) = Rest(vs, cs, i) \cup LocsOf(m)
      /\ \A x \in Places : Total(h, vs, t, x) = Total(h, vs, cs, x) + (Part(m, x) - Part(cs[i], x))
  <2>1. h # 0 /\ Shape(h, vs, cs) /\ i \in 1..Len(vs) + 1
    BY <1>1, <1>3
  <2>2. Replaced(h, vs, cs, i, m, t)
    BY <2>1, <1>7, ChildReplaced
  <2> QED
    BY <2>2 DEF Replaced
<1>10. cs[i] = c
  BY DEF cs
<1> HIDE DEF c, t
<1>11. vs \in Seq(Value) /\ cs \in Seq(Kids(h)) /\ \A x \in Places : Total(h, vs, cs, x) \in Int
  BY <1>1, TotalTyped DEF Shape
<1>12. ASSUME NEW x \in Places PROVE Total(h, vs, t, x) = Total(h, vs, cs, x) + Gain(loc, d, x)
  BY <1>4, <1>8, <1>9, <1>10, <1>11
<1>13. All \in Places /\ Gain(loc, d, All) = d
  BY GainIs DEF Places
<1>14. full = Total(h, vs, t, All) /\ Len(vs) <= 2 * WidthFactor - 1
  BY <1>1, <1>12, <1>13 DEF full
<1>15. /\ k \in Sound(h) /\ LocsOf(k) = Locs(vs, t) /\ k.values = vs
       /\ \A x \in Places : Part(k, x) = Total(h, vs, t, x)
  BY <1>9, <1>14, NodeSound
<1> HIDE DEF k
<1>16. LocsOf(k) = LocsOf(n) \cup {loc}
  BY <1>2, <1>4, <1>9, <1>10, <1>15
<1>17. ASSUME NEW x \in Places PROVE Part(k, x) = Part(n, x) + Gain(loc, d, x)
  BY <1>2, <1>12, <1>15
<1>18. Len(k.values) >= Len(n.values)
  BY <1>1, <1>15 DEF vs
<1>19. Grown(k, h, n, loc, d)
  BY <1>15, <1>16, <1>17, <1>18 DEF Grown
<1>20. ~Whole(k).isSplit /\ Whole(k).lhs = k
  BY LeftsAre
<1> QED
  BY <1>5, <1>19, <1>20 DEF Done

-----------------------------------------------------------------------------
(* The child was split: its left half is in its place.                       *)
Taken(h, n, vs, t, i, v, q, loc, d) ==
  /\ Percolates(h, vs, t, i, v, q)
  /\ Locs(vs, t) \cup {v.loc} \cup LocsOf(q) = LocsOf(n) \cup {loc}
  /\ \A x \in Places : Total(h, vs, t, x) + At(v, x) + Part(q, x) = Part(n, x) + Gain(loc, d, x)

(* A split child leaves its left half in its place and hands up the rest.   *)
LEMMA SplitTaken ==
  ASSUME NEW h \in Nat, NEW n, NEW i, NEW loc \in Nat, NEW d \in Int, Into(h, n, i, loc),
         NEW r, Parted(r, h - 1, n.children[i], loc, d)
  PROVE  Taken(h, n, n.values, [n.children EXCEPT ![i] = r.lhs], i, r.split, r.rhs, loc, d)
<1> DEFINE vs == n.values
           cs == n.children
           c == n.children[i]
           l == r.lhs
           v == r.split
           q == r.rhs
           t == [cs EXCEPT ![i] = l]
<1>1. /\ n \in Sound(h) /\ n.height = h /\ h # 0 /\ Shape(h, vs, cs)
  BY SoundTyped DEF Into
<1>2. LocsOf(n) = Locs(vs, cs) /\ \A x \in Places : Part(n, x) = Total(h, vs, cs, x)
  BY <1>1, SoundParts
<1>3. i \in 1..Len(vs) + 1 /\ c \in Kids(h) /\ h - 1 \in Nat /\ Kids(h) = Sound(h - 1)
  BY <1>1, IntoIs, KidsAre
<1>4. /\ Parting(h - 1, l, v, q)
      /\ LocsOf(l) \cup {v.loc} \cup LocsOf(q) = LocsOf(c) \cup {loc}
      /\ \A x \in Places : Part(l, x) + At(v, x) + Part(q, x) = Part(c, x) + Gain(loc, d, x)
  BY DEF Parted
<1>5. /\ l \in Kids(h) /\ q \in Kids(h) /\ v \in Value
      /\ Len(l.values) >= WidthFactor - 1 /\ Len(q.values) >= WidthFactor - 1
      /\ Below(l, v.loc) /\ Above(q, v.loc)
  BY <1>3, <1>4 DEF Parting
<1>6. Fits(h, vs, i, l) /\ Fits(h, vs, i, q) /\ Apart(vs, i, v.loc)
  <2>1. /\ LocsOf(l) \subseteq LocsOf(c) \cup {loc} /\ LocsOf(q) \subseteq LocsOf(c) \cup {loc}
        /\ v.loc \in LocsOf(c) \cup {loc}
    BY <1>4
  <2>2. /\ \A m : /\ m \in Kids(h) /\ Len(m.values) >= WidthFactor - 1
                  /\ LocsOf(m) \subseteq LocsOf(c) \cup {loc}
                  => Fits(h, vs, i, m)
        /\ \A y \in LocsOf(c) \cup {loc} : Apart(vs, i, y)
    BY PlaceKept
  <2> HIDE DEF vs, c, l, v, q
  <2> QED
    BY <1>5, <2>1, <2>2
<1>7. ASSUME NEW x \in Places
      PROVE  /\ Part(l, x) \in Int /\ Part(c, x) \in Int /\ Part(q, x) \in Int
             /\ At(v, x) \in Int /\ Gain(loc, d, x) \in Int
  <2> DEFINE g == h - 1
  <2>1. g \in Nat /\ l \in Sound(g) /\ c \in Sound(g) /\ q \in Sound(g)
    BY <1>3, <1>5
  <2> HIDE DEF g, l, c, q, v
  <2>2. Part(l, x) \in Int /\ Part(c, x) \in Int /\ Part(q, x) \in Int
    BY <2>1, PartIsInt
  <2>3. At(v, x) \in Int
    BY <1>5, AtsTyped
  <2>4. Gain(loc, d, x) \in Int
    BY GainIs
  <2> QED
    BY <2>2, <2>3, <2>4
<1> HIDE DEF vs, cs, l, v, q
<1>8. Replaced(h, vs, cs, i, l, t)
  <2>1. h # 0 /\ Shape(h, vs, cs) /\ i \in 1..Len(vs) + 1
    BY <1>1, <1>3
  <2> QED
    BY <2>1, <1>6, ChildReplaced
<1>9. cs[i] = c
  BY DEF cs
<1> HIDE DEF c, t
<1>10. /\ Shape(h, vs, t) /\ t[i] = l
       /\ Locs(vs, cs) = Rest(vs, cs, i) \cup LocsOf(c)
       /\ Locs(vs, t) = Rest(vs, cs, i) \cup LocsOf(l)
       /\ \A x \in Places : Total(h, vs, t, x) = Total(h, vs, cs, x) + (Part(l, x) - Part(c, x))
  BY <1>8, <1>9 DEF Replaced
<1>11. Percolates(h, vs, t, i, v, q)
  <2>1. i <= Len(vs) => Below(q, vs[i].loc)
    BY <1>6 DEF Fits
  <2> QED
    BY <1>1, <1>5, <1>6, <1>10, <2>1 DEF Percolates
<1>12. Locs(vs, t) \cup {v.loc} \cup LocsOf(q) = LocsOf(n) \cup {loc}
  BY <1>2, <1>4, <1>10
<1>13. vs \in Seq(Value) /\ cs \in Seq(Kids(h)) /\ \A x \in Places : Total(h, vs, cs, x) \in Int
  BY <1>1, TotalTyped DEF Shape
<1>14. ASSUME NEW x \in Places
       PROVE  Total(h, vs, t, x) + At(v, x) + Part(q, x) = Part(n, x) + Gain(loc, d, x)
  <2>1. Part(l, x) + At(v, x) + Part(q, x) = Part(c, x) + Gain(loc, d, x)
    BY <1>4
  <2>2. Total(h, vs, t, x) = Total(h, vs, cs, x) + (Part(l, x) - Part(c, x))
    BY <1>10
  <2>3. Part(n, x) = Total(h, vs, cs, x) /\ Total(h, vs, cs, x) \in Int
    BY <1>2, <1>13
  <2> QED
    BY <1>7, <2>1, <2>2, <2>3
<1>15. Taken(h, n, vs, t, i, v, q, loc, d)
  BY <1>11, <1>12, <1>14 DEF Taken
<1> QED
  BY <1>15 DEF vs, cs, l, v, q, t

(* There is room for what comes up.                                          *)
LEMMA PercolatedGrows ==
  ASSUME NEW h \in Nat, NEW n \in Sound(h), NEW loc \in Nat, NEW d \in Int,
         ~IsFull(n), NEW i, NEW v, NEW q, NEW t, Taken(h, n, n.values, t, i, v, q, loc, d)
  PROVE  Grown(WithPercolated(Node(h, n.values, t, n.full + d), v, q), h, n, loc, d)
<1> DEFINE vs == n.values
           full == n.full + d
           k == Node(h, vs, t, full)
           m == Node(h, InsertAt(vs, i, v), InsertAt(t, i + 1, q), full)
<1>1. /\ n.full \in Int /\ Len(vs) \in 0..2 * WidthFactor - 1
  BY SoundTyped
<1>2. Len(vs) < 2 * WidthFactor - 1
  BY <1>1, DeltaTreeAssumption DEF IsFull
<1>3. /\ Percolates(h, vs, t, i, v, q)
      /\ Locs(vs, t) \cup {v.loc} \cup LocsOf(q) = LocsOf(n) \cup {loc}
      /\ \A x \in Places : Total(h, vs, t, x) + At(v, x) + Part(q, x) = Part(n, x) + Gain(loc, d, x)
  BY DEF Taken
<1>4. k.height = h /\ k.values = vs /\ k.children = t /\ k.full = full
  <2> HIDE DEF vs, full
  <2> QED
    BY DEF Node
<1>5. WithPercolated(k, v, q) = m
  <2>1. k.height = h /\ Percolates(h, k.values, k.children, i, v, q)
    BY <1>3, <1>4
  <2> HIDE DEF k
  <2>2. WithPercolated(k, v, q) =
          Node(h, InsertAt(k.values, i, v), InsertAt(k.children, i + 1, q), k.full)
    BY <2>1, WithPercolatedIs
  <2> QED
    BY <1>4, <2>2
<1>6. full = Total(h, vs, t, All) + v.delta + q.full
  <2>1. /\ At(v, All) = v.delta /\ Part(q, All) = q.full /\ All \in Places
        /\ Part(n, All) = n.full /\ Gain(loc, d, All) = d
    BY GainIs DEF At, Part, Places
  <2>2. Total(h, vs, t, All) + At(v, All) + Part(q, All) = Part(n, All) + Gain(loc, d, All)
    BY <1>3, <2>1
  <2> QED
    BY <2>1, <2>2
<1> HIDE DEF vs, full
<1>7. /\ m \in Sound(h) /\ Len(m.values) = Len(vs) + 1
      /\ LocsOf(m) = Locs(vs, t) \cup {v.loc} \cup LocsOf(q)
      /\ \A x \in Places : Part(m, x) = Total(h, vs, t, x) + At(v, x) + Part(q, x)
  BY <1>2, <1>3, <1>6, PercolatedSound
<1> HIDE DEF m, k
<1>8. LocsOf(m) = LocsOf(n) \cup {loc}
  BY <1>3, <1>7
<1>9. ASSUME NEW x \in Places PROVE Part(m, x) = Part(n, x) + Gain(loc, d, x)
  BY <1>3, <1>7
<1>10. Len(m.values) >= Len(n.values)
  BY <1>1, <1>7 DEF vs
<1>11. Grown(m, h, n, loc, d)
  BY <1>7, <1>8, <1>9, <1>10 DEF Grown
<1> QED
  BY <1>5, <1>11 DEF k, vs, full

-----------------------------------------------------------------------------
(* A full node is split before it takes what comes up.                       *)

(* The part p of a node, from b, has the place i.                            *)
HalfAt(h, vs, t, b, i, p) ==
  /\ p \in Sound(h) /\ Len(p.values) = WidthFactor - 1 /\ Len(p.children) = WidthFactor
  /\ b \in Nat /\ b + WidthFactor - 1 <= Len(vs) /\ i - b \in 1..WidthFactor
  /\ \A j \in 1..WidthFactor - 1 : p.values[j] = vs[b + j]
  /\ \A j \in 1..WidthFactor : p.children[j] = t[b + j]

(* What comes up has its place in one half.                                 *)
LEMMA HalfPercolates ==
  ASSUME NEW h \in Nat, NEW vs, NEW t, NEW i, NEW v, NEW q, Percolates(h, vs, t, i, v, q),
         NEW b, NEW p, HalfAt(h, vs, t, b, i, p)
  PROVE  Percolates(h, p.values, p.children, i - b, v, q)
<1> DEFINE a == p.values
           c == p.children
           j == i - b
           K == WidthFactor
<1>1. /\ h # 0 /\ v \in Value /\ q \in Kids(h) /\ Len(q.values) >= K - 1
      /\ Below(t[i], v.loc) /\ Above(q, v.loc) /\ (i <= Len(vs) => Below(q, vs[i].loc))
      /\ i \in 1..Len(vs) + 1 /\ vs \in Seq(Value)
      /\ i <= Len(vs) => vs[i].loc >= v.loc
      /\ i <= Len(vs) => vs[i].loc # v.loc
      /\ \A m \in 1..i - 1 : vs[m].loc < v.loc
  BY DEF Percolates, Apart, IsPlace, Shape
<1>2. /\ Len(a) = K - 1 /\ Len(c) = K /\ b \in Nat /\ b + K - 1 <= Len(vs) /\ j \in 1..K
      /\ \A m \in 1..K - 1 : a[m] = vs[b + m]
      /\ \A m \in 1..K : c[m] = t[b + m]
  BY DEF HalfAt
<1>3. Shape(h, a, c)
  BY SoundTyped DEF HalfAt
<1>4. i \in Int /\ b + j = i /\ K \in Nat /\ K > 1 /\ Len(vs) \in Nat
  BY <1>1, <1>2, ValuesTyped, DeltaTreeAssumption
<1> HIDE DEF a, c, j, K
<1>5. c[j] = t[i]
  BY <1>2, <1>4
<1>6. j <= Len(a) => i <= Len(vs) /\ a[j] = vs[i]
  <2>1. SUFFICES ASSUME j <= Len(a) PROVE i <= Len(vs) /\ a[j] = vs[i]
    OBVIOUS
  <2>2. j \in 1..K - 1
    BY <1>2, <1>4, <2>1
  <2>3. a[j] = vs[b + j]
    BY <1>2, <2>2
  <2>4. i <= Len(vs)
    BY <1>2, <1>4, <2>2
  <2> QED
    BY <1>4, <2>3, <2>4
<1>7. ASSUME NEW m \in 1..j - 1 PROVE a[m].loc < v.loc
  <2>1. m \in 1..K - 1 /\ b + m \in 1..i - 1
    BY <1>2, <1>4
  <2>2. a[m] = vs[b + m]
    BY <1>2, <2>1
  <2> QED
    BY <1>1, <2>1, <2>2
<1>8. j \in 1..Len(a) + 1
  BY <1>2, <1>4
<1>9. IsPlace(a, j, v.loc)
  BY <1>1, <1>6, <1>7, <1>8 DEF IsPlace
<1>10. Apart(a, j, v.loc)
  BY <1>1, <1>6, <1>9 DEF Apart
<1>11. Below(c[j], v.loc) /\ (j <= Len(a) => Below(q, a[j].loc))
  BY <1>1, <1>5, <1>6
<1>12. Percolates(h, a, c, j, v, q)
  BY <1>1, <1>3, <1>10, <1>11 DEF Percolates, K
<1> QED
  BY <1>12 DEF a, c, j

SideOf(p, v, q) == [WithPercolated(p, v, q) EXCEPT !.full = @ + v.delta + q.full]

Aside(h, m, p, v, q) ==
  /\ m \in Sound(h) /\ Len(m.values) = WidthFactor
  /\ LocsOf(m) = LocsOf(p) \cup {v.loc} \cup LocsOf(q)
  /\ \A x \in Places : Part(m, x) = Part(p, x) + At(v, x) + Part(q, x)

(* The half that takes it grows.                                            *)
LEMMA SideGrows ==
  ASSUME NEW h \in Nat, NEW p \in Sound(h), Len(p.values) = WidthFactor - 1,
         NEW i, NEW v, NEW q, Percolates(h, p.values, p.children, i, v, q)
  PROVE  Aside(h, SideOf(p, v, q), p, v, q)
<1> DEFINE vs == p.values
           cs == p.children
           a == InsertAt(vs, i, v)
           c == InsertAt(cs, i + 1, q)
           e == p.full
           full == e + v.delta + q.full
           m == Node(h, a, c, full)
<1>1. /\ p.height = h /\ e \in Int /\ e = Total(h, vs, cs, All)
  BY SoundTyped
<1>2. LocsOf(p) = Locs(vs, cs) /\ \A x \in Places : Part(p, x) = Total(h, vs, cs, x)
  BY SoundParts
<1>3. SideOf(p, v, q) = m
  <2>1. WithPercolated(p, v, q) = Node(h, a, c, e)
    BY <1>1, WithPercolatedIs
  <2>2. SideOf(p, v, q) = [Node(h, a, c, e) EXCEPT !.full = @ + v.delta + q.full]
    BY <2>1, Zenon DEF SideOf
  <2> DEFINE k == Node(h, a, c, e)
  <2> HIDE DEF a, c, e
  <2>3. k.full = e /\ [k EXCEPT !.full = full] = m
    <3> HIDE DEF full
    <3> QED
      BY DEF Node
  <2>4. SideOf(p, v, q) = [k EXCEPT !.full = k.full + v.delta + q.full]
    BY <2>2
  <2> QED
    BY <2>3, <2>4
<1>4. Len(vs) < 2 * WidthFactor - 1
  BY DeltaTreeAssumption
<1>5. full = Total(h, vs, cs, All) + v.delta + q.full
  BY <1>1
<1> HIDE DEF vs, cs, full
<1>6. /\ m \in Sound(h) /\ Len(m.values) = Len(vs) + 1
      /\ LocsOf(m) = Locs(vs, cs) \cup {v.loc} \cup LocsOf(q)
      /\ \A x \in Places : Part(m, x) = Total(h, vs, cs, x) + At(v, x) + Part(q, x)
  <2>1. Percolates(h, vs, cs, i, v, q)
    BY DEF vs, cs
  <2> QED
    BY <1>4, <1>5, <2>1, PercolatedSound
<1> HIDE DEF m
<1>7. ASSUME NEW x \in Places PROVE Part(m, x) = Part(p, x) + At(v, x) + Part(q, x)
  BY <1>2, <1>6
<1>8. Len(m.values) = WidthFactor
  BY <1>6, DeltaTreeAssumption DEF vs
<1>9. m \in Sound(h) /\ LocsOf(m) = LocsOf(p) \cup {v.loc} \cup LocsOf(q)
  BY <1>2, <1>6
<1> QED
  BY <1>3, <1>7, <1>8, <1>9 DEF Aside

(* Where the new value is, seen from the one that parts the halves.          *)
LEMMA MiddleIs ==
  ASSUME NEW h \in Nat, NEW vs, NEW t, NEW i, NEW v, NEW q, Percolates(h, vs, t, i, v, q),
         Len(vs) = 2 * WidthFactor - 1
  PROVE  LET w == vs[WidthFactor]
         IN /\ v.loc \in Nat /\ w.loc \in Nat /\ i \in 1..2 * WidthFactor
            /\ i <= WidthFactor => v.loc < w.loc /\ Below(q, w.loc)
            /\ i > WidthFactor => v.loc > w.loc /\ Above(q, w.loc)
<1> DEFINE K == WidthFactor
           w == vs[K]
<1>1. /\ v \in Value /\ q \in Kids(h) /\ h # 0 /\ Ordered(vs) /\ vs \in Seq(Value)
      /\ Above(q, v.loc) /\ (i <= Len(vs) => Below(q, vs[i].loc))
      /\ i \in 1..Len(vs) + 1
      /\ i <= Len(vs) => vs[i].loc >= v.loc
      /\ i <= Len(vs) => vs[i].loc # v.loc
      /\ \A m \in 1..i - 1 : vs[m].loc < v.loc
  BY DEF Percolates, Apart, IsPlace, Shape
<1>2. K \in Nat /\ K > 1 /\ Len(vs) = 2 * K - 1
  BY DeltaTreeAssumption
<1>3. v.loc \in Nat /\ \A m \in 1..Len(vs) : vs[m].loc \in Nat
  BY <1>1, ValuesTyped DEF Value
<1>4. LocsOf(q) \subseteq Nat
  <2>1. q \in Sound(h - 1) /\ h - 1 \in Nat
    BY <1>1, KidsAre
  <2> QED
    BY <2>1, SoundParts
<1> HIDE DEF K
<1>5. w.loc \in Nat /\ i \in 1..2 * K /\ K \in 1..Len(vs)
  BY <1>1, <1>2, <1>3
<1>6. i <= K => v.loc < w.loc /\ Below(q, w.loc)
  <2>1. SUFFICES ASSUME i <= K PROVE v.loc < w.loc /\ Below(q, w.loc)
    OBVIOUS
  <2>2. i \in 1..Len(vs) /\ i <= Len(vs)
    BY <1>2, <1>5, <2>1
  <2>3. vs[i].loc \in Nat /\ v.loc < vs[i].loc /\ Below(q, vs[i].loc)
    BY <1>1, <1>3, <2>2
  <2>4. vs[i].loc <= w.loc
    <3>1. CASE i = K
      BY <2>3, <3>1
    <3>2. CASE i < K
      BY <1>1, <1>5, <2>2, <2>3, <3>2 DEF Ordered
    <3> QED
      BY <1>5, <2>1, <3>1, <3>2
  <2>5. v.loc < w.loc
    BY <1>3, <1>5, <2>3, <2>4
  <2>6. ASSUME NEW y \in LocsOf(q) PROVE y < w.loc
    BY <1>4, <1>5, <2>3, <2>4 DEF Below
  <2> QED
    BY <2>5, <2>6 DEF Below
<1>7. i > K => v.loc > w.loc /\ Above(q, w.loc)
  <2>1. SUFFICES ASSUME i > K PROVE v.loc > w.loc /\ Above(q, w.loc)
    OBVIOUS
  <2>2. K \in 1..i - 1
    BY <1>2, <1>5, <2>1
  <2>3. w.loc < v.loc
    BY <1>1, <2>2
  <2>4. ASSUME NEW y \in LocsOf(q) PROVE y > w.loc
    BY <1>1, <1>3, <1>4, <1>5, <2>3 DEF Above
  <2> QED
    BY <1>3, <1>5, <2>3, <2>4 DEF Above
<1> QED
  BY <1>3, <1>5, <1>6, <1>7 DEF K

-----------------------------------------------------------------------------
(* A full interior node is split and takes what comes up.                   *)
LEMMA SplitInteriorDone ==
  ASSUME NEW h \in Nat, NEW n \in Sound(h), NEW loc \in Nat, NEW d \in Int, IsFull(n),
         NEW i, NEW v, NEW q, NEW t, Taken(h, n, n.values, t, i, v, q, loc, d), NEW full
  PROVE  Done(SplitInterior(Node(h, n.values, t, full), v, q), h, n, loc, d)
<1> DEFINE K == WidthFactor
           vs == n.values
           k == Node(h, vs, t, full)
           s == DoSplit(k)
           l == s.lhs
           r == s.rhs
           w == s.split
<1>1. /\ Percolates(h, vs, t, i, v, q)
      /\ Locs(vs, t) \cup {v.loc} \cup LocsOf(q) = LocsOf(n) \cup {loc}
      /\ \A x \in Places : Total(h, vs, t, x) + At(v, x) + Part(q, x) = Part(n, x) + Gain(loc, d, x)
  BY DEF Taken
<1>2. h # 0 /\ Shape(h, vs, t) /\ v \in Value /\ q \in Kids(h) /\ vs \in Seq(Value)
  BY <1>1 DEF Percolates, Shape
<1>3. Len(vs) = 2 * K - 1 /\ K \in Nat /\ K > 1
  BY DeltaTreeAssumption DEF IsFull
<1>4. k.height = h /\ k.values = vs /\ k.children = t
  <2> HIDE DEF vs
  <2> QED
    BY DEF Node
<1> HIDE DEF k
<1>5. /\ w = vs[K] /\ Parting(h, l, w, r)
      /\ Locs(vs, t) = LocsOf(l) \cup {w.loc} \cup LocsOf(r)
      /\ \A x \in Places : Total(h, vs, t, x) = Part(l, x) + At(w, x) + Part(r, x)
      /\ Len(l.values) = K - 1 /\ Len(r.values) = K - 1
      /\ \A j \in 1..K - 1 : l.values[j] = vs[j] /\ r.values[j] = vs[K + j]
      /\ Len(l.children) = K /\ Len(r.children) = K
      /\ \A j \in 1..K : l.children[j] = t[j] /\ r.children[j] = t[K + j]
  <2>1. k.height = h /\ Shape(h, k.values, k.children) /\ Len(k.values) = 2 * WidthFactor - 1
    BY <1>2, <1>3, <1>4
  <2>2. SplitUp(h, k.values, k.children, s, l, w, r)
    BY <2>1, SplitIs
  <2>3. SplitUp(h, vs, t, s, l, w, r)
    BY <1>4, <2>2
  <2> HIDE DEF s, l, r, w, vs
  <2> QED
    BY <1>2, <2>3 DEF SplitUp
<1>6. SplitInterior(k, v, q) = IF v.loc < w.loc THEN Halves(SideOf(l, v, q), r, w)
                                                ELSE Halves(l, SideOf(r, v, q), w)
  BY DEF SplitInterior, SideOf
<1> HIDE DEF s, l, r, w
<1>7. /\ l \in Sound(h) /\ r \in Sound(h) /\ w \in Value
      /\ Len(l.values) >= K - 1 /\ Len(r.values) >= K - 1
      /\ Below(l, w.loc) /\ Above(r, w.loc)
  BY <1>5 DEF Parting
<1>8. /\ v.loc \in Nat /\ w.loc \in Nat /\ i \in 1..2 * K
      /\ i <= K => v.loc < w.loc /\ Below(q, w.loc)
      /\ i > K => v.loc > w.loc /\ Above(q, w.loc)
  BY <1>1, <1>3, <1>5, MiddleIs
<1>9. ASSUME NEW x \in Places
      PROVE  /\ Part(l, x) \in Int /\ Part(r, x) \in Int /\ Part(q, x) \in Int
             /\ At(v, x) \in Int /\ At(w, x) \in Int
  <2>1. Part(l, x) \in Int /\ Part(r, x) \in Int
    BY <1>7, PartIsInt
  <2>2. Part(q, x) \in Int
    BY <1>2, TotalTyped
  <2>3. At(v, x) \in Int /\ At(w, x) \in Int
    BY <1>2, <1>7, AtsTyped
  <2> QED
    BY <2>1, <2>2, <2>3
<1>10. CASE i <= K
  <2> DEFINE m == SideOf(l, v, q)
             b == 0
  <2>1. b \in Nat /\ b + K - 1 <= Len(vs) /\ i - b \in 1..K
    BY <1>3, <1>8, <1>10
  <2>2. HalfAt(h, vs, t, b, i, l)
    <3>1. \A j \in 1..K : b + j = j
      BY <1>3
    <3>2. \A j \in 1..K - 1 : b + j = j
      BY <1>3
    <3> HIDE DEF b, vs
    <3>3. /\ \A j \in 1..K - 1 : l.values[j] = vs[b + j]
          /\ \A j \in 1..K : l.children[j] = t[b + j]
      BY <1>5, <3>1, <3>2
    <3> QED
      BY <1>5, <1>7, <2>1, <3>3, Zenon DEF HalfAt
  <2>3. Percolates(h, l.values, l.children, i - b, v, q)
    <3> HIDE DEF b, vs
    <3> QED
      BY <1>1, <2>2, HalfPercolates
  <2> HIDE DEF b
  <2>4. /\ m \in Sound(h) /\ Len(m.values) = K
        /\ LocsOf(m) = LocsOf(l) \cup {v.loc} \cup LocsOf(q)
        /\ \A x \in Places : Part(m, x) = Part(l, x) + At(v, x) + Part(q, x)
    <3> DEFINE j == i - b
    <3>1. l \in Sound(h) /\ Len(l.values) = WidthFactor - 1 /\ Percolates(h, l.values, l.children, j, v, q)
      BY <1>5, <1>7, <2>3
    <3> HIDE DEF j, vs
    <3>2. Aside(h, m, l, v, q)
      BY <3>1, SideGrows
    <3> QED
      BY <3>2 DEF Aside
  <2>5. SplitInterior(k, v, q) = Halves(m, r, w)
    BY <1>6, <1>8, <1>10
  <2> HIDE DEF m
  <2>6. Below(m, w.loc)
    BY <1>7, <1>8, <1>10, <2>4 DEF Below
  <2>7. Parting(h, m, w, r)
    BY <1>3, <1>7, <2>4, <2>6 DEF Parting
  <2>8. LocsOf(m) \cup {w.loc} \cup LocsOf(r) = LocsOf(n) \cup {loc}
    BY <1>1, <1>5, <2>4
  <2>9. ASSUME NEW x \in Places
        PROVE  Part(m, x) + At(w, x) + Part(r, x) = Part(n, x) + Gain(loc, d, x)
    <3>1. Part(m, x) = Part(l, x) + At(v, x) + Part(q, x)
      BY <2>4
    <3>2. Total(h, vs, t, x) = Part(l, x) + At(w, x) + Part(r, x)
      BY <1>5
    <3>3. Total(h, vs, t, x) + At(v, x) + Part(q, x) = Part(n, x) + Gain(loc, d, x)
      BY <1>1
    <3> QED
      BY <1>9, <3>1, <3>2, <3>3
  <2>10. Parted(Halves(m, r, w), h, n, loc, d)
    BY <2>7, <2>8, <2>9, LeftsAre DEF Parted
  <2> QED
    BY <2>5, <2>10, LeftsAre DEF Done, k
<1>11. CASE i > K
  <2> DEFINE m == SideOf(r, v, q)
  <2>1. K + K - 1 <= Len(vs) /\ i - K \in 1..K
    BY <1>3, <1>8, <1>11
  <2>2. HalfAt(h, vs, t, K, i, r)
    BY <1>3, <1>5, <1>7, <2>1 DEF HalfAt
  <2>3. Percolates(h, r.values, r.children, i - K, v, q)
    <3> HIDE DEF vs
    <3> QED
      BY <1>1, <2>2, HalfPercolates
  <2>4. /\ m \in Sound(h) /\ Len(m.values) = K
        /\ LocsOf(m) = LocsOf(r) \cup {v.loc} \cup LocsOf(q)
        /\ \A x \in Places : Part(m, x) = Part(r, x) + At(v, x) + Part(q, x)
    <3> DEFINE j == i - K
    <3>1. r \in Sound(h) /\ Len(r.values) = WidthFactor - 1 /\ Percolates(h, r.values, r.children, j, v, q)
      BY <1>5, <1>7, <2>3
    <3> HIDE DEF j, vs
    <3>2. Aside(h, m, r, v, q)
      BY <3>1, SideGrows
    <3> QED
      BY <3>2 DEF Aside
  <2>5. SplitInterior(k, v, q) = Halves(l, m, w)
    <3>1. ~(v.loc < w.loc)
      BY <1>8, <1>11
    <3> QED
      BY <1>6, <3>1
  <2> HIDE DEF m
  <2>6. Above(m, w.loc)
    BY <1>7, <1>8, <1>11, <2>4 DEF Above
  <2>7. Parting(h, l, w, m)
    BY <1>3, <1>7, <2>4, <2>6 DEF Parting
  <2>8. LocsOf(l) \cup {w.loc} \cup LocsOf(m) = LocsOf(n) \cup {loc}
    BY <1>1, <1>5, <2>4
  <2>9. ASSUME NEW x \in Places
        PROVE  Part(l, x) + At(w, x) + Part(m, x) = Part(n, x) + Gain(loc, d, x)
    <3>1. Part(m, x) = Part(r, x) + At(v, x) + Part(q, x)
      BY <2>4
    <3>2. Total(h, vs, t, x) = Part(l, x) + At(w, x) + Part(r, x)
      BY <1>5
    <3>3. Total(h, vs, t, x) + At(v, x) + Part(q, x) = Part(n, x) + Gain(loc, d, x)
      BY <1>1
    <3> QED
      BY <1>9, <3>1, <3>2, <3>3
  <2>10. Parted(Halves(l, m, w), h, n, loc, d)
    BY <2>7, <2>8, <2>9, LeftsAre DEF Parted
  <2> QED
    BY <2>5, <2>10, LeftsAre DEF Done, k
<1>12. i <= K \/ i > K
  BY <1>3, <1>8
<1> QED
  BY <1>10, <1>11, <1>12

(* Whatever the child has left.                                              *)
LEMMA ReturnedDone ==
  ASSUME NEW h \in Nat, NEW n, NEW i, NEW loc \in Nat, NEW d \in Int, Into(h, n, i, loc),
         NEW r, Done(r, h - 1, n.children[i], loc, d)
  PROVE  Done(Returned(n, i, d, r), h, n, loc, d)
<1>1. n \in Sound(h) /\ n.height = h
  BY SoundTyped DEF Into
<1>2. CASE ~r.isSplit
  <2>1. Grown(r.lhs, h - 1, n.children[i], loc, d)
    BY <1>2 DEF Done
  <2> QED
    BY <1>2, <2>1, WholeReturned
<1>3. CASE r.isSplit
  <2> DEFINE t == [n.children EXCEPT ![i] = r.lhs]
             v == r.split
             q == r.rhs
             k == Node(h, n.values, t, n.full + d)
  <2>1. Parted(r, h - 1, n.children[i], loc, d)
    BY <1>3 DEF Done
  <2>2. Taken(h, n, n.values, t, i, v, q, loc, d)
    BY <2>1, SplitTaken
  <2>3. Returned(n, i, d, r) = IF ~IsFull(n) THEN Whole(WithPercolated(k, v, q))
                               ELSE SplitInterior(k, v, q)
    BY <1>1, <1>3 DEF Returned
  <2> DEFINE full == n.full + d
  <2> HIDE DEF t, v, q
  <2>4. CASE ~IsFull(n)
    <3>1. Grown(WithPercolated(k, v, q), h, n, loc, d)
      BY <1>1, <2>2, <2>4, PercolatedGrows
    <3> HIDE DEF k
    <3> QED
      BY <2>3, <2>4, <3>1, LeftsAre DEF Done
  <2>5. CASE IsFull(n)
    <3>1. k = Node(h, n.values, t, full)
      OBVIOUS
    <3> HIDE DEF k, full
    <3>2. Done(SplitInterior(Node(h, n.values, t, full), v, q), h, n, loc, d)
      BY <1>1, <2>2, <2>5, SplitInteriorDone
    <3> QED
      BY <2>3, <2>5, <3>1, <3>2
  <2> QED
    BY <2>4, <2>5
<1> QED
  BY <1>2, <1>3

(* Insertions keep trees sound, and add what they are given.                 *)
LEMMA InsertionDone ==
  \A h \in Nat : \A n \in Sound(h), loc \in Nat, d \in Int :
    Done(DoInsertion(n, loc, d), h, n, loc, d)
<1> DEFINE P(h) == \A n \in Sound(h), loc \in Nat, d \in Int :
                     Done(DoInsertion(n, loc, d), h, n, loc, d)
           T == {h \in Nat : P(h)}
<1>1. ASSUME NEW h \in Nat, h # 0 => P(h - 1) PROVE P(h)
  <2>1. SUFFICES ASSUME NEW n \in Sound(h), NEW loc \in Nat, NEW d \in Int
                 PROVE  Done(DoInsertion(n, loc, d), h, n, loc, d)
    OBVIOUS
  <2> DEFINE i == PlaceOf(n, loc)
             c == n.children[i]
  <2>2. /\ n \in Nodes[h] /\ n.values \in Seq(Value) /\ n.height = h /\ Ordered(n.values)
    BY SoundTyped
  <2>3. /\ Holds(n, i, loc) => i \in 1..Len(n.values) /\ n.values[i].loc = loc
        /\ ~Holds(n, i, loc) => Apart(n.values, i, loc)
    BY <2>2, PlaceApart
  <2>4. /\ Holds(n, i, loc) => DoInsertion(n, loc, d) = Whole(AddedHere(n, i, d))
        /\ ~Holds(n, i, loc) /\ h = 0 => DoInsertion(n, loc, d) = LeafInsertion(n, loc, d)
        /\ ~Holds(n, i, loc) /\ h # 0 /\ c \in Nodes[h - 1] =>
             DoInsertion(n, loc, d) = Returned(n, i, d, DoInsertion(c, loc, d))
    BY <2>2, DoInsertionIs
  <2> HIDE DEF i
  <2>5. CASE Holds(n, i, loc)
    <3>1. Grown(AddedHere(n, i, d), h, n, loc, d)
      BY <2>1, <2>3, <2>5, AddedHereGrows
    <3> QED
      BY <2>4, <2>5, <3>1, LeftsAre DEF Done
  <2>6. CASE ~Holds(n, i, loc) /\ h = 0
    <3>1. n \in Sound(0) /\ Apart(n.values, i, loc)
      BY <2>1, <2>3, <2>6
    <3> DEFINE g == Delta(loc, 0)
    <3>2. g \in Value /\ g.loc = loc
      BY <2>1, GainIs
    <3> HIDE DEF g
    <3>3. loc \notin LocSet(n.values)
      <4>1. Apart(n.values, i, g.loc)
        BY <3>1, <3>2
      <4>2. g.loc \notin LocSet(n.values)
        BY <2>2, <3>2, <4>1, Absent
      <4> QED
        BY <3>2, <4>2
    <3>4. loc \notin LocsOf(n)
      BY <3>1, <3>3, LeafLocs
    <3>5. Done(LeafInsertion(n, loc, d), 0, n, loc, d)
      BY <2>1, <3>1, <3>4, LeafInsertionDone
    <3> QED
      BY <2>4, <2>6, <3>5
  <2>7. CASE ~Holds(n, i, loc) /\ h # 0
    <3>1. Into(h, n, i, loc)
      BY <2>1, <2>3, <2>7 DEF Into
    <3>2. c \in Sound(h - 1) /\ h - 1 \in Nat
      BY <2>1, <3>1, IntoIs
    <3>3. Done(DoInsertion(c, loc, d), h - 1, c, loc, d)
      BY <1>1, <2>1, <2>7, <3>2
    <3>4. Done(Returned(n, i, d, DoInsertion(c, loc, d)), h, n, loc, d)
      BY <2>1, <3>1, <3>3, ReturnedDone
    <3>5. c \in Nodes[h - 1]
      BY <3>2 DEF Sound
    <3> QED
      BY <2>4, <2>7, <3>4, <3>5
  <2> QED
    BY <2>5, <2>6, <2>7
<1>2. P(0)
  BY <1>1
<1>3. ASSUME NEW h \in Nat, P(h) PROVE P(h + 1)
  <2>1. h + 1 \in Nat /\ (h + 1) - 1 = h
    OBVIOUS
  <2> HIDE DEF P
  <2>2. P((h + 1) - 1)
    BY <1>3, <2>1
  <2> QED
    BY <1>1, <2>1, <2>2
<1> HIDE DEF P
<1>4. Nat \subseteq T
  <2>1. 0 \in T /\ \A h \in Nat : h \in T => h + 1 \in T
    BY <1>2, <1>3
  <2> HIDE DEF T
  <2> QED
    BY <2>1, AllNumbers
<1>5. \A h \in Nat : P(h)
  BY <1>4
<1> QED
  BY <1>5 DEF P

-----------------------------------------------------------------------------
(* Trees                                                                     *)

(* A sum over one, and over two.                                             *)
LEMMA FewWeights ==
  ASSUME NEW S, NEW w \in [S -> Int], NEW a \in S, NEW b \in S
  PROVE  Weight(w, <<a>>) = w[a] /\ Weight(w, <<a, b>>) = w[a] + w[b]
<1> DEFINE s == <<a>>
           t == <<a, b>>
           f == Weights(w, s)
           g == Weights(w, t)
<1>1. /\ s \in Seq(S) /\ Len(s) = 1 /\ s[1] = a
      /\ t \in Seq(S) /\ Len(t) = 2 /\ t[1] = a /\ t[2] = b
  OBVIOUS
<1>2. w[a] \in Int /\ w[b] \in Int
  OBVIOUS
<1> HIDE DEF s, t
<1>3. f[1] = w[a] /\ g[1] = w[a] /\ g[2] = w[b]
  <2>1. Len(s) = 1 /\ s \in Seq(S) /\ Len(t) = 2 /\ t \in Seq(S) /\ 1 \in 1..1 /\ 1 \in 1..2 /\ 2 \in 1..2
    BY <1>1
  <2>2. \A i \in 1..Len(s) : f[i] = w[s[i]]
    BY <1>1, WeightOf, Zenon
  <2>3. \A i \in 1..Len(t) : g[i] = w[t[i]]
    BY <1>1, WeightOf, Zenon
  <2> HIDE DEF f, g
  <2> QED
    BY <1>1, <2>1, <2>2, <2>3
<1>4. Weight(w, s) = SumTo(f, 0 + 1) /\ Weight(w, t) = SumTo(g, 1 + 1) /\ 1 = 0 + 1
  BY <1>1 DEF Weight
<1> HIDE DEF f, g
<1>5. Ints(f, 1) /\ Ints(g, 1) /\ Ints(g, 2)
  BY <1>2, <1>3 DEF Ints
<1> DEFINE z == 0
           o == 1
<1>6. /\ z \in Nat /\ o \in Nat /\ Ints(f, z + 1) /\ Ints(g, z + 1) /\ Ints(g, o + 1)
      /\ z + 1 = o /\ z = 0 /\ o = 1 /\ f[z + 1] = w[a] /\ g[z + 1] = w[a] /\ g[o + 1] = w[b]
  BY <1>3, <1>5
<1>7. Weight(w, s) = SumTo(f, z + 1) /\ Weight(w, t) = SumTo(g, o + 1) /\ SumTo(f, z) = 0 /\ SumTo(g, z) = 0
  BY <1>4, SumNext
<1> HIDE DEF z, o
<1>8. /\ SumTo(f, z + 1) = SumTo(f, z) + f[z + 1]
      /\ SumTo(g, z + 1) = SumTo(g, z) + g[z + 1]
      /\ SumTo(g, o + 1) = SumTo(g, o) + g[o + 1]
  BY <1>6, SumNext
<1>9. Weight(w, s) = w[a] /\ Weight(w, t) = w[a] + w[b]
  BY <1>2, <1>6, <1>7, <1>8
<1> QED
  BY <1>9 DEF s, t

(* The root above two halves.                                                *)
Rooted(m, h, l, v, r) ==
  /\ m \in Sound(h + 1)
  /\ LocsOf(m) = LocsOf(l) \cup {v.loc} \cup LocsOf(r)
  /\ \A x \in Places : Part(m, x) = Part(l, x) + At(v, x) + Part(r, x)

(* A new root over two halves is sound.                                     *)
LEMMA RootOver ==
  ASSUME NEW h \in Nat, NEW l, NEW v, NEW r, Parting(h, l, v, r)
  PROVE  Rooted(Node(h + 1, <<v>>, <<l, r>>, l.full + r.full + v.delta), h, l, v, r)
<1> DEFINE g == h + 1
           vs == <<v>>
           cs == <<l, r>>
           full == l.full + r.full + v.delta
           m == Node(g, vs, cs, full)
<1>1. /\ l \in Sound(h) /\ r \in Sound(h) /\ v \in Value
      /\ Len(l.values) >= WidthFactor - 1 /\ Len(r.values) >= WidthFactor - 1
      /\ Below(l, v.loc) /\ Above(r, v.loc)
  BY DEF Parting
<1>2. g \in Nat /\ g # 0 /\ g - 1 = h /\ Kids(g) = Sound(h)
  BY KidsAre
<1>3. /\ vs \in Seq(Value) /\ Len(vs) = 1 /\ vs[1] = v
      /\ cs \in Seq(Kids(g)) /\ Len(cs) = 2 /\ cs[1] = l /\ cs[2] = r
  BY <1>1, <1>2
<1>4. l.full \in Int /\ r.full \in Int /\ v.delta \in Int
  BY <1>1, SoundTyped DEF Value
<1>5. ASSUME NEW x \in Places
      PROVE  /\ Total(g, vs, cs, x) = At(v, x) + (Part(l, x) + Part(r, x))
             /\ At(v, x) \in Int /\ Part(l, x) \in Int /\ Part(r, x) \in Int
  <2>1. /\ Ats(x) \in [Value -> Int] /\ Parts(g, x) \in [Kids(g) -> Int]
        /\ Ats(x)[v] = At(v, x) /\ At(v, x) \in Int
        /\ Parts(g, x)[l] = Part(l, x) /\ Part(l, x) \in Int
        /\ Parts(g, x)[r] = Part(r, x) /\ Part(r, x) \in Int
    BY <1>1, <1>2, TotalTyped
  <2>2. Weight(Ats(x), vs) = Ats(x)[v]
    BY <1>1, <2>1, FewWeights
  <2>3. Weight(Parts(g, x), cs) = Parts(g, x)[l] + Parts(g, x)[r]
    <3> DEFINE S == Kids(g)
               p == Parts(g, x)
    <3>1. p \in [S -> Int] /\ l \in S /\ r \in S
      BY <1>1, <1>2, <2>1
    <3> HIDE DEF S, p, g
    <3>2. Weight(p, <<l, r>>) = p[l] + p[r]
      BY <3>1, FewWeights
    <3> QED
      BY <3>2 DEF p
  <2> QED
    BY <2>1, <2>2, <2>3 DEF Total
<1> HIDE DEF g, vs, cs, full
<1>6. Ordered(vs)
  BY <1>3 DEF Ordered
<1>7. Between(vs, cs)
  <2>1. 1..Len(cs) = {1, 2} /\ 1..Len(vs) = {1}
    BY <1>3
  <2>2. \A j \in {1, 2} : Len(cs[j].values) >= WidthFactor - 1
    BY <1>1, <1>3
  <2>3. \A j \in {1} : Below(cs[j], vs[j].loc) /\ Above(cs[j + 1], vs[j].loc)
    BY <1>1, <1>3
  <2> QED
    BY <1>3, <2>1, <2>2, <2>3 DEF Between
<1>8. Shape(g, vs, cs)
  BY <1>3, <1>6, <1>7 DEF Shape
<1>9. full = Total(g, vs, cs, All)
  <2>1. All \in Places /\ At(v, All) = v.delta /\ Part(l, All) = l.full /\ Part(r, All) = r.full
    BY DEF Places, At, Part
  <2> QED
    BY <1>4, <1>5, <2>1 DEF full
<1>10. Len(vs) <= 2 * WidthFactor - 1
  BY <1>3, DeltaTreeAssumption
<1>11. /\ m \in Sound(g) /\ LocsOf(m) = Locs(vs, cs)
       /\ \A x \in Places : Part(m, x) = Total(g, vs, cs, x)
  BY <1>2, <1>8, <1>9, <1>10, NodeSound
<1>12. Locs(vs, cs) = LocsOf(l) \cup {v.loc} \cup LocsOf(r)
  <2>1. \A x : x \in Locs(vs, cs) <=> \/ \E j \in 1..Len(vs) : x = vs[j].loc
                                      \/ \E j \in 1..Len(cs) : x \in LocsOf(cs[j])
    BY <1>3, LocsMembers
  <2>2. 1..Len(cs) = {1, 2} /\ 1..Len(vs) = {1}
    BY <1>3
  <2>3. \A x : /\ (\E j \in 1..Len(vs) : x = vs[j].loc) <=> x = v.loc
               /\ (\E j \in 1..Len(cs) : x \in LocsOf(cs[j])) <=> x \in LocsOf(l) \/ x \in LocsOf(r)
    BY <1>3, <2>2
  <2>4. \A x : x \in Locs(vs, cs) <=> x = v.loc \/ x \in LocsOf(l) \/ x \in LocsOf(r)
    BY <2>1, <2>3, Zenon
  <2> QED
    BY <2>4
<1> HIDE DEF m
<1>13. ASSUME NEW x \in Places PROVE Part(m, x) = Part(l, x) + At(v, x) + Part(r, x)
  BY <1>5, <1>11
<1>14. Rooted(m, h, l, v, r)
  BY <1>11, <1>12, <1>13 DEF Rooted, g
<1> QED
  BY <1>14 DEF m, g, vs, cs, full

(* The code's own check of a tree.                                           *)
LEMMA VerifyTreeIs ==
  ASSUME NEW n, n.height \in Nat
  PROVE  VerifyTree(n) <=> n \in Sound(n.height)
BY DEF VerifyTree, Sound, Verified

(* The tree of a buffer without edits.                                      *)
LEMMA EmptyTree ==
  /\ Empty \in Sound(0) /\ Empty.height = 0 /\ LocsOf(Empty) = {}
  /\ \A x \in Nat : GetDeltaAt(Empty, x) = 0
<1> DEFINE e == <<>>
           z == 0
           full == 0
<1>1. z \in Nat /\ e \in Seq(Value) /\ Len(e) = 0 /\ e \in Seq(Kids(z)) /\ z = 0 /\ 1..Len(e) = {}
  BY KidsAre
<1>2. Ordered(e)
  BY <1>1 DEF Ordered
<1>3. Shape(z, e, e)
  BY <1>1, <1>2 DEF Shape
<1>4. Empty = Node(z, e, e, full)
  BY DEF Empty
<1> HIDE DEF e, z
<1>5. ASSUME NEW x \in Places PROVE Total(z, e, e, x) = 0
  <2>1. Ats(x) \in [Value -> Int] /\ Parts(z, x) \in [Kids(z) -> Int]
    BY <1>1, TotalTyped
  <2>2. Weight(Ats(x), e) = 0
    BY <1>1, <2>1, WeightZero
  <2>3. Weight(Parts(z, x), e) = 0
    BY <1>1, <2>1, WeightZero
  <2> QED
    BY <2>2, <2>3 DEF Total
<1>6. full = Total(z, e, e, All)
  BY <1>5 DEF Places
<1>7. Len(e) <= 2 * WidthFactor - 1
  BY <1>1, DeltaTreeAssumption
<1> HIDE DEF full
<1> DEFINE m == Node(z, e, e, full)
<1>8. /\ m \in Sound(z) /\ LocsOf(m) = Locs(e, e) /\ m.height = z
      /\ \A x \in Places : Part(m, x) = Total(z, e, e, x)
  BY <1>1, <1>3, <1>6, <1>7, NodeSound
<1>9. Locs(e, e) = {}
  BY <1>1, LocsMembers
<1> HIDE DEF m
<1>10. ASSUME NEW x \in Nat PROVE GetDeltaAt(m, x) = 0
  <2>1. x \in Places /\ Part(m, x) = GetDeltaAt(m, x)
    BY DEF Places, Part, All
  <2> QED
    BY <1>5, <1>8, <2>1
<1> QED
  BY <1>1, <1>4, <1>8, <1>9, <1>10 DEF m

(* What adding a delta to a tree does.                                       *)
Added(m, n, loc, d) ==
  /\ \E g \in Nat : m \in Sound(g)
  /\ LocsOf(m) = LocsOf(n) \cup {loc}
  /\ \A x \in Places : Part(m, x) = Part(n, x) + Gain(loc, d, x)

(* AddDelta adds a delta to a sound tree of any height.                     *)
LEMMA AddDeltaAdds ==
  ASSUME NEW h \in Nat, NEW n \in Sound(h), NEW loc \in Nat, NEW d \in Int
  PROVE  Added(AddDelta(n, loc, d), n, loc, d)
<1> DEFINE r == DoInsertion(n, loc, d)
<1>1. Done(r, h, n, loc, d) /\ n.height = h
  BY InsertionDone, SoundTyped
<1>2. AddDelta(n, loc, d) = IF ~r.isSplit THEN r.lhs
                            ELSE Node(h + 1, <<r.split>>, <<r.lhs, r.rhs>>,
                                      r.lhs.full + r.rhs.full + r.split.delta)
  BY <1>1 DEF AddDelta
<1> HIDE DEF r
<1>3. CASE ~r.isSplit
  <2>1. Grown(r.lhs, h, n, loc, d) /\ AddDelta(n, loc, d) = r.lhs
    BY <1>1, <1>2, <1>3 DEF Done
  <2> DEFINE m == r.lhs
  <2> HIDE DEF m
  <2>2. Added(m, n, loc, d)
    BY <2>1 DEF Added, Grown, m
  <2> QED
    BY <2>1, <2>2 DEF m
<1>4. CASE r.isSplit
  <2> DEFINE l == r.lhs
             v == r.split
             q == r.rhs
             m == Node(h + 1, <<v>>, <<l, q>>, l.full + q.full + v.delta)
  <2>1. AddDelta(n, loc, d) = m
    BY <1>2, <1>4
  <2>2. /\ Parting(h, l, v, q)
        /\ LocsOf(l) \cup {v.loc} \cup LocsOf(q) = LocsOf(n) \cup {loc}
        /\ \A x \in Places : Part(l, x) + At(v, x) + Part(q, x) = Part(n, x) + Gain(loc, d, x)
    BY <1>1, <1>4 DEF Done, Parted
  <2> HIDE DEF l, v, q
  <2>3. Rooted(m, h, l, v, q)
    BY <2>2, RootOver
  <2> HIDE DEF m
  <2>4. h + 1 \in Nat /\ m \in Sound(h + 1)
    BY <2>3 DEF Rooted
  <2>5. LocsOf(m) = LocsOf(n) \cup {loc}
    BY <2>2, <2>3 DEF Rooted
  <2>6. ASSUME NEW x \in Places PROVE Part(m, x) = Part(n, x) + Gain(loc, d, x)
    BY <2>2, <2>3 DEF Rooted
  <2>7. Added(m, n, loc, d)
    BY <2>4, <2>5, <2>6 DEF Added
  <2> QED
    BY <2>1, <2>7
<1> QED
  BY <1>3, <1>4

(* The tree is verified again, has the new location, and counts the delta
   for every place behind it.                                                *)
THEOREM DeltaAdded ==
  ASSUME NEW root, root.height \in Nat, VerifyTree(root), NEW loc \in Nat, NEW d \in Int
  PROVE  LET t == AddDelta(root, loc, d)
         IN /\ t.height \in Nat /\ VerifyTree(t) /\ LocsOf(t) = LocsOf(root) \cup {loc}
            /\ \A x \in Nat : GetDeltaAt(t, x) = GetDeltaAt(root, x) + (IF loc < x THEN d ELSE 0)
<1> DEFINE h == root.height
           t == AddDelta(root, loc, d)
<1>1. root \in Sound(h) /\ h \in Nat
  BY VerifyTreeIs
<1> HIDE DEF h
<1>2. Added(t, root, loc, d)
  BY <1>1, AddDeltaAdds
<1> HIDE DEF t
<1>3. PICK g \in Nat : t \in Sound(g)
  BY <1>2 DEF Added
<1>4. t.height = g
  BY <1>3, SoundTyped
<1>5. VerifyTree(t)
  BY <1>3, <1>4, VerifyTreeIs
<1>6. ASSUME NEW x \in Nat
      PROVE  GetDeltaAt(t, x) = GetDeltaAt(root, x) + (IF loc < x THEN d ELSE 0)
  <2>1. x \in Places /\ Part(t, x) = GetDeltaAt(t, x) /\ Part(root, x) = GetDeltaAt(root, x)
    BY DEF Places, Part, All
  <2>2. Part(t, x) = Part(root, x) + Gain(loc, d, x)
    BY <1>2, <2>1 DEF Added
  <2>3. Gain(loc, d, x) = IF loc < x THEN d ELSE 0
    BY GainIs
  <2> QED
    BY <2>1, <2>2, <2>3
<1> QED
  BY <1>2, <1>4, <1>5, <1>6 DEF Added, t
==============================================================================
