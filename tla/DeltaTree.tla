----------------------------- MODULE DeltaTree -----------------------------
(* The B-tree of deltas a rewritten buffer keeps, as operators on trees:
   what is added where, and the sum of what was added before a place, without
   a walk over the tree.  A node is split on the way back from an insertion.

   A node has its height, which says whether it is a leaf; what recurs in the
   code is a function of the height and of the nodes that have it.          *)
EXTENDS Integers, Sequences, SequencesExt

CONSTANT WidthFactor   \* half the children of a full node

ASSUME DeltaTreeAssumption == WidthFactor \in Nat /\ WidthFactor > 1

Delta(loc, d) == [loc |-> loc, delta |-> d]
Value == [loc : Nat, delta : Int]

Node(h, vs, cs, full) == [height |-> h, values |-> vs, children |-> cs, full |-> full]
Nodes[h \in Nat] == [height : {h}, values : Seq(Value), full : Int,
                     children : IF h = 0 THEN {<<>>} ELSE Seq(Nodes[h - 1])]

Empty == Node(0, <<>>, <<>>, 0)
IsLeaf(n) == n.height = 0
IsFull(n) == Len(n.values) = 2 * WidthFactor - 1

SumOf(s) == LET sum[i \in 0..Len(s)] == IF i = 0 THEN 0 ELSE sum[i - 1] + s[i]
            IN sum[Len(s)]
SumOfValues(vs) == SumOf([i \in DOMAIN vs |-> vs[i].delta])
SumOfNodes(ns) == SumOf([i \in DOMAIN ns |-> ns[i].full])

RecomputeFullDeltaLocally(n) ==
  [n EXCEPT !.full = SumOfValues(n.values) + SumOfNodes(n.children)]

(* The first place in n whose location is not before loc.                   *)
PlaceOf(n, loc) ==
  CHOOSE i \in 1..Len(n.values) + 1 :
    /\ i <= Len(n.values) => n.values[i].loc >= loc
    /\ \A j \in 1..i - 1 : n.values[j].loc < loc

Holds(n, i, loc) == i <= Len(n.values) /\ n.values[i].loc = loc

(* What an insertion leaves: the node, or two halves and what parts them.   *)
Whole(n) == [isSplit |-> FALSE, lhs |-> n]
Halves(l, r, v) == [isSplit |-> TRUE, lhs |-> l, rhs |-> r, split |-> v]

(* A mutant: the sums of the halves are left as they were.                  *)
MutDoSplit(n) ==
  LET Half(vs, cs) == Node(n.height, vs, cs, n.full)
      Children(i, j) == IF IsLeaf(n) THEN <<>> ELSE SubSeq(n.children, i, j)
  IN Halves(Half(SubSeq(n.values, 1, WidthFactor - 1), Children(1, WidthFactor)),
            Half(SubSeq(n.values, WidthFactor + 1, 2 * WidthFactor - 1),
                 Children(WidthFactor + 1, 2 * WidthFactor)),
            n.values[WidthFactor])

DoSplit(n) ==
  LET Half(vs, cs) == RecomputeFullDeltaLocally(Node(n.height, vs, cs, 0))
      Children(i, j) == IF IsLeaf(n) THEN <<>> ELSE SubSeq(n.children, i, j)
  IN Halves(Half(SubSeq(n.values, 1, WidthFactor - 1), Children(1, WidthFactor)),
            Half(SubSeq(n.values, WidthFactor + 1, 2 * WidthFactor - 1),
                 Children(WidthFactor + 1, 2 * WidthFactor)),
            n.values[WidthFactor])

(* A record for the location is added to.                                   *)
AddedHere(n, i, d) ==
  Node(n.height, [n.values EXCEPT ![i] = Delta(@.loc, @.delta + d)], n.children, n.full + d)

(* A leaf takes a value, which must have a place there.                     *)
IntoLeaf(n, loc, d) ==
  Node(n.height, InsertAt(n.values, PlaceOf(n, loc), Delta(loc, d)), n.children, n.full + d)

(* A full leaf is split first, and one of the halves takes it.              *)
LeafInsertion(n, loc, d) ==
  IF ~IsFull(n) THEN Whole(IntoLeaf(n, loc, d))
  ELSE LET s == DoSplit(n) IN
       IF s.split.loc > loc THEN Halves(IntoLeaf(s.lhs, loc, d), s.rhs, s.split)
                            ELSE Halves(s.lhs, IntoLeaf(s.rhs, loc, d), s.split)

(* A value and the node on its right come up from a child that was split.   *)
WithPercolated(n, v, rhs) ==
  LET i == PlaceOf(n, v.loc)
  IN Node(n.height, InsertAt(n.values, i, v), InsertAt(n.children, i + 1, rhs), n.full)

(* A full interior node is split first; the half that takes the value and
   the node adds them to its sum.                                           *)
SplitInterior(n, v, rhs) ==
  LET s == DoSplit(n)
      Side(half) == [WithPercolated(half, v, rhs) EXCEPT !.full = @ + v.delta + rhs.full]
  IN IF v.loc < s.split.loc THEN Halves(Side(s.lhs), s.rhs, s.split)
                            ELSE Halves(s.lhs, Side(s.rhs), s.split)

(* What the insertion into the i-th child has left comes back.              *)
Returned(n, i, d, r) ==
  LET k == Node(n.height, n.values, [n.children EXCEPT ![i] = r.lhs], n.full + d)
  IN IF ~r.isSplit THEN Whole(k)
     ELSE IF ~IsFull(n) THEN Whole(WithPercolated(k, r.split, r.rhs))
     ELSE SplitInterior(k, r.split, r.rhs)

DoInsertion(node, loc, d) ==
  LET inserted[h \in Nat] == [n \in Nodes[h] |->
        LET i == PlaceOf(n, loc)
        IN IF Holds(n, i, loc) THEN Whole(AddedHere(n, i, d))
           ELSE IF IsLeaf(n) THEN LeafInsertion(n, loc, d)
           ELSE Returned(n, i, d, inserted[h - 1][n.children[i]])]
  IN inserted[node.height][node]

AddDelta(root, loc, d) ==
  LET r == DoInsertion(root, loc, d)
  IN IF ~r.isSplit THEN r.lhs
     ELSE Node(root.height + 1, <<r.split>>, <<r.lhs, r.rhs>>,
               r.lhs.full + r.rhs.full + r.split.delta)

GetDeltaAt(root, loc) ==
  LET deltaAt[h \in Nat] == [n \in Nodes[h] |->
        LET i == PlaceOf(n, loc)
            before == SumOfValues(SubSeq(n.values, 1, i - 1))
            left == SumOfNodes(SubSeq(n.children, 1, i - 1))
        IN IF IsLeaf(n) THEN before
           ELSE before + left + (IF Holds(n, i, loc) THEN n.children[i].full
                                 ELSE deltaAt[h - 1][n.children[i]])]
  IN deltaAt[root.height][root]

-----------------------------------------------------------------------------
(* What a tree should look like: VerifyTree, which here looks at all of a
   child, and the widths its comments state.                                *)
NodesOf(root) ==
  LET nodesOf[h \in Nat] == [n \in Nodes[h] |->
        {n} \cup UNION {nodesOf[h - 1][n.children[i]] : i \in DOMAIN n.children}]
  IN nodesOf[root.height][root]

LocsOf(root) == UNION {{n.values[i].loc : i \in DOMAIN n.values} : n \in NodesOf(root)}

VerifyNode(n) ==
  /\ Len(n.values) <= 2 * WidthFactor - 1
  /\ n.full = SumOfValues(n.values) + SumOfNodes(n.children)
  /\ \A i \in 1..Len(n.values) - 1 : n.values[i].loc < n.values[i + 1].loc
  /\ ~IsLeaf(n) =>
       /\ Len(n.children) = Len(n.values) + 1
       /\ \A i \in DOMAIN n.children : Len(n.children[i].values) >= WidthFactor - 1
       /\ \A i \in DOMAIN n.values :
            /\ \A loc \in LocsOf(n.children[i]) : loc < n.values[i].loc
            /\ \A loc \in LocsOf(n.children[i + 1]) : loc > n.values[i].loc

VerifyTree(root) == root \in Nodes[root.height] /\ \A n \in NodesOf(root) : VerifyNode(n)
=============================================================================
