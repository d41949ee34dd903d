------------------------- MODULE EditedSourceProofs -------------------------
(* Theorems about EditedSource, for a file of any length with any macro
   arguments, and any number of commits of any number of calls.             *)
EXTENDS EditedSource, TLAPS, WellFoundedInduction, SequenceTheorems

-----------------------------------------------------------------------------
(* Numbers and recursion                                                    *)

(* A set of naturals has a least element.                                   *)
LEMMA Smallest ==
  ASSUME NEW S, S \subseteq Nat, S # {}
  PROVE  \E n \in S : \A m \in S : n <= m
<1>1. PICK n \in S : \A m \in S : ~(<<m, n>> \in OpToRel(<, Nat))
  BY NatLessThanWellFounded, WFMin
<1>2. OpToRel(<, Nat) = {ss \in Nat \X Nat : ss[1] < ss[2]}
  BY DEF OpToRel
<1>3. ASSUME NEW m \in S PROVE n <= m
  <2>1. ~(<<m, n>> \in {ss \in Nat \X Nat : ss[1] < ss[2]})
    BY <1>1, <1>2, Zenon
  <2>2. m \in Nat /\ n \in Nat
    OBVIOUS
  <2> QED
    BY <2>1, <2>2
<1> QED
  BY <1>3

(* A set of naturals that is not empty has a Min, and a Max if it is bounded,
   which is the least element of the bounds.                                *)
LEMMA MinProperties ==
  ASSUME NEW S, S \subseteq Nat, S # {}
  PROVE  Min(S) \in S /\ \A m \in S : Min(S) <= m
<1>1. \E n \in S : \A m \in S : n <= m
  BY Smallest
<1> QED
  BY <1>1 DEF Min

(* A bounded set of numbers has a greatest one.                             *)
LEMMA MaxProperties ==
  ASSUME NEW S, NEW N \in Nat, S \subseteq 0..N, S # {}
  PROVE  Max(S) \in S /\ \A m \in S : m <= Max(S)
<1> DEFINE T == {n \in Nat : \A m \in S : m <= n}
<1>1. N \in T /\ T \subseteq Nat
  OBVIOUS
<1>2. PICK n \in T : \A k \in T : n <= k
  <2> HIDE DEF T
  <2> QED
    BY <1>1, Smallest
<1>3. n \in S
  <2>1. SUFFICES ASSUME n \notin S PROVE FALSE
    OBVIOUS
  <2>2. \A m \in S : m \in Nat /\ m < n
    BY <2>1
  <2>3. n - 1 \in Nat
    <3>1. PICK m \in S : TRUE
      OBVIOUS
    <3>2. m \in Nat /\ m < n /\ n \in Nat
      BY <2>2
    <3> HIDE DEF T
    <3> QED
      BY <3>2
  <2>4. \A m \in S : m <= n - 1
    BY <2>2
  <2>5. n - 1 \in T /\ ~(n <= n - 1)
    BY <2>3, <2>4
  <2> HIDE DEF T
  <2> QED
    BY <1>2, <2>5
<1>4. \E x \in S : \A y \in S : x >= y
  BY <1>3
<1>5. Max(S) \in S /\ \A y \in S : Max(S) >= y
  BY <1>4 DEF Max
<1> QED
  BY <1>5

(* What holds of a number, and of each next one, holds up to the last.      *)
LEMMA Reaches ==
  ASSUME NEW a \in Nat, NEW c \in Nat, NEW T, a \in T,
         \A i \in a..c - 1 : i \in T => i + 1 \in T
  PROVE  a..c \subseteq T
<1> DEFINE Rest == {i \in a..c : i \notin T}
<1>1. SUFFICES ASSUME Rest # {} PROVE FALSE
  OBVIOUS
<1>2. PICK n \in Rest : \A m \in Rest : n <= m
  <2>1. Rest \subseteq Nat
    OBVIOUS
  <2> HIDE DEF Rest
  <2> QED
    BY <1>1, <2>1, Smallest
<1>3. n \in a..c /\ n \notin T /\ n # a
  OBVIOUS
<1>4. n - 1 \in a..c - 1 /\ (n - 1) + 1 = n
  BY <1>3
<1>5. n - 1 \in T
  <2>1. n - 1 \in a..c /\ ~(n <= n - 1)
    BY <1>3
  <2>2. n - 1 \notin Rest
    <3> HIDE DEF Rest
    <3> QED
      BY <1>2, <2>1
  <2> QED
    BY <2>1, <2>2
<1> QED
  BY <1>3, <1>4, <1>5

(* A step for each number up to N, and the values that the steps lead to.   *)
Advances(G, N, S) == G \in [1..N -> [S -> S]]
Computed(f, G, N, S, base) ==
  f \in [0..N -> S] /\ f[0] = base /\ \A i \in 1..N : f[i] = G[i][f[i - 1]]

(* The values are there up to each number, or there were a least one up to
   which they are not.                                                      *)
LEMMA Recursion ==
  ASSUME NEW N \in Nat, NEW S, NEW base \in S, NEW G, Advances(G, N, S)
  PROVE  \E f : Computed(f, G, N, S, base)
<1> USE DEF Advances, Computed
<1> DEFINE Follows(f, n) == f[0] = base /\ \A i \in 1..n : f[i] = G[i][f[i - 1]]
           Defined(n) == \E f \in [0..n -> S] : Follows(f, n)
           Undefined == {n \in 0..N : ~Defined(n)}
<1>1. Undefined = {}
  <2>1. SUFFICES ASSUME Undefined # {} PROVE FALSE
    OBVIOUS
  <2>2. PICK n \in Undefined : \A m \in Undefined : n <= m
    <3>1. Undefined \subseteq Nat
      <4> HIDE DEF Defined
      <4> QED
        OBVIOUS
    <3> HIDE DEF Undefined
    <3> QED
      BY <2>1, <3>1, Smallest
  <2>3. n \in 0..N /\ ~Defined(n)
    <3> HIDE DEF Defined
    <3> QED
      BY <2>2
  <2>4. CASE n = 0
    <3> DEFINE f == [i \in 0..0 |-> base]
    <3>1. f \in [0..0 -> S] /\ Follows(f, 0)
      OBVIOUS
    <3> QED
      BY <2>3, <2>4, <3>1
  <2>5. CASE n # 0
    <3>1. n - 1 \in 0..N /\ ~(n <= n - 1)
      BY <2>3, <2>5
    <3>2. Defined(n - 1)
      <4> HIDE DEF Defined
      <4> QED
        BY <2>2, <3>1
    <3>3. PICK f \in [0..n - 1 -> S] : Follows(f, n - 1)
      BY <3>2
    <3> DEFINE v == G[n][f[n - 1]]
               g == [i \in 0..n |-> IF i = n THEN v ELSE f[i]]
    <3>4. v \in S
      BY <2>3, <2>5, <3>1
    <3>5. g \in [0..n -> S]
      BY <2>3, <2>5, <3>4
    <3>6. g[0] = base
      BY <2>3, <2>5, <3>3
    <3>7. ASSUME NEW i \in 1..n PROVE g[i] = G[i][g[i - 1]]
      <4>1. i - 1 \in 0..n /\ i - 1 # n /\ g[i - 1] = f[i - 1]
        BY <2>3
      <4>2. CASE i = n
        BY <2>3, <4>1, <4>2
      <4>3. CASE i # n
        <5>1. i \in 1..n - 1 /\ g[i] = f[i]
          BY <2>3, <4>3
        <5>2. f[i] = G[i][f[i - 1]]
          BY <3>3, <5>1
        <5> HIDE DEF g
        <5> QED
          BY <4>1, <5>1, <5>2
      <4> QED
        BY <4>2, <4>3
    <3>8. Follows(g, n)
      <4> HIDE DEF g
      <4> QED
        BY <3>6, <3>7
    <3> HIDE DEF g, Follows
    <3> QED
      BY <2>3, <3>5, <3>8
  <2> QED
    BY <2>4, <2>5
<1>2. Defined(N)
  <2> HIDE DEF Defined
  <2> QED
    BY <1>1
<1> QED
  BY <1>2

(* And whatever such a function is called, its values have the type.        *)
LEMMA RecursionTyped ==
  ASSUME NEW N \in Nat, NEW S, NEW base \in S, NEW f,
         f[0] = base, \A i \in 1..N : f[i - 1] \in S => f[i] \in S
  PROVE  \A i \in 0..N : f[i] \in S
<1> DEFINE Untyped == {i \in 0..N : f[i] \notin S}
<1>1. SUFFICES ASSUME Untyped # {} PROVE FALSE
  OBVIOUS
<1>2. PICK n \in Untyped : \A m \in Untyped : n <= m
  <2>1. Untyped \subseteq Nat
    OBVIOUS
  <2> HIDE DEF Untyped
  <2> QED
    BY <1>1, <2>1, Smallest
<1>3. n \in 1..N /\ f[n] \notin S
  OBVIOUS
<1>4. n - 1 \in 0..N /\ n - 1 \notin Untyped
  <2>1. n - 1 \in 0..N /\ ~(n <= n - 1)
    BY <1>3
  <2> HIDE DEF Untyped
  <2> QED
    BY <1>2, <2>1
<1> QED
  BY <1>3, <1>4

-----------------------------------------------------------------------------
(* The types                                                                *)

(* A character of the file, or what a call inserts.                         *)
Char == {Original[i] : i \in DOMAIN Original} \cup Nat \X Nat \X Nat

FileEdits(fe) ==
  /\ fe = [b \in DOMAIN fe |-> fe[b]] /\ DOMAIN fe \subseteq Offsets
  /\ \A b \in DOMAIN fe : /\ fe[b].removeLen \in Nat /\ EndOf(fe, b) \in Offsets
                          /\ fe[b].text \in Seq(Char)

Disjoint(fe) ==
  \A b \in DOMAIN fe :
    /\ fe[b].text # <<>> \/ fe[b].removeLen > 0
    /\ \A o \in DOMAIN fe : o > b => o >= EndOf(fe, b)

(* The constants are the file's.                                            *)
LEMMA FileOK ==
  /\ Original \in Seq(Char) /\ Size \in Nat /\ Offsets = 0..Size
  /\ DOMAIN ArgAt = Offsets
  /\ MaxCommits \in Nat \ {0} /\ MaxCalls \in [1..MaxCommits -> Nat]
<1> DEFINE C == {Original[i] : i \in DOMAIN Original}
<1>1. Original \in Seq(C)
  BY EditedSourceAssumption
<1>2. Len(Original) \in Nat /\ Original \in Seq(Char)
  <2>1. C \subseteq Char
    BY DEF Char
  <2> HIDE DEF C
  <2> QED
    BY <1>1, <2>1, LenProperties
<1> QED
  BY <1>2, EditedSourceAssumption DEF Size, Offsets

(* A piece of the file is text.                                             *)
LEMMA PieceTyped ==
  ASSUME NEW i \in Offsets, NEW j \in Offsets
  PROVE  SubSeq(Original, i + 1, j) \in Seq(Char)
<1>1. i + 1 \in Int /\ j \in Int /\ i + 1 >= 1 /\ j <= Len(Original) /\ Len(Original) \in Nat
  BY FileOK DEF Size
<1>2. \A k \in i + 1 .. j : Original[k] \in Char
  BY <1>1, FileOK, ElementOfSeq
<1> QED
  BY <1>1, <1>2, SubSeqProperties

(* Text put together is text.                                               *)
LEMMA JoinTyped ==
  ASSUME NEW s \in Seq(Char), NEW t \in Seq(Char)
  PROVE  /\ s \o t \in Seq(Char)
         /\ s # <<>> => s \o t # <<>> /\ t \o s # <<>>
<1>1. s \o t \in Seq(Char) /\ Len(s \o t) = Len(s) + Len(t) /\ Len(t \o s) = Len(t) + Len(s)
  BY ConcatProperties
<1>2. Len(s) \in Nat /\ Len(t) \in Nat /\ (s # <<>> => Len(s) > 0)
  BY LenProperties, EmptySeq
<1>3. Len(<<>>) = 0
  BY EmptySeq
<1> QED
  BY <1>1, <1>2, <1>3

-----------------------------------------------------------------------------
(* The text of a range                                                      *)

(* The names in EditedRange: the edits that are looked at, where the text is
   copied from first, the edits that are passed, and one such pass.         *)
Reaching(fe, b) == {k \in From(fe, b) : b = k \/ b < EndOf(fe, k)}
Skips(fe, b) == Reaching(fe, b) # {} /\ Min(Reaching(fe, b)) < b
StartsAt(fe, b) == IF Skips(fe, b) THEN EndOf(fe, Min(Reaching(fe, b))) ELSE b
Passed(fe, b, n) ==
  {k \in Reaching(fe, b) : k < b + n /\ (Skips(fe, b) => k > Min(Reaching(fe, b)))}
Source(i, j) == SubSeq(Original, i + 1, j)
Pass(fe, a, k) == [text |-> a.text \o Source(a.at, k) \o fe[k].text, at |-> EndOf(fe, k)]
Acc == [text : Seq(Char), at : Offsets]

(* The function that EditedRange is defined by.                             *)
Passes(fe, b, n, f) ==
  /\ f[0] = [text |-> <<>>, at |-> StartsAt(fe, b)]
  /\ \A i \in 1..Size + 1 :
       f[i] = IF i - 1 \in Passed(fe, b, n) THEN Pass(fe, f[i - 1], i - 1) ELSE f[i - 1]
  /\ \A i \in 0..Size + 1 : f[i] \in Acc

(* Where it starts is in the file, and what is passed are edits.            *)
LEMMA StartTyped ==
  ASSUME NEW fe, FileEdits(fe), NEW b \in Offsets, NEW n \in Nat
  PROVE  /\ StartsAt(fe, b) \in Offsets /\ Passed(fe, b, n) \subseteq DOMAIN fe
         /\ Reaching(fe, b) \subseteq DOMAIN fe
         /\ Reaching(fe, b) # {} => /\ Min(Reaching(fe, b)) \in Reaching(fe, b)
                                    /\ \A k \in Reaching(fe, b) : Min(Reaching(fe, b)) <= k
<1> DEFINE met == Reaching(fe, b)
<1>1. met \subseteq DOMAIN fe /\ DOMAIN fe \subseteq Offsets /\ Offsets \subseteq Nat
  BY FileOK DEF From, FileEdits, Reaching
<1>2. Passed(fe, b, n) \subseteq DOMAIN fe
  BY <1>1 DEF Passed
<1>3. met # {} => Min(met) \in met /\ \A k \in met : Min(met) <= k
  <2> HIDE DEF met
  <2> QED
    BY <1>1, MinProperties
<1>4. StartsAt(fe, b) \in Offsets
  BY <1>1, <1>3 DEF StartsAt, Skips, FileEdits
<1> QED
  BY <1>1, <1>2, <1>3, <1>4

(* The function is there: EditedRange is what it says of the last place.    *)
LEMMA EditedRangePasses ==
  ASSUME NEW fe, FileEdits(fe), NEW b \in Offsets, NEW n \in Nat, b + n \in Offsets
  PROVE  \E f : /\ Passes(fe, b, n, f)
                /\ EditedRange(fe, b, n)
                     = f[Size + 1].text \o Source(f[Size + 1].at, b + n)
<1> DEFINE N == Size + 1
           base == [text |-> <<>>, at |-> StartsAt(fe, b)]
           next(a, i) == IF i - 1 \in Passed(fe, b, n) THEN Pass(fe, a, i - 1) ELSE a
           G == [i \in 1..N |-> [a \in Acc |-> next(a, i)]]
           Computes(f) == f = [o \in 0..N |-> IF o = 0 THEN base ELSE
                                 IF o - 1 \in Passed(fe, b, n) THEN Pass(fe, f[o - 1], o - 1)
                                 ELSE f[o - 1]]
           before == CHOOSE f : Computes(f)
<1>1. EditedRange(fe, b, n) = before[N].text \o Source(before[N].at, b + n)
  BY DEF EditedRange, Passed, StartsAt, Skips, Reaching, Pass, Source
<1>2. Passed(fe, b, n) \subseteq DOMAIN fe /\ DOMAIN fe \subseteq Offsets
  BY StartTyped DEF FileEdits
<1>3. base \in Acc
  BY StartTyped, EmptySeq DEF Acc
<1>4. ASSUME NEW a \in Acc, NEW k \in DOMAIN fe PROVE Pass(fe, a, k) \in Acc
  <2>1. a.text \in Seq(Char) /\ a.at \in Offsets /\ k \in Offsets
    BY <1>2, <1>4 DEF Acc
  <2>2. Source(a.at, k) \in Seq(Char) /\ fe[k].text \in Seq(Char) /\ EndOf(fe, k) \in Offsets
    BY <2>1, PieceTyped DEF FileEdits, Source
  <2>3. a.text \o Source(a.at, k) \o fe[k].text \in Seq(Char)
    BY <2>1, <2>2, JoinTyped
  <2> QED
    BY <2>2, <2>3 DEF Pass, Acc
<1> HIDE DEF base
<1>5. \A i \in 1..N, a \in Acc : next(a, i) \in Acc
  BY <1>2, <1>4
<1>6. N \in Nat
  BY FileOK
<1> HIDE DEF next, N
<1>7. G \in [1..N -> [Acc -> Acc]] /\ \A i \in 1..N, a \in Acc : G[i][a] = next(a, i)
  BY <1>5
<1> HIDE DEF G
<1>8. PICK f \in [0..N -> Acc] : f[0] = base /\ \A i \in 1..N : f[i] = G[i][f[i - 1]]
  <2>1. Advances(G, N, Acc)
    BY <1>7 DEF Advances
  <2> HIDE DEF Computes, before
  <2>2. \E f : Computed(f, G, N, Acc, base)
    BY <1>3, <1>6, <2>1, Recursion
  <2> QED
    BY <2>2 DEF Computed
<1>9. Computes(f)
  <2>1. \A i \in 1..N : f[i] = next(f[i - 1], i)
    BY <1>6, <1>7, <1>8
  <2> QED
    BY <1>6, <1>8, <2>1 DEF next
<1>10. Computes(before)
  <2> HIDE DEF Computes
  <2> QED
    BY <1>9
<1>11. before[0] = base /\ \A i \in 1..N : before[i] = next(before[i - 1], i)
  <2> HIDE DEF before
  <2>1. \A o \in 0..N : before[o] = IF o = 0 THEN base ELSE
                          IF o - 1 \in Passed(fe, b, n) THEN Pass(fe, before[o - 1], o - 1)
                          ELSE before[o - 1]
    BY <1>10
  <2> QED
    BY <1>6, <2>1 DEF next
<1> HIDE DEF before
<1>12. \A i \in 0..N : before[i] \in Acc
  <2>1. \A i \in 1..N : before[i - 1] \in Acc => before[i] \in Acc
    BY <1>5, <1>11
  <2> QED
    BY <1>3, <1>6, <1>11, <2>1, RecursionTyped
<1>13. Passes(fe, b, n, before)
  BY <1>11, <1>12 DEF Passes, next, base, N
<1> QED
  BY <1>1, <1>13 DEF N

(* So the text of a range is text.                                          *)
LEMMA EditedRangeTyped ==
  ASSUME NEW fe, FileEdits(fe), NEW b \in Offsets, NEW n \in Nat, b + n \in Offsets
  PROVE  EditedRange(fe, b, n) \in Seq(Char)
<1>1. PICK f : /\ Passes(fe, b, n, f)
               /\ EditedRange(fe, b, n)
                    = f[Size + 1].text \o Source(f[Size + 1].at, b + n)
  BY EditedRangePasses
<1>2. f[Size + 1].text \in Seq(Char) /\ f[Size + 1].at \in Offsets
  BY <1>1, FileOK DEF Passes, Acc
<1>3. Source(f[Size + 1].at, b + n) \in Seq(Char)
  BY <1>2, PieceTyped DEF Source
<1> QED
  BY <1>1, <1>2, <1>3, JoinTyped

(* A piece of the file that ends before it begins is empty; one that goes to
   the next character has that character more.                              *)
LEMMA PieceGrows ==
  ASSUME NEW i \in Offsets, NEW j \in Offsets
  PROVE  /\ Source(i, j) \in Seq(Char)
         /\ j <= i => Source(i, j) = <<>>
         /\ i <= j /\ j < Size => /\ Source(i, j + 1) = Source(i, j) \o <<Original[j + 1]>>
                                  /\ <<Original[j + 1]>> \in Seq(Char)
<1>1. i \in Nat /\ j \in Nat /\ i + 1 \in Int /\ Size = Len(Original) /\ Size \in Nat
      /\ Original \in Seq(Char) /\ i <= Size /\ j <= Size
  BY FileOK DEF Size
<1>2. Source(i, j) \in Seq(Char)
  BY PieceTyped DEF Source
<1>3. ASSUME j <= i PROVE Source(i, j) = <<>>
  <2>1. j < i + 1
    BY <1>1, <1>3
  <2> QED
    BY <1>1, <2>1, SubSeqEmpty DEF Source
<1>4. ASSUME i <= j, j < Size PROVE /\ Source(i, j + 1) = Source(i, j) \o <<Original[j + 1]>>
                                    /\ <<Original[j + 1]>> \in Seq(Char)
  <2>1. i + 1 \in 1..Len(Original) /\ j + 1 \in i + 1 .. Len(Original) /\ (j + 1) - 1 = j
    BY <1>1, <1>4
  <2>2. SubSeq(Original, i + 1, j + 1)
          = SubSeq(Original, i + 1, (j + 1) - 1) \o <<Original[j + 1]>>
    BY <1>1, <2>1, SubSeqRecursiveSecond
  <2>3. Original[j + 1] \in Char
    BY <1>1, <2>1, ElementOfSeq
  <2> HIDE DEF Char
  <2>4. <<Original[j + 1]>> \in Seq(Char)
    BY <2>3
  <2> QED
    BY <2>1, <2>2, <2>4 DEF Source
<1> QED
  BY <1>2, <1>3, <1>4

(* The edits from the one that is the last to begin at or before b are all
   those that reach behind b.                                               *)
LEMMA FromReaches ==
  ASSUME NEW fe, FileEdits(fe), Disjoint(fe), NEW b \in Offsets
  PROVE  {k \in From(fe, b) : b < EndOf(fe, k)} = {k \in DOMAIN fe : b < EndOf(fe, k)}
<1> DEFINE before == {k \in DOMAIN fe : k <= b}
<1>1. Offsets = 0..Size /\ Size \in Nat /\ DOMAIN fe \subseteq Offsets
  BY FileOK DEF FileEdits
<1>2. ASSUME NEW k \in DOMAIN fe, before # {}, ~(k >= Max(before))
      PROVE  ~(b < EndOf(fe, k))
  <2>1. before \subseteq 0..Size
    BY <1>1
  <2>2. Max(before) \in before
    <3> HIDE DEF before
    <3> QED
      BY <1>1, <1>2, <2>1, MaxProperties
  <2>3. Max(before) \in DOMAIN fe /\ Max(before) <= b
    BY <2>2
  <2>4. Max(before) \in Nat /\ k \in Nat /\ EndOf(fe, k) \in Nat /\ b \in Nat
    BY <1>1, <2>3 DEF FileEdits
  <2>5. Max(before) > k
    BY <1>2, <2>4
  <2>6. Max(before) >= EndOf(fe, k)
    BY <2>3, <2>5 DEF Disjoint
  <2> HIDE DEF before
  <2> QED
    BY <2>3, <2>4, <2>6
<1>3. \A k : k \in From(fe, b) <=> k \in DOMAIN fe /\ (before # {} => k >= Max(before))
  BY DEF From
<1> HIDE DEF before
<1> QED
  BY <1>2, <1>3

(* The piece that is one character.                                         *)
LEMMA CharacterPiece ==
  ASSUME NEW o \in Offsets, o < Size
  PROVE  <<Original[o + 1]>> \in Seq(Char) /\ Source(o, o + 1) = <<Original[o + 1]>>
<1>1. o <= o
  BY FileOK
<1>2. Source(o, o) = <<>> /\ <<Original[o + 1]>> \in Seq(Char)
  BY <1>1, PieceGrows
<1>3. Source(o, o + 1) = Source(o, o) \o <<Original[o + 1]>>
  BY <1>1, PieceGrows
<1> QED
  BY <1>2, <1>3, ConcatEmptySeq

(* What is passed are the edits from b to the end of the range, and the text
   is copied from behind what those before b remove.                        *)
LEMMA PassedBetween ==
  ASSUME NEW fe, FileEdits(fe), Disjoint(fe), NEW b \in Offsets, NEW n \in Nat,
         b + n \in Offsets
  PROVE  /\ Passed(fe, b, n) = {k \in DOMAIN fe : b <= k /\ k < b + n}
         /\ \A x \in Offsets : x >= b =>
              (x < StartsAt(fe, b) <=> \E k \in DOMAIN fe : k < b /\ x < EndOf(fe, k))
<1> DEFINE before == {k \in DOMAIN fe : k <= b}
           met == Reaching(fe, b)
           first == Min(met)
<1>1. Offsets = 0..Size /\ Size \in Nat /\ DOMAIN fe \subseteq Offsets /\ b \in Nat
  BY FileOK DEF FileEdits
<1>2. \A k \in DOMAIN fe : k \in Nat /\ EndOf(fe, k) \in Nat /\ EndOf(fe, k) >= k
  BY <1>1 DEF FileEdits, EndOf
<1>3. b \in DOMAIN fe => b \in From(fe, b)
  <2>1. SUFFICES ASSUME b \in DOMAIN fe, before # {} PROVE b >= Max(before)
    BY DEF From
  <2>2. before \subseteq 0..Size /\ \A k \in before : k <= b
    BY <1>1
  <2> HIDE DEF before
  <2>3. Max(before) \in before
    BY <1>1, <2>1, <2>2, MaxProperties
  <2>4. Max(before) \in 0..Size /\ Max(before) <= b
    BY <2>2, <2>3
  <2> QED
    BY <1>1, <2>4
<1>4. \A k \in DOMAIN fe : k \in met <=> k = b \/ b < EndOf(fe, k)
  <2>1. \A k \in DOMAIN fe : k \in From(fe, b) /\ b < EndOf(fe, k) <=> b < EndOf(fe, k)
    BY FromReaches
  <2> QED
    BY <1>3, <2>1 DEF Reaching
<1>5. met \subseteq DOMAIN fe /\ (met # {} => first \in met /\ \A k \in met : first <= k)
  BY StartTyped
<1> HIDE DEF met, first
<1>6. ASSUME Skips(fe, b)
      PROVE  /\ first \in DOMAIN fe /\ first < b /\ StartsAt(fe, b) = EndOf(fe, first)
             /\ \A k \in met : k # first => k > b
  <2>1. met # {} /\ first < b /\ StartsAt(fe, b) = EndOf(fe, first)
    BY <1>6 DEF Skips, StartsAt, met, first
  <2>2. first \in DOMAIN fe /\ b < EndOf(fe, first)
    BY <1>2, <1>4, <1>5, <2>1
  <2>3. ASSUME NEW k \in met, k # first PROVE k > b
    <3>1. k \in DOMAIN fe /\ k > first
      BY <1>2, <1>5, <2>1, <2>2, <2>3
    <3>2. k >= EndOf(fe, first)
      BY <2>2, <3>1 DEF Disjoint
    <3> QED
      BY <1>1, <1>2, <2>2, <3>1, <3>2
  <2> QED
    BY <2>1, <2>2, <2>3
<1>7. ASSUME ~Skips(fe, b) PROVE StartsAt(fe, b) = b /\ \A k \in met : k >= b
  <2>1. StartsAt(fe, b) = b /\ (met # {} => ~(first < b))
    BY <1>7 DEF Skips, StartsAt, met, first
  <2> QED
    BY <1>1, <1>2, <1>5, <2>1
<1>8. \A k \in DOMAIN fe : k \in Passed(fe, b, n) <=> b <= k /\ k < b + n
  <2>1. TAKE k \in DOMAIN fe
  <2>2. k \in Passed(fe, b, n) <=> k \in met /\ k < b + n /\ (Skips(fe, b) => k > first)
    BY DEF Passed, met, first
  <2>3. b <= k => k \in met
    BY <1>1, <1>2, <1>4
  <2>4. CASE Skips(fe, b)
    <3>1. first \in Nat /\ first < b
      BY <1>2, <1>6, <2>4
    <3>2. k \in met /\ k > first => b <= k
      BY <1>1, <1>2, <1>6, <2>4
    <3>3. b <= k => k > first
      BY <1>1, <1>2, <3>1
    <3> QED
      BY <2>2, <2>3, <2>4, <3>2, <3>3
  <2>5. CASE ~Skips(fe, b)
    BY <1>1, <1>2, <1>7, <2>2, <2>3, <2>5
  <2> QED
    BY <2>4, <2>5
<1>9. ASSUME NEW x \in Offsets, x >= b
      PROVE  x < StartsAt(fe, b) <=> \E k \in DOMAIN fe : k < b /\ x < EndOf(fe, k)
  <2>1. x \in Nat
    BY <1>1
  <2>2. ASSUME NEW k \in DOMAIN fe, k < b, x < EndOf(fe, k)
        PROVE  Skips(fe, b) /\ k = first
    <3>1. k \in met
      BY <1>1, <1>2, <1>4, <1>9, <2>1, <2>2
    <3>2. Skips(fe, b)
      BY <1>1, <1>2, <1>7, <2>2, <3>1
    <3> QED
      BY <1>1, <1>2, <1>6, <2>2, <3>1, <3>2
  <2>3. CASE Skips(fe, b)
    BY <1>6, <2>2, <2>3
  <2>4. CASE ~Skips(fe, b)
    BY <1>1, <1>7, <1>9, <2>1, <2>2, <2>4
  <2> QED
    BY <2>3, <2>4
<1>10. Passed(fe, b, n) \subseteq DOMAIN fe
  BY StartTyped
<1> QED
  BY <1>8, <1>9, <1>10

(* FlattenSeq puts the sequences end to end, one after the other.           *)
LEMMA FlattenSteps ==
  ASSUME NEW T, NEW s \in Seq(Seq(T))
  PROVE  \E f : /\ f[0] = <<>> /\ f[Len(s)] = FlattenSeq(s)
                /\ \A i \in 1..Len(s) : f[i] = f[i - 1] \o s[i]
                /\ \A i \in 0..Len(s) : f[i] \in Seq(T)
<1> DEFINE N == Len(s)
           S == Seq(T)
           G == [i \in 1..N |-> [a \in S |-> a \o s[i]]]
           Flattens(g) == g = [i \in 1..N |-> IF i = 1 THEN s[i] ELSE g[i - 1] \o s[i]]
           flatten == CHOOSE g : Flattens(g)
           f == [i \in 0..N |-> IF i = 0 THEN <<>> ELSE flatten[i]]
<1>1. N \in Nat /\ \A i \in 1..N : s[i] \in S
  BY LenProperties, ElementOfSeq
<1>2. <<>> \in S /\ \A a, c \in S : a \o c \in S /\ <<>> \o a = a
  BY EmptySeq, ConcatProperties, ConcatEmptySeq
<1>3. N # 0 => FlattenSeq(s) = flatten[N]
  BY DEF FlattenSeq
<1>4. N = 0 => FlattenSeq(s) = <<>>
  <2>1. N = 0 => s = <<>>
    BY EmptySeq
  <2> QED
    BY <2>1 DEF FlattenSeq
<1> HIDE DEF N, S
<1>5. \E g : Flattens(g)
  <2>1. Advances(G, N, S)
    <3>1. \A i \in 1..N : [a \in S |-> a \o s[i]] \in [S -> S]
      BY <1>1, <1>2
    <3> QED
      BY <3>1 DEF Advances
  <2>2. \A i \in 1..N, a \in S : G[i][a] = a \o s[i]
    OBVIOUS
  <2> HIDE DEF G, Flattens, flatten, f
  <2>3. PICK c : Computed(c, G, N, S, <<>>)
    BY <1>1, <1>2, <2>1, Recursion
  <2>4. /\ c \in [0..N -> S] /\ c[0] = <<>>
        /\ \A i \in 1..N : c[i] = c[i - 1] \o s[i]
    <3>1. /\ c \in [0..N -> S] /\ c[0] = <<>>
          /\ \A i \in 1..N : c[i] = G[i][c[i - 1]]
      BY <2>3 DEF Computed
    <3>2. \A i \in 1..N : c[i - 1] \in S
      <4>1. \A i \in 1..N : i - 1 \in 0..N
        BY <1>1
      <4> QED
        BY <3>1, <4>1
    <3> QED
      BY <2>2, <3>1, <3>2
  <2> DEFINE g == [i \in 1..N |-> c[i]]
  <2>5. ASSUME NEW i \in 1..N PROVE g[i] = IF i = 1 THEN s[i] ELSE g[i - 1] \o s[i]
    <3>1. CASE i = 1
      <4>1. g[i] = c[i] /\ s[i] \in S
        BY <1>1
      <4> HIDE DEF g
      <4>2. i - 1 = 0 /\ c[i - 1] = <<>>
        BY <2>4, <3>1
      <4>3. c[i] = <<>> \o s[i]
        BY <2>4, <4>2
      <4> QED
        BY <1>2, <3>1, <4>1, <4>3
    <3>2. CASE i # 1
      <4>1. i - 1 \in 1..N /\ g[i] = c[i]
        BY <1>1, <3>2
      <4>2. g[i - 1] = c[i - 1]
        BY <4>1
      <4>3. c[i] = c[i - 1] \o s[i]
        BY <2>4
      <4> HIDE DEF g
      <4> QED
        BY <3>2, <4>1, <4>2, <4>3
    <3> QED
      BY <3>1, <3>2
  <2>6. Flattens(g)
    BY <2>5 DEF Flattens
  <2> QED
    BY <2>6
<1>6. Flattens(flatten)
  <2> HIDE DEF Flattens
  <2> QED
    BY <1>5
<1>7. \A i \in 1..N : flatten[i] = IF i = 1 THEN s[i] ELSE flatten[i - 1] \o s[i]
  <2> HIDE DEF flatten
  <2> QED
    BY <1>6
<1> HIDE DEF flatten
<1>8. /\ f[0] = <<>> /\ f[N] = FlattenSeq(s)
      /\ \A i \in 1..N : f[i] = flatten[i]
  BY <1>1, <1>3, <1>4
<1>9. ASSUME NEW i \in 1..N, f[i - 1] \in S PROVE f[i] = f[i - 1] \o s[i] /\ f[i] \in S
  <2>1. CASE i = 1
    <3>1. f[i - 1] = <<>> /\ f[i] = s[i]
      <4> HIDE DEF f
      <4> QED
        BY <1>7, <1>8, <2>1
    <3> HIDE DEF f
    <3> QED
      BY <1>1, <1>2, <3>1
  <2>2. CASE i # 1
    <3>1. i - 1 \in 1..N
      BY <1>1, <2>2
    <3> HIDE DEF f
    <3>2. f[i] = f[i - 1] \o s[i]
      BY <1>7, <1>8, <2>2, <3>1
    <3> QED
      BY <1>1, <1>2, <1>9, <3>2
  <2> QED
    BY <2>1, <2>2
<1> HIDE DEF f
<1>10. \A i \in 0..N : f[i] \in S
  BY <1>1, <1>2, <1>8, <1>9, RecursionTyped
<1>11. \A i \in 1..N : f[i] = f[i - 1] \o s[i]
  <2>1. \A i \in 1..N : i - 1 \in 0..N
    BY <1>1
  <2> QED
    BY <1>9, <1>10, <2>1
<1> QED
  BY <1>8, <1>10, <1>11 DEF N, S

(* What EditedText says of a map of edits: what is removed, and the text of a
   range, put together character by character.                              *)
RemovedBy(fe) == UNION {b..EndOf(fe, b) - 1 : b \in DOMAIN fe}
Piece(fe, o) ==
  TextAt(fe, o) \o (IF o \in RemovedBy(fe) THEN <<>> ELSE <<Original[o + 1]>>)
PieceText(fe, b, e) == FlattenSeq([i \in 1..e - b |-> Piece(fe, b + i - 1)])

(* EditedRange gives that text.  Up to an offset, what has been put together,
   with the source from where it is to be copied next, is the text to there,
   and that place is behind it just when the offset is removed.             *)
LEMMA RangeText ==
  ASSUME NEW fe, FileEdits(fe), Disjoint(fe), NEW b \in Offsets, NEW n \in Nat,
         b + n \in Offsets
  PROVE  EditedRange(fe, b, n) = PieceText(fe, b, b + n)
<1> DEFINE s == [i \in 1..n |-> Piece(fe, b + i - 1)]
<1>1. PICK f : /\ Passes(fe, b, n, f)
               /\ EditedRange(fe, b, n)
                    = f[Size + 1].text \o Source(f[Size + 1].at, b + n)
  BY EditedRangePasses
<1>2. Offsets = 0..Size /\ Size \in Nat /\ DOMAIN fe \subseteq Offsets /\ b \in Nat
  BY FileOK DEF FileEdits
<1>3. \A k \in DOMAIN fe : /\ k \in Nat /\ EndOf(fe, k) \in Offsets /\ EndOf(fe, k) >= k
                           /\ EndOf(fe, k) \in Nat
  BY <1>2 DEF FileEdits, EndOf
<1>4. \A o \in 0..Size : f[o + 1] = IF o \in Passed(fe, b, n) THEN Pass(fe, f[o], o) ELSE f[o]
  <2>1. TAKE o \in 0..Size
  <2>2. o + 1 \in 1..Size + 1 /\ (o + 1) - 1 = o
    BY <1>2
  <2> QED
    BY <1>1, <2>2 DEF Passes
<1>5. \A o \in 0..Size : o \in Passed(fe, b, n) <=> o \in DOMAIN fe /\ b <= o /\ o < b + n
  BY PassedBetween
<1>6. \A o \in 0..Size + 1 : f[o].text \in Seq(Char) /\ f[o].at \in Offsets
  BY <1>1 DEF Passes, Acc
<1>7. \A o \in Offsets : o < Size => /\ TextAt(fe, o) \in Seq(Char)
                                     /\ <<Original[o + 1]>> \in Seq(Char)
                                     /\ Piece(fe, o) \in Seq(Char)
  <2>1. SUFFICES ASSUME NEW o \in Offsets, o < Size
                 PROVE  /\ TextAt(fe, o) \in Seq(Char)
                        /\ <<Original[o + 1]>> \in Seq(Char)
                        /\ Piece(fe, o) \in Seq(Char)
    OBVIOUS
  <2>2. TextAt(fe, o) \in Seq(Char)
    BY EmptySeq DEF TextAt, FileEdits
  <2>3. <<Original[o + 1]>> \in Seq(Char)
    BY <2>1, CharacterPiece
  <2>4. Piece(fe, o) \in Seq(Char)
    BY <2>2, <2>3, JoinTyped, EmptySeq DEF Piece
  <2> QED
    BY <2>2, <2>3, <2>4
<1>8. s \in Seq(Seq(Char)) /\ Len(s) = n /\ \A i \in 1..n : s[i] = Piece(fe, b + i - 1)
  <2>1. \A i \in 1..n : b + i - 1 \in Offsets /\ b + i - 1 < Size
    BY <1>2
  <2>2. \A i \in 1..n : s[i] \in Seq(Char)
    BY <1>7, <2>1
  <2> QED
    BY <2>2
<1>9. PieceText(fe, b, b + n) = FlattenSeq(s)
  <2>1. (b + n) - b = n
    BY <1>2
  <2> QED
    BY <2>1 DEF PieceText
<1> HIDE DEF s
<1>10. PICK c : /\ c[0] = <<>> /\ c[n] = FlattenSeq(s)
                /\ \A i \in 1..n : c[i] = c[i - 1] \o s[i]
                /\ \A i \in 0..n : c[i] \in Seq(Char)
  BY <1>8, FlattenSteps
<1>11. f[b] = f[0]
  <2> DEFINE Still == {o \in Nat : f[o] = f[0]}
  <2>1. \A o \in 0..b - 1 : o \in Still => o + 1 \in Still
    <3>1. \A o \in 0..b - 1 : o \in 0..Size /\ ~(b <= o) /\ o \in Nat /\ o + 1 \in Nat
      BY <1>2
    <3> QED
      BY <1>4, <1>5, <3>1
  <2>2. 0 \in Still
    OBVIOUS
  <2> HIDE DEF Still
  <2>3. 0..b \subseteq Still
    BY <1>2, <2>1, <2>2, Reaches
  <2>4. b \in Still
    BY <1>2, <2>3
  <2> QED
    BY <2>4 DEF Still
<1> DEFINE Behind(o) == \A x \in Offsets : x >= o =>
             (x < f[o].at <=> \E k \in DOMAIN fe : k < o /\ x < EndOf(fe, k))
           Holds(o) == f[o].text \o Source(f[o].at, o) = c[o - b] /\ Behind(o)
<1>12. Holds(b)
  <2>1. f[b].text = <<>> /\ f[b].at = StartsAt(fe, b) /\ b - b = 0
    BY <1>1, <1>2, <1>11 DEF Passes
  <2>2. Behind(b)
    BY <2>1, PassedBetween
  <2>3. ~(b < StartsAt(fe, b)) => StartsAt(fe, b) = b
    <3>1. StartsAt(fe, b) \in Nat /\ StartsAt(fe, b) >= b
      BY <1>2, StartTyped, <1>3 DEF StartsAt, Skips, Reaching
    <3> QED
      BY <1>2, <3>1
  <2>4. StartsAt(fe, b) \in Offsets /\ StartsAt(fe, b) >= b
    BY <1>2, <2>3, StartTyped
  <2>5. Source(StartsAt(fe, b), b) = <<>>
    BY <2>4, PieceGrows
  <2> QED
    BY <1>10, <2>1, <2>2, <2>5, ConcatEmptySeq, EmptySeq
<1>13. ASSUME NEW o \in b..b + n - 1, Holds(o) PROVE Holds(o + 1)
  <2> DEFINE t == TextAt(fe, o)
             ch == <<Original[o + 1]>>
             p == c[o - b]
             at == f[o].at
  <2>1. /\ o \in 0..Size /\ o \in Offsets /\ o < Size /\ o + 1 \in Offsets /\ o \in Nat
        /\ o - b \in 0..n /\ (o + 1) - b \in 1..n /\ ((o + 1) - b) - 1 = o - b
        /\ b + ((o + 1) - b) - 1 = o /\ b <= o /\ o < b + n
    BY <1>2
  <2>2. c[(o + 1) - b] = p \o Piece(fe, o)
    BY <1>8, <1>10, <2>1
  <2>3. /\ t \in Seq(Char) /\ ch \in Seq(Char) /\ p \in Seq(Char)
        /\ at \in Offsets /\ at \in Nat /\ f[o].text \in Seq(Char)
    <3>1. t \in Seq(Char) /\ ch \in Seq(Char)
      BY <1>7, <2>1
    <3>2. o \in 0..Size + 1
      BY <1>2, <2>1
    <3>3. at \in Offsets /\ at \in Nat /\ f[o].text \in Seq(Char)
      BY <1>2, <1>6, <3>2
    <3>4. p \in Seq(Char)
      BY <1>10, <2>1
    <3> QED
      BY <3>1, <3>3, <3>4
  <2>4. o \in RemovedBy(fe) <=> \E k \in DOMAIN fe : k <= o /\ o < EndOf(fe, k)
    BY <1>3, <2>1 DEF RemovedBy
  <2>5. f[o].text \o Source(at, o) = p
    BY <1>13
  <2>6. f[o + 1] = IF o \in Passed(fe, b, n) THEN Pass(fe, f[o], o) ELSE f[o]
    BY <1>4, <2>1
  <2>7. o \in Passed(fe, b, n) <=> o \in DOMAIN fe
    BY <1>5, <2>1
  <2>8. o \in DOMAIN fe => Pass(fe, f[o], o) = [text |-> (f[o].text \o Source(at, o)) \o t,
                                               at |-> EndOf(fe, o)]
    BY DEF Pass, TextAt
  <2>9. Piece(fe, o) = t \o (IF o \in RemovedBy(fe) THEN <<>> ELSE ch)
    BY DEF Piece
  <2>10. o \notin DOMAIN fe => t = <<>>
    BY DEF TextAt
  <2>11. f[o].at = at
    OBVIOUS
  <2> HIDE DEF t, ch, p, at
  <2>12. CASE o \in DOMAIN fe
    <3>1. /\ f[o + 1].text = (f[o].text \o Source(at, o)) \o t
          /\ f[o + 1].at = EndOf(fe, o)
      <4>1. f[o + 1] = [text |-> (f[o].text \o Source(at, o)) \o t, at |-> EndOf(fe, o)]
        BY <2>12, <2>6, <2>7, <2>8
      <4> QED
        BY <4>1
    <3>2. \A k \in DOMAIN fe : k < o => EndOf(fe, k) <= o
      BY <1>3, <2>1, <2>12 DEF Disjoint
    <3>3. o \in RemovedBy(fe) <=> o < EndOf(fe, o)
      BY <1>3, <2>1, <2>4, <2>12, <3>2
    <3>4. Behind(o + 1)
      <4>1. SUFFICES ASSUME NEW x \in Offsets, x >= o + 1
                     PROVE  x < EndOf(fe, o) <=> \E k \in DOMAIN fe : k < o + 1 /\ x < EndOf(fe, k)
        BY <3>1
      <4>2. x \in Nat
        BY <1>2
      <4>3. \A k \in DOMAIN fe : k < o => ~(x < EndOf(fe, k))
        BY <1>3, <2>1, <3>2, <4>1, <4>2
      <4>4. \A k \in DOMAIN fe : k < o + 1 <=> k < o \/ k = o
        BY <1>3, <2>1
      <4> QED
        BY <2>1, <2>12, <4>3, <4>4
    <3>5. CASE o < EndOf(fe, o)
      <4>1. Source(EndOf(fe, o), o + 1) = <<>>
        <5>1. o + 1 <= EndOf(fe, o) /\ EndOf(fe, o) \in Offsets
          BY <1>3, <2>1, <2>12, <3>5
        <5> QED
          BY <2>1, <5>1, PieceGrows
      <4>2. Piece(fe, o) = t \o <<>>
        BY <2>9, <3>3, <3>5
      <4>3. t \o <<>> = t /\ p \o t \in Seq(Char) /\ (p \o t) \o <<>> = p \o t
        BY <2>3, JoinTyped, ConcatEmptySeq
      <4>4. f[o + 1].text \o Source(f[o + 1].at, o + 1) = c[(o + 1) - b]
        BY <2>2, <2>5, <3>1, <4>1, <4>2, <4>3
      <4> QED
        BY <3>4, <4>4
    <3>6. CASE ~(o < EndOf(fe, o))
      <4>1. EndOf(fe, o) = o
        BY <1>3, <2>1, <2>12, <3>6
      <4>2. Source(o, o + 1) = ch
        BY <2>1, CharacterPiece DEF ch
      <4>3. Piece(fe, o) = t \o ch
        BY <2>9, <3>3, <3>6
      <4>4. (p \o t) \o ch = p \o (t \o ch)
        BY <2>3, ConcatAssociative, SMTT(60)
      <4>5. f[o + 1].text \o Source(f[o + 1].at, o + 1) = c[(o + 1) - b]
        BY <2>2, <2>5, <3>1, <4>1, <4>2, <4>3, <4>4
      <4> QED
        BY <3>4, <4>5
    <3> QED
      BY <3>5, <3>6
  <2>13. CASE o \notin DOMAIN fe
    <3>1. f[o + 1] = f[o] /\ t = <<>>
      BY <2>13, <2>6, <2>7, <2>10
    <3>2. \A k \in DOMAIN fe : k < o + 1 <=> k < o
      BY <1>3, <2>1, <2>13
    <3>3. Behind(o)
      BY <1>13
    <3>4. Behind(o + 1)
      <4>1. SUFFICES ASSUME NEW x \in Offsets, x >= o + 1
                     PROVE  x < at <=> \E k \in DOMAIN fe : k < o + 1 /\ x < EndOf(fe, k)
        BY <2>11, <3>1
      <4>2. x >= o
        BY <1>2, <2>1, <4>1
      <4> QED
        BY <2>11, <3>2, <3>3, <4>2
    <3>5. o \in RemovedBy(fe) <=> o < at
      <4>1. \A k \in DOMAIN fe : k <= o <=> k < o
        BY <1>3, <2>1, <2>13
      <4>2. o >= o
        BY <2>1
      <4> QED
        BY <2>1, <2>4, <2>11, <3>3, <4>1, <4>2
    <3>6. CASE o < at
      <4>1. Source(at, o) = <<>> /\ Source(at, o + 1) = <<>>
        <5>1. at \in Nat /\ o + 1 <= at /\ o <= at
          BY <1>2, <2>1, <2>3, <3>6
        <5> QED
          BY <2>1, <2>3, <5>1, PieceGrows
      <4>2. Piece(fe, o) = <<>> \o <<>> /\ <<>> \o <<>> = <<>> /\ p \o <<>> = p
        BY <2>3, <2>9, <3>1, <3>5, <3>6, ConcatEmptySeq, EmptySeq
      <4>3. f[o + 1].text \o Source(f[o + 1].at, o + 1) = c[(o + 1) - b]
        BY <2>2, <2>5, <2>11, <3>1, <4>1, <4>2
      <4> QED
        BY <3>4, <4>3
    <3>7. CASE ~(o < at)
      <4>1. at <= o
        BY <1>2, <2>1, <2>3, <3>7
      <4>2. Source(at, o + 1) = Source(at, o) \o ch /\ Source(at, o) \in Seq(Char)
        BY <2>1, <2>3, <4>1, PieceGrows DEF ch
      <4>3. Piece(fe, o) = ch
        BY <2>3, <2>9, <3>1, <3>5, <3>7, ConcatEmptySeq
      <4>4. (f[o].text \o Source(at, o)) \o ch = f[o].text \o (Source(at, o) \o ch)
        <5> DEFINE w == f[o].text
                   src == Source(at, o)
        <5>1. w \in Seq(Char) /\ src \in Seq(Char)
          BY <2>3, <4>2
        <5> HIDE DEF w, src
        <5>2. (w \o src) \o ch = w \o (src \o ch)
          BY <2>3, <5>1, ConcatAssociative, SMTT(60)
        <5> QED
          BY <5>2 DEF w, src
      <4>5. f[o + 1].text \o Source(f[o + 1].at, o + 1) = c[(o + 1) - b]
        BY <2>2, <2>5, <2>11, <3>1, <4>2, <4>3, <4>4
      <4> QED
        BY <3>4, <4>5
    <3> QED
      BY <3>6, <3>7
  <2> QED
    BY <2>12, <2>13
<1> HIDE DEF Behind, Holds
<1>14. Holds(b + n)
  <2> DEFINE e == b + n
             Good == {o \in Nat : Holds(o)}
  <2>1. \A o \in b..e - 1 : o \in Good => o + 1 \in Good
    BY <1>2, <1>13
  <2>2. b \in Good /\ e \in Nat /\ e \in b..e
    BY <1>2, <1>12
  <2> HIDE DEF Good, e
  <2>3. b..e \subseteq Good
    BY <1>2, <2>1, <2>2, Reaches
  <2>4. e \in Good
    BY <2>2, <2>3
  <2> QED
    BY <2>4 DEF Good, e
<1>15. f[Size + 1] = f[b + n]
  <2> DEFINE e == b + n
             Still == {o \in Nat : f[o] = f[e]}
  <2>1. /\ e \in Nat /\ e <= Size /\ (Size + 1) - 1 = Size
        /\ Size + 1 \in e..Size + 1 /\ Size + 1 \in Nat
    BY <1>2
  <2>2. \A o \in e..(Size + 1) - 1 : o \in Still => o + 1 \in Still
    <3>1. \A o \in e..(Size + 1) - 1 : o \in 0..Size /\ ~(o < b + n) /\ o \in Nat /\ o + 1 \in Nat
      BY <1>2, <2>1
    <3> QED
      BY <1>4, <1>5, <3>1
  <2>3. e \in Still
    BY <2>1
  <2> HIDE DEF Still, e
  <2>4. e..Size + 1 \subseteq Still
    BY <2>1, <2>2, <2>3, Reaches
  <2>5. Size + 1 \in Still
    BY <2>1, <2>4
  <2> QED
    BY <2>5 DEF Still, e
<1>16. f[b + n].text \o Source(f[b + n].at, b + n) = c[(b + n) - b]
  BY <1>14 DEF Holds
<1>17. EditedRange(fe, b, n) = c[(b + n) - b] /\ (b + n) - b = n
  <2>1. EditedRange(fe, b, n) = f[b + n].text \o Source(f[b + n].at, b + n)
    BY <1>1, <1>15
  <2>2. (b + n) - b = n
    BY <1>2
  <2> QED
    BY <1>16, <2>1, <2>2
<1> QED
  BY <1>9, <1>10, <1>17

-----------------------------------------------------------------------------
(* Insertions                                                               *)

(* The map of no edits.                                                     *)
LEMMA NoEdits ==
  ASSUME NEW fe, fe = <<>>
  PROVE  FileEdits(fe) /\ Disjoint(fe) /\ \A o : CanInsertInOffset(fe, o)
<1>1. fe = [b \in {} |-> fe[b]] /\ DOMAIN fe = {}
  OBVIOUS
<1> QED
  BY <1>1 DEF FileEdits, Disjoint, CanInsertInOffset, ActionForOffset

(* An insertion at a place that is not removed leaves the edits apart, and
   every place where something can be inserted.                             *)
LEMMA InsertKeeps ==
  ASSUME NEW fe, FileEdits(fe), Disjoint(fe), NEW o \in Offsets, CanInsertInOffset(fe, o),
         NEW str \in Seq(Char), str # <<>>, NEW beforePrev
  PROVE  LET F == CommitInsert(fe, o, str, beforePrev)
         IN /\ FileEdits(F) /\ Disjoint(F)
            /\ \A p \in Offsets : CanInsertInOffset(fe, p) => CanInsertInOffset(F, p)
<1> DEFINE old == TextAt(fe, o)
           len == IF o \in DOMAIN fe THEN fe[o].removeLen ELSE 0
           text == IF beforePrev THEN str \o old ELSE old \o str
           F == [k \in DOMAIN fe \cup {o} |-> IF k = o THEN FileEdit(text, len) ELSE fe[k]]
<1>1. CommitInsert(fe, o, str, beforePrev) = F
  BY DEF CommitInsert, SetEdit
<1>2. Offsets \subseteq Nat /\ DOMAIN fe \subseteq Offsets
  BY FileOK DEF FileEdits
<1>3. len \in Nat /\ o + len \in Offsets /\ (o \in DOMAIN fe => len = fe[o].removeLen)
  BY <1>2 DEF FileEdits, EndOf
<1>4. text \in Seq(Char) /\ text # <<>>
  <2>1. old \in Seq(Char)
    BY EmptySeq DEF TextAt, FileEdits
  <2> HIDE DEF old
  <2> QED
    BY <2>1, JoinTyped
<1> HIDE DEF text, len
<1>5. /\ DOMAIN F = DOMAIN fe \cup {o}
      /\ F[o].text = text /\ F[o].removeLen = len
      /\ \A k \in DOMAIN fe : k # o => F[k] = fe[k]
  BY DEF FileEdit
<1>6. F = [k \in DOMAIN F |-> F[k]]
  OBVIOUS
<1> HIDE DEF F
<1>7. /\ EndOf(F, o) = o + len
      /\ \A k \in DOMAIN fe : F[k].removeLen = fe[k].removeLen /\ EndOf(F, k) = EndOf(fe, k)
  BY <1>3, <1>5 DEF EndOf
<1>8. FileEdits(F)
  <2>1. ASSUME NEW b \in DOMAIN F
        PROVE  /\ F[b].removeLen \in Nat /\ EndOf(F, b) \in Offsets
               /\ F[b].text \in Seq(Char)
    BY <1>3, <1>4, <1>5, <1>7 DEF FileEdits
  <2> QED
    BY <1>2, <1>5, <1>6, <2>1 DEF FileEdits
<1>9. \A k \in DOMAIN fe : ~(k < o /\ o < EndOf(fe, k))
  BY <1>2 DEF CanInsertInOffset, ActionForOffset
<1>10. ASSUME NEW b \in DOMAIN F, NEW k \in DOMAIN F, k > b PROVE k >= EndOf(F, b)
  <2>1. k \in Nat /\ b \in Nat /\ EndOf(F, b) \in Nat
    BY <1>2, <1>8 DEF FileEdits
  <2>2. CASE b \in DOMAIN fe /\ k \in DOMAIN fe
    BY <1>7, <1>10, <2>2 DEF Disjoint
  <2>3. CASE b \notin DOMAIN fe
    BY <1>3, <1>5, <1>7, <1>10, <2>1, <2>3 DEF EndOf, TextAt, len
  <2>4. CASE b \in DOMAIN fe /\ k \notin DOMAIN fe
    BY <1>5, <1>7, <1>9, <1>10, <2>1, <2>4
  <2> QED
    BY <2>2, <2>3, <2>4
<1>11. Disjoint(F)
  <2>1. \A b \in DOMAIN F : F[b].text # <<>> \/ F[b].removeLen > 0
    BY <1>4, <1>5 DEF Disjoint
  <2> QED
    BY <1>10, <2>1 DEF Disjoint
<1>12. ASSUME NEW p \in Offsets, CanInsertInOffset(fe, p) PROVE CanInsertInOffset(F, p)
  <2>1. SUFFICES ASSUME NEW b \in DOMAIN F, b <= p, p < EndOf(F, b) PROVE b = p
    BY DEF CanInsertInOffset, ActionForOffset
  <2>2. CASE b \in DOMAIN fe
    BY <1>7, <1>12, <2>1, <2>2 DEF CanInsertInOffset, ActionForOffset
  <2>3. CASE b \notin DOMAIN fe
    BY <1>2, <1>5, <1>7, <2>1, <2>3 DEF len
  <2> QED
    BY <2>2, <2>3
<1> QED
  BY <1>1, <1>8, <1>11, <1>12

-----------------------------------------------------------------------------
(* Removals                                                                 *)

(* Some edits go, and one gets the stretch from top to end: behind all that
   is before it and before all that is behind it, and what it removes besides
   the stretch from b is removed already.                                   *)
Stretch(fe, b, n, top, end, gone) ==
  /\ top \in Offsets /\ end \in Offsets /\ top <= b /\ b + n <= end
  /\ \A k \in DOMAIN fe \ gone : /\ k < top => EndOf(fe, k) <= top
                                 /\ k > top => k >= end
  /\ \A o \in Offsets : top < o /\ o < end /\ ~(b < o /\ o < b + n)
                       => \E k \in DOMAIN fe : k < o /\ o < EndOf(fe, k)
  /\ \A o \in Offsets : top <= o /\ o < b => \E k \in DOMAIN fe : k <= o /\ o < EndOf(fe, k)
  /\ \A k \in gone : k \in DOMAIN fe /\ b < k /\ k < b + n /\ EndOf(fe, k) <= end
  /\ top \in DOMAIN fe => EndOf(fe, top) <= end
Removed(fe, top, end, gone) ==
  SetEdit([k \in DOMAIN fe \ gone |-> fe[k]], top, FileEdit(TextAt(fe, top), end - top))

(* That leaves the edits apart, and every place outside the stretch where
   something can be inserted.                                               *)
LEMMA StretchKeeps ==
  ASSUME NEW fe, FileEdits(fe), Disjoint(fe), NEW b \in Offsets, NEW n \in Nat \ {0},
         NEW top, NEW end, NEW gone, Stretch(fe, b, n, top, end, gone)
  PROVE  LET F == Removed(fe, top, end, gone)
         IN /\ FileEdits(F) /\ Disjoint(F)
            /\ \A p \in Offsets : CanInsertInOffset(fe, p) /\ ~(p > b /\ p < b + n)
                                  => CanInsertInOffset(F, p)
<1> DEFINE F == Removed(fe, top, end, gone)
           K == DOMAIN fe \ gone
<1>1. Offsets \subseteq Nat /\ DOMAIN fe \subseteq Offsets
  BY FileOK DEF FileEdits
<1>2. top \in Nat /\ end \in Nat /\ b \in Nat /\ top <= b /\ b + n <= end /\ end - top > 0
  BY <1>1 DEF Stretch
<1>3. /\ DOMAIN F = K \cup {top} /\ F = [k \in DOMAIN F |-> F[k]]
      /\ F[top].text = TextAt(fe, top) /\ F[top].removeLen = end - top
      /\ \A k \in K : k # top => F[k] = fe[k]
  BY DEF Removed, SetEdit, FileEdit
<1> HIDE DEF F
<1>4. /\ EndOf(F, top) = end
      /\ \A k \in K : k # top => EndOf(F, k) = EndOf(fe, k)
  BY <1>2, <1>3 DEF EndOf
<1>5. FileEdits(F)
  <2>1. TextAt(fe, top) \in Seq(Char)
    BY EmptySeq DEF TextAt, FileEdits
  <2>2. ASSUME NEW k \in DOMAIN F
        PROVE  /\ F[k].removeLen \in Nat /\ EndOf(F, k) \in Offsets
               /\ F[k].text \in Seq(Char)
    BY <1>2, <1>3, <1>4, <2>1 DEF FileEdits, Stretch
  <2> QED
    BY <1>1, <1>3, <2>2 DEF FileEdits, Stretch
<1>6. ASSUME NEW k \in DOMAIN F, NEW o \in DOMAIN F, o > k PROVE o >= EndOf(F, k)
  <2>1. k \in Nat /\ o \in Nat /\ EndOf(F, k) \in Nat
    BY <1>1, <1>5 DEF FileEdits
  <2>2. CASE k # top /\ o # top
    BY <1>3, <1>4, <1>6, <2>2 DEF Disjoint
  <2>3. CASE k = top
    BY <1>3, <1>4, <1>6, <2>1, <2>3 DEF Stretch
  <2>4. CASE k # top /\ o = top
    BY <1>3, <1>4, <1>6, <2>1, <2>4 DEF Stretch
  <2> QED
    BY <2>2, <2>3, <2>4
<1>7. Disjoint(F)
  <2>1. \A k \in DOMAIN F : F[k].text # <<>> \/ F[k].removeLen > 0
    BY <1>2, <1>3 DEF Disjoint
  <2> QED
    BY <1>6, <2>1 DEF Disjoint
<1>8. ASSUME NEW p \in Offsets, CanInsertInOffset(fe, p), ~(p > b /\ p < b + n)
      PROVE  CanInsertInOffset(F, p)
  <2>1. SUFFICES ASSUME NEW k \in DOMAIN F, k <= p, p < EndOf(F, k) PROVE k = p
    BY DEF CanInsertInOffset, ActionForOffset
  <2>2. p \in Nat /\ k \in Nat
    BY <1>1, <1>5 DEF FileEdits
  <2>3. CASE k # top
    BY <1>3, <1>4, <1>8, <2>1, <2>3 DEF CanInsertInOffset, ActionForOffset
  <2>4. CASE k = top
    <3>1. SUFFICES ASSUME top < p PROVE FALSE
      BY <1>2, <2>1, <2>2, <2>4
    <3>2. PICK j \in DOMAIN fe : j < p /\ p < EndOf(fe, j)
      BY <1>2, <1>4, <1>8, <2>1, <2>2, <2>4, <3>1 DEF Stretch
    <3>3. j = p
      <4>1. j \in Nat /\ j <= p
        <5>1. j \in Nat
          BY <1>1
        <5>2. j < p
          BY <3>2
        <5> QED
          BY <2>2, <5>1, <5>2
      <4>2. j \in ActionForOffset(fe, p)
        BY <3>2, <4>1 DEF ActionForOffset
      <4> QED
        BY <1>8, <4>2 DEF CanInsertInOffset
    <3> QED
      BY <2>2, <3>2, <3>3
  <2> QED
    BY <2>3, <2>4
<1> QED
  BY <1>5, <1>7, <1>8 DEF F

(* The end of a merged stretch: not before e, and behind e only where one of
   the edits that go ends.                                                  *)
LEMMA MergedEndProperties ==
  ASSUME NEW fe, FileEdits(fe), NEW gone \in SUBSET DOMAIN fe, NEW e \in Offsets
  PROVE  /\ MergedEnd(fe, gone, e) \in Offsets /\ MergedEnd(fe, gone, e) >= e
         /\ \A k \in gone : EndOf(fe, k) <= MergedEnd(fe, gone, e)
         /\ \/ MergedEnd(fe, gone, e) = e
            \/ \E k \in gone : MergedEnd(fe, gone, e) = EndOf(fe, k)
<1> DEFINE S == {e} \cup {EndOf(fe, k) : k \in gone}
<1>1. S \subseteq 0..Size /\ S # {} /\ Size \in Nat /\ Offsets = 0..Size
  BY FileOK DEF FileEdits
<1>2. Max(S) \in S /\ \A m \in S : m <= Max(S)
  <2> HIDE DEF S
  <2> QED
    BY <1>1, MaxProperties
<1>3. MergedEnd(fe, gone, e) = Max(S)
  BY DEF MergedEnd
<1> QED
  BY <1>1, <1>2, <1>3

(* commitRemove changes nothing where all is removed already, and else merges
   the stretch with those it meets.                                         *)
LEMMA RemoveStretches ==
  ASSUME NEW fe, FileEdits(fe), Disjoint(fe), NEW b \in Offsets, NEW n \in Nat \ {0},
         b + n \in Offsets
  PROVE  \/ /\ CommitRemove(fe, b, n) = fe
            /\ \E k \in DOMAIN fe : k <= b /\ b + n <= EndOf(fe, k)
         \/ \E top, end, gone : /\ Stretch(fe, b, n, top, end, gone)
                                /\ CommitRemove(fe, b, n) = Removed(fe, top, end, gone)
<1> DEFINE met == {k \in From(fe, b) : b < EndOf(fe, k)}
           first == Min(met)
           e == b + n
           gone(above) == Swallowed(fe, above, e)
           end(above) == MergedEnd(fe, gone(above), e)
           behind == {k \in DOMAIN fe : k >= first}
           after == {k \in DOMAIN fe : k > first}
<1>1. CommitRemove(fe, b, n)
        = IF met = {} THEN SetEdit(fe, b, FileEdit(TextAt(fe, b), n))
          ELSE IF b < first THEN Removed(fe, b, end(behind), gone(behind))
          ELSE IF EndOf(fe, first) >= e THEN fe
          ELSE Removed(fe, first, end(after), gone(after))
  BY DEF CommitRemove, Removed
<1>2. Offsets \subseteq Nat /\ DOMAIN fe \subseteq Offsets /\ e \in Nat /\ b \in Nat /\ e > b
  BY FileOK DEF FileEdits
<1>3. \A k \in DOMAIN fe : k \in Nat /\ EndOf(fe, k) \in Nat /\ EndOf(fe, k) >= k
  BY <1>2 DEF FileEdits, EndOf
<1>4. met = {k \in DOMAIN fe : b < EndOf(fe, k)}
  BY FromReaches
<1>5. \A k \in DOMAIN fe : k \in met <=> b < EndOf(fe, k)
  BY <1>4
<1>6. met # {} => /\ first \in met /\ first \in DOMAIN fe /\ first \in Nat
                  /\ \A k \in met : first <= k
  <2>1. met \subseteq Nat /\ met \subseteq DOMAIN fe
    BY <1>2, <1>4
  <2> HIDE DEF met
  <2> QED
    BY <2>1, MinProperties
<1>7. \A above : /\ gone(above) = {k \in above : k < e}
                 /\ above \subseteq DOMAIN fe =>
                      /\ end(above) \in Offsets /\ end(above) >= e
                      /\ \A k \in gone(above) : EndOf(fe, k) <= end(above)
                      /\ \/ end(above) = e
                         \/ \E k \in gone(above) : end(above) = EndOf(fe, k)
  BY MergedEndProperties DEF Swallowed
<1> HIDE DEF met, first, e, gone, end
<1>8. CASE met = {}
  <2>1. \A k \in DOMAIN fe : EndOf(fe, k) <= b
    BY <1>2, <1>3, <1>5, <1>8
  <2>2. Stretch(fe, b, n, b, e, {})
    <3>1. ASSUME NEW k \in DOMAIN fe PROVE /\ k < b => EndOf(fe, k) <= b
                                           /\ k > b => k >= e
      BY <1>2, <1>3, <2>1
    <3>2. b \in DOMAIN fe => EndOf(fe, b) <= e
      BY <1>2, <1>3, <2>1
    <3>3. \A o \in Offsets : ~(b <= o /\ o < b)
      BY <1>2
    <3> QED
      BY <1>2, <3>1, <3>2, <3>3 DEF Stretch, e
  <2>3. Removed(fe, b, e, {}) = SetEdit(fe, b, FileEdit(TextAt(fe, b), n))
    <3>1. DOMAIN fe \ {} = DOMAIN fe /\ fe = [k \in DOMAIN fe |-> fe[k]] /\ e - b = n
      BY <1>2 DEF FileEdits, e
    <3> QED
      BY <3>1 DEF Removed
  <2> QED
    BY <1>1, <1>8, <2>2, <2>3
(* An edit that is left begins behind all that are gone, and where one that is
   gone reaches beyond the stretch, it removes what is there.               *)
<1>9. ASSUME NEW above \in SUBSET DOMAIN fe, NEW top \in Offsets, top <= b,
             \A k \in DOMAIN fe : k > top => k \in above \/ EndOf(fe, k) <= top,
             \A k \in DOMAIN fe : k < top => EndOf(fe, k) <= top,
             \A k \in above : k > b,
             top \in DOMAIN fe => EndOf(fe, top) <= e,
             \A o \in Offsets : top < o /\ o <= b =>
                \E k \in DOMAIN fe : k < o /\ o < EndOf(fe, k),
             \A o \in Offsets : top <= o /\ o < b =>
                \E k \in DOMAIN fe : k <= o /\ o < EndOf(fe, k)
      PROVE  Stretch(fe, b, n, top, end(above), gone(above))
  <2>1. end(above) \in Offsets /\ end(above) >= e /\ end(above) \in Nat /\ top \in Nat
    BY <1>2, <1>7
  <2>2. ASSUME NEW k \in DOMAIN fe \ gone(above), k > top PROVE k >= end(above)
    <3>1. k \in above /\ k >= e
      BY <1>2, <1>3, <1>7, <1>9, <2>1, <2>2
    <3>2. CASE end(above) = e
      BY <3>1, <3>2
    <3>3. CASE end(above) # e
      <4>1. PICK g \in gone(above) : end(above) = EndOf(fe, g)
        BY <1>7, <3>3
      <4>2. g \in DOMAIN fe /\ g < e
        BY <1>7
      <4>3. k > g
        BY <1>2, <1>3, <3>1, <4>2
      <4> QED
        BY <4>1, <4>2, <4>3 DEF Disjoint
    <3> QED
      BY <3>2, <3>3
  <2>3. ASSUME NEW o \in Offsets, top < o, o < end(above), ~(b < o /\ o < b + n)
        PROVE  \E k \in DOMAIN fe : k < o /\ o < EndOf(fe, k)
    <3>1. o \in Nat
      BY <1>2
    <3>2. CASE o <= b
      BY <1>9, <2>3, <3>2
    <3>3. CASE ~(o <= b)
      <4>1. o >= e /\ end(above) # e
        BY <1>2, <2>1, <2>3, <3>1, <3>3 DEF e
      <4>2. PICK g \in gone(above) : end(above) = EndOf(fe, g)
        BY <1>7, <4>1
      <4>3. g \in DOMAIN fe /\ g < e
        BY <1>7
      <4>4. g < o
        BY <1>2, <1>3, <3>1, <4>1, <4>3
      <4> QED
        BY <2>3, <4>2, <4>3, <4>4
    <3> QED
      BY <3>2, <3>3
  <2>4. \A k \in gone(above) :
          k \in DOMAIN fe /\ b < k /\ k < b + n /\ EndOf(fe, k) <= end(above)
    BY <1>2, <1>3, <1>7, <1>9 DEF e
  <2>5. top \in DOMAIN fe => EndOf(fe, top) <= end(above)
    BY <1>2, <1>3, <1>9, <2>1
  <2> QED
    BY <1>2, <1>9, <2>1, <2>2, <2>3, <2>4, <2>5 DEF Stretch, e
<1>10. CASE met # {} /\ b < first
  <2>1. behind \subseteq DOMAIN fe /\ \A k \in DOMAIN fe : k \in behind <=> k >= first
    OBVIOUS
  <2>2. \A k \in DOMAIN fe : k \in behind \/ EndOf(fe, k) <= b
    BY <1>2, <1>3, <1>5, <1>6, <1>10, <2>1
  <2>3. \A k \in behind : k > b
    BY <1>2, <1>3, <1>6, <1>10, <2>1
  <2>4. \A k \in DOMAIN fe : k < b => EndOf(fe, k) <= b
    BY <1>2, <1>3, <2>2, <2>3
  <2>5. \A o \in Offsets : ~(b < o /\ o <= b) /\ ~(b <= o /\ o < b)
    BY <1>2
  <2>6. b \in DOMAIN fe => EndOf(fe, b) <= e
    BY <1>2, <1>3, <1>5, <1>6, <1>10
  <2> HIDE DEF behind
  <2>7. Stretch(fe, b, n, b, end(behind), gone(behind))
    BY <1>2, <1>9, <2>1, <2>2, <2>3, <2>4, <2>5, <2>6
  <2> QED
    BY <1>1, <1>10, <2>7
<1>11. CASE met # {} /\ ~(b < first) /\ ~(EndOf(fe, first) >= e)
  <2>1. after \subseteq DOMAIN fe /\ \A k \in DOMAIN fe : k \in after <=> k > first
    OBVIOUS
  <2>2. first \in DOMAIN fe /\ first \in Offsets /\ first <= b /\ b < EndOf(fe, first)
    BY <1>2, <1>5, <1>6, <1>11
  <2>3. \A k \in DOMAIN fe : k < first => EndOf(fe, k) <= first
    BY <1>3, <2>2 DEF Disjoint
  <2>4. ASSUME NEW o \in Offsets, first < o, o <= b
        PROVE  \E k \in DOMAIN fe : k < o /\ o < EndOf(fe, k)
    <3>1. o < EndOf(fe, first)
      BY <1>2, <1>3, <2>2, <2>4
    <3> QED
      BY <2>2, <2>4, <3>1
  <2>5. ASSUME NEW o \in Offsets, first <= o, o < b
        PROVE  \E k \in DOMAIN fe : k <= o /\ o < EndOf(fe, k)
    <3>1. o < EndOf(fe, first)
      BY <1>2, <1>3, <2>2, <2>5
    <3> QED
      BY <2>2, <2>5, <3>1
  <2>6. \A k \in after : k > b
    <3>1. \A k \in after : k \in DOMAIN fe /\ k >= EndOf(fe, first)
      BY <2>1, <2>2 DEF Disjoint
    <3> QED
      BY <1>2, <1>3, <2>2, <3>1
  <2>7. EndOf(fe, first) <= e
    BY <1>2, <1>3, <1>11, <2>2
  <2> HIDE DEF after
  <2>8. Stretch(fe, b, n, first, end(after), gone(after))
    BY <1>9, <2>1, <2>2, <2>3, <2>4, <2>5, <2>6, <2>7
  <2> QED
    BY <1>1, <1>11, <2>8
<1>12. CASE met # {} /\ ~(b < first) /\ EndOf(fe, first) >= e
  <2>1. first \in DOMAIN fe /\ first <= b /\ e <= EndOf(fe, first)
    BY <1>2, <1>3, <1>6, <1>12
  <2> QED
    BY <1>1, <1>12, <2>1 DEF e
<1> QED
  BY <1>8, <1>10, <1>11, <1>12

(* So a removal leaves the edits apart, and each place that is not within what
   is removed.                                                              *)
LEMMA RemoveKeeps ==
  ASSUME NEW fe, FileEdits(fe), Disjoint(fe), NEW b \in Offsets, NEW n \in Nat \ {0},
         b + n \in Offsets
  PROVE  LET F == CommitRemove(fe, b, n)
         IN /\ FileEdits(F) /\ Disjoint(F)
            /\ \A p \in Offsets : CanInsertInOffset(fe, p) /\ ~(p > b /\ p < b + n)
                                  => CanInsertInOffset(F, p)
<1>1. CASE CommitRemove(fe, b, n) = fe
  BY <1>1
<1>2. ASSUME NEW top, NEW end, NEW gone, Stretch(fe, b, n, top, end, gone),
             CommitRemove(fe, b, n) = Removed(fe, top, end, gone)
      PROVE  LET F == CommitRemove(fe, b, n)
             IN /\ FileEdits(F) /\ Disjoint(F)
                /\ \A p \in Offsets : CanInsertInOffset(fe, p) /\ ~(p > b /\ p < b + n)
                                      => CanInsertInOffset(F, p)
  BY <1>2, StretchKeeps
<1> QED
  BY <1>1, <1>2, RemoveStretches

-----------------------------------------------------------------------------
(* The invariant: the variables are of their types in full, the edits of the
   file apart, and what the commit has checked still so.                    *)

Args == {None} \cup {ArgAt[o] : o \in Offsets}
Insertion ==
  [kind : {"Insert"}, at : Offsets, arg : Args, text : Seq(Char) \ {<<>>},
   beforePrev : BOOLEAN]
Copy ==
  {c \in [kind : {"InsertFromRange"}, at : Offsets, arg : Args, from : Offsets,
          len : Nat, beforePrev : BOOLEAN] : c.from + c.len \in Offsets}
Removal ==
  {r \in [kind : {"Remove"}, at : Offsets, len : Nat \ {0}] : r.at + r.len \in Offsets}
Edit == Insertion \cup Copy \cup Removal

Checked(fe, es) ==
  \A i \in DOMAIN es :
    es[i].kind # "Remove" =>
      /\ CanInsertInOffset(fe, es[i].at)
      /\ \A j \in 1..i - 1 : ~IsInside(es[i].at, es[j])

Collected(fe, es) == es \in Seq(Edit) /\ Checked(fe, es)

IInv ==
  /\ FileEdits(fileEdits) /\ Disjoint(fileEdits)
  /\ Collected(fileEdits, edits)
  /\ written \in Args
  /\ commitable \in BOOLEAN /\ committing \in BOOLEAN
  /\ commits \in 1..MaxCommits /\ calls \in 0..MaxCalls[commits]

(* Each edit has one of three kinds, and its place in the file.             *)
LEMMA EditKinds ==
  ASSUME NEW e \in Edit
  PROVE  /\ e.kind \in {"Insert", "InsertFromRange", "Remove"} /\ e.at \in Offsets
         /\ e.kind # "Remove" => e.arg \in Args
         /\ e.kind = "Insert" => e.text \in Seq(Char) /\ e.text # <<>>
         /\ e.kind = "InsertFromRange" =>
              e.from \in Offsets /\ e.len \in Nat /\ e.from + e.len \in Offsets
         /\ e.kind = "Remove" => e.len \in Nat \ {0} /\ e.at + e.len \in Offsets
<1>1. CASE e \in Insertion
  BY <1>1 DEF Insertion
<1>2. CASE e \in Copy
  BY <1>2 DEF Copy
<1>3. CASE e \in Removal
  BY <1>3 DEF Removal
<1> QED
  BY <1>1, <1>2, <1>3 DEF Edit

(* An insertion that is checked can follow the edits that are collected.    *)
LEMMA AppendCollected ==
  ASSUME NEW fe, NEW es, Collected(fe, es), NEW e \in Edit,
         e.kind # "Remove" => /\ CanInsertInOffset(fe, e.at)
                              /\ \A i \in DOMAIN es : ~IsInside(e.at, es[i])
  PROVE  Collected(fe, Append(es, e))
<1> DEFINE A == Append(es, e)
<1>1. /\ es \in Seq(Edit) /\ A \in Seq(Edit) /\ Len(A) = Len(es) + 1 /\ Len(es) \in Nat
      /\ DOMAIN es = 1..Len(es) /\ DOMAIN A = 1..Len(es) + 1
      /\ \A i \in 1..Len(es) : A[i] = es[i]
      /\ A[Len(es) + 1] = e
  BY AppendProperties, LenProperties DEF Collected
<1> HIDE DEF A
<1>2. ASSUME NEW i \in DOMAIN A, A[i].kind # "Remove"
      PROVE  CanInsertInOffset(fe, A[i].at) /\ \A j \in 1..i - 1 : ~IsInside(A[i].at, A[j])
  <2>1. CASE i \in 1..Len(es)
    <3>1. A[i] = es[i] /\ \A j \in 1..i - 1 : A[j] = es[j]
      BY <1>1, <2>1
    <3>2. CanInsertInOffset(fe, es[i].at) /\ \A j \in 1..i - 1 : ~IsInside(es[i].at, es[j])
      BY <1>1, <1>2, <2>1, <3>1 DEF Collected, Checked
    <3> QED
      BY <3>1, <3>2
  <2>2. CASE i = Len(es) + 1
    <3>1. A[i] = e /\ \A j \in 1..i - 1 : j \in DOMAIN es /\ A[j] = es[j]
      BY <1>1, <2>2
    <3> QED
      BY <1>2, <3>1
  <2> QED
    BY <1>1, <2>1, <2>2
<1> QED
  BY <1>1, <1>2 DEF Collected, Checked, A

(* A stretch of the file may be added to what is to be removed.             *)
LEMMA RemovalCollected ==
  ASSUME NEW fe, NEW es, Collected(fe, es), NEW b \in Offsets, NEW n \in Nat,
         b + n \in Offsets
  PROVE  Collected(fe, AddRemove(es, b, n))
<1>1. CASE n = 0
  BY <1>1 DEF AddRemove
<1>2. CASE n # 0
  <2>1. RemoveEdit(b, n) \in Edit /\ RemoveEdit(b, n).kind = "Remove"
    BY <1>2 DEF RemoveEdit, Removal, Edit
  <2>2. AddRemove(es, b, n) = Append(es, RemoveEdit(b, n))
    BY <1>2 DEF AddRemove
  <2> HIDE DEF Edit
  <2> QED
    BY <2>1, <2>2, AppendCollected
<1> QED
  BY <1>1, <1>2

(* The rest of the edits are collected, in a file where each place is left
   that the first of them does not remove.                                  *)
LEMMA TailCollected ==
  ASSUME NEW fe, NEW F, NEW es, Collected(fe, es), es # <<>>,
         \A p \in Offsets : CanInsertInOffset(fe, p) /\ ~IsInside(p, Head(es))
                           => CanInsertInOffset(F, p)
  PROVE  Head(es) \in Edit /\ Collected(F, Tail(es))
<1> DEFINE T == Tail(es)
<1>1. /\ es \in Seq(Edit) /\ Head(es) \in Edit /\ T \in Seq(Edit)
      /\ Len(es) \in Nat /\ Len(es) > 0 /\ DOMAIN es = 1..Len(es)
      /\ DOMAIN T = 1..Len(es) - 1 /\ Head(es) = es[1]
      /\ \A i \in 1..Len(es) - 1 : T[i] = es[i + 1]
  BY HeadTailProperties, LenProperties, EmptySeq DEF Collected
<1> HIDE DEF T
<1>2. ASSUME NEW i \in DOMAIN T, T[i].kind # "Remove"
      PROVE  CanInsertInOffset(F, T[i].at) /\ \A j \in 1..i - 1 : ~IsInside(T[i].at, T[j])
  <2>1. i + 1 \in DOMAIN es /\ T[i] = es[i + 1] /\ T[i] \in Edit
    BY <1>1, ElementOfSeq
  <2>2. /\ CanInsertInOffset(fe, T[i].at)
        /\ \A j \in 1..(i + 1) - 1 : ~IsInside(T[i].at, es[j])
    BY <1>2, <2>1 DEF Collected, Checked
  <2>3. 1 \in 1..(i + 1) - 1 /\ \A j \in 1..i - 1 : j + 1 \in 1..(i + 1) - 1 /\ T[j] = es[j + 1]
    BY <1>1
  <2>4. T[i].at \in Offsets
    BY <2>1, EditKinds
  <2> QED
    BY <1>1, <2>2, <2>3, <2>4
<1> QED
  BY <1>1, <1>2 DEF Collected, Checked, T

-----------------------------------------------------------------------------
(* Every step keeps the invariant                                           *)

(* At first nothing is edited.                                              *)
LEMMA InitIInv == Init => IInv
<1>1. SUFFICES ASSUME Init PROVE IInv
  OBVIOUS
<1>2. FileEdits(fileEdits) /\ Disjoint(fileEdits)
  BY <1>1, NoEdits DEF Init
<1>3. Collected(fileEdits, edits)
  <2>1. edits \in Seq(Edit) /\ DOMAIN edits = {}
    BY <1>1, EmptySeq DEF Init
  <2> QED
    BY <2>1 DEF Collected, Checked
<1> QED
  BY <1>1, <1>2, <1>3, FileOK DEF Init, IInv, Args

(* A call keeps it, if the edits are then collected.                        *)
LEMMA CallKeeps ==
  ASSUME IInv, Calling, Collected(fileEdits, edits'), commitable' \in BOOLEAN
  PROVE  IInv'
<1>1. /\ UNCHANGED <<fileEdits, written, committing, commits>> /\ calls < MaxCalls[commits]
      /\ calls' = calls + 1
  BY DEF Calling
<1>2. calls' \in 0..MaxCalls[commits]
  <2>1. MaxCalls[commits] \in Nat /\ calls \in 0..MaxCalls[commits]
    BY FileOK DEF IInv
  <2> QED
    BY <1>1, <2>1
<1>3. FileEdits(fileEdits)' /\ Disjoint(fileEdits)'
  BY <1>1 DEF IInv
<1>4. Collected(fileEdits, edits)'
  BY <1>1
<1> QED
  BY <1>1, <1>2, <1>3, <1>4 DEF IInv

(* What a call inserts is text.                                             *)
LEMMA InsertionTyped ==
  ASSUME IInv, NEW at \in Offsets, NEW o \in Offsets, NEW n \in Nat, NEW before \in BOOLEAN
  PROVE  InsertEdit(at, ArgAt[o], NewText(n), before) \in Edit
<1>1. commits \in Nat /\ calls \in Nat
  BY FileOK DEF IInv
<1>2. NewText(n) \in Seq(Char) \ {<<>>}
  <2>1. <<commits, calls, n>> \in Char
    BY <1>1 DEF Char
  <2> HIDE DEF Char
  <2> QED
    BY <2>1 DEF NewText
<1>3. ArgAt[o] \in Args
  BY DEF Args
<1> HIDE DEF NewText, Args, Char, Offsets
<1> QED
  BY <1>2, <1>3, Zenon DEF InsertEdit, Insertion, Edit

(* Every call keeps the invariant.                                          *)
LEMMA CallsKeep ==
  ASSUME IInv
  PROVE  /\ \A o \in Offsets, after, before \in BOOLEAN : Insert(o, after, before) => IInv'
         /\ \A b \in Offsets : \A n \in 0..Size - b :
              /\ RemoveRange(b, n) => IInv'
              /\ Replace(b, n) => IInv'
              /\ InsertWrap(b, n) => IInv'
              /\ \A o \in Offsets : InsertFromRange(o, b, n, FALSE) => IInv'
              /\ \A i \in Offsets : \A m \in 0..Size - i :
                   ReplaceWithInner(b, n, i, m) => IInv'
         /\ NoPlace => IInv'
<1>0. /\ Collected(fileEdits, edits) /\ commitable \in BOOLEAN
      /\ Offsets = 0..Size /\ Size \in Nat
  BY FileOK DEF IInv
<1>1. ASSUME NEW at \in Offsets, NEW o \in Offsets, NEW n \in Nat, NEW before \in BOOLEAN,
             NEW cached, Collected(fileEdits, cached), CanInsert(cached, at)
      PROVE  Collected(fileEdits, Append(cached, InsertEdit(at, ArgAt[o], NewText(n), before)))
  <2> DEFINE e == InsertEdit(at, ArgAt[o], NewText(n), before)
  <2>1. e \in Edit /\ e.at = at
    <3>1. e \in Edit
      BY InsertionTyped
    <3> QED
      BY <3>1 DEF InsertEdit
  <2> HIDE DEF e
  <2>2. CanInsertInOffset(fileEdits, e.at) /\ \A i \in DOMAIN cached : ~IsInside(e.at, cached[i])
    BY <1>1, <2>1 DEF CanInsert
  <2>3. Collected(fileEdits, Append(cached, e))
    BY <1>1, <2>1, <2>2, AppendCollected
  <2> QED
    BY <2>3 DEF e
<1>2. ASSUME NEW o \in Offsets, NEW after \in BOOLEAN, NEW before \in BOOLEAN,
             Insert(o, after, before)
      PROVE  IInv'
  <2> DEFINE at == IF after THEN o + 1 ELSE o
             new == Append(edits, InsertEdit(at, ArgAt[o], NewText(1), before))
  <2>1. /\ Calling /\ at \in Offsets
        /\ \/ CanInsert(edits, at) /\ edits' = new /\ commitable' = commitable
           \/ edits' = edits /\ commitable' = FALSE
    BY <1>2 DEF Insert, Add
  <2>2. CanInsert(edits, at) => Collected(fileEdits, new)
    <3> HIDE DEF at
    <3> QED
      BY <1>0, <1>1, <2>1
  <2> HIDE DEF new, at
  <2> QED
    BY <1>0, <2>1, <2>2, CallKeeps
<1>3. ASSUME NEW b \in Offsets, NEW n \in 0..Size - b
      PROVE  /\ RemoveRange(b, n) => IInv'
             /\ Replace(b, n) => IInv'
             /\ InsertWrap(b, n) => IInv'
             /\ \A o \in Offsets : InsertFromRange(o, b, n, FALSE) => IInv'
             /\ \A i \in Offsets : \A m \in 0..Size - i :
                  ReplaceWithInner(b, n, i, m) => IInv'
  <2>1. n \in Nat /\ b \in Nat /\ b + n \in Offsets
    BY <1>0
  <2>2. ASSUME RemoveRange(b, n) PROVE IInv'
    <3>1. Calling /\ edits' = AddRemove(edits, b, n) /\ commitable' = commitable
      BY <2>2 DEF RemoveRange, Add
    <3>2. Collected(fileEdits, AddRemove(edits, b, n))
      BY <1>0, <2>1, RemovalCollected
    <3> QED
      BY <1>0, <3>1, <3>2, CallKeeps
  <2>3. ASSUME Replace(b, n) PROVE IInv'
    <3> DEFINE removed == AddRemove(edits, b, n)
               new == Append(removed, InsertEdit(b, ArgAt[b], NewText(1), FALSE))
    <3>1. /\ Calling
          /\ \/ CanInsert(edits, b) /\ edits' = new /\ commitable' = commitable
             \/ edits' = edits /\ commitable' = FALSE
      BY <2>3 DEF Replace, Add
    <3>2. Collected(fileEdits, removed)
      BY <1>0, <2>1, RemovalCollected
    <3>3. CanInsert(edits, b) => CanInsert(removed, b)
      <4>1. SUFFICES ASSUME CanInsert(edits, b), n # 0 PROVE CanInsert(removed, b)
        BY DEF AddRemove
      <4>2. edits \in Seq(Edit) /\ RemoveEdit(b, n) = [kind |-> "Remove", at |-> b, len |-> n]
        BY <1>0 DEF Collected, RemoveEdit
      <4>3. RemoveEdit(b, n) \in Edit
        BY <2>1, <4>1, <4>2 DEF Edit, Removal
      <4>4. /\ DOMAIN removed = 1..Len(edits) + 1 /\ removed[Len(edits) + 1] = RemoveEdit(b, n)
            /\ \A i \in 1..Len(edits) : i \in DOMAIN edits /\ removed[i] = edits[i]
            /\ Len(edits) \in Nat
        BY <4>1, <4>2, <4>3, AppendProperties, LenProperties DEF AddRemove
      <4>5. ~IsInside(b, RemoveEdit(b, n))
        BY <2>1, <4>2 DEF IsInside
      <4>6. \A i \in DOMAIN removed : ~IsInside(b, removed[i])
        <5> HIDE DEF removed
        <5> QED
          BY <4>1, <4>4, <4>5 DEF CanInsert
      <4> QED
        BY <4>1, <4>6 DEF CanInsert
    <3> HIDE DEF removed
    <3>4. CanInsert(edits, b) => Collected(fileEdits, new)
      BY <1>1, <3>2, <3>3
    <3> HIDE DEF new
    <3> QED
      BY <1>0, <3>1, <3>4, CallKeeps
  <2>4. ASSUME InsertWrap(b, n) PROVE IInv'
    <3> DEFINE one == Append(edits, InsertEdit(b, ArgAt[b], NewText(1), TRUE))
               two == Append(one, InsertEdit(b + n, ArgAt[b + n - 1], NewText(2), FALSE))
    <3>1. /\ Calling /\ n > 0
          /\ \/ /\ CanInsert(edits, b) /\ CanInsert(one, b + n)
                /\ edits' = two /\ commitable' = commitable
             \/ edits' = edits /\ commitable' = FALSE
      BY <2>4 DEF InsertWrap, Add
    <3>2. CanInsert(edits, b) => Collected(fileEdits, one)
      BY <1>0, <1>1
    <3> HIDE DEF one
    <3>3. CanInsert(edits, b) /\ CanInsert(one, b + n) => Collected(fileEdits, two)
      <4>1. b + n - 1 \in Offsets
        BY <1>0, <2>1, <3>1
      <4> QED
        BY <1>1, <2>1, <3>2, <4>1
    <3> HIDE DEF two
    <3> QED
      BY <1>0, <3>1, <3>3, CallKeeps
  <2>5. ASSUME NEW o \in Offsets, InsertFromRange(o, b, n, FALSE) PROVE IInv'
    <3> DEFINE e == RangeEdit(o, ArgAt[o], b, n, FALSE)
    <3>1. e \in Edit /\ e.at = o
      <4>1. e.at = o
        BY DEF RangeEdit
      <4>2. ArgAt[o] \in Args
        BY DEF Args
      <4>3. e \in [kind : {"InsertFromRange"}, at : Offsets, arg : Args, from : Offsets,
                   len : Nat, beforePrev : BOOLEAN]
        <5> HIDE DEF Args, Offsets
        <5> QED
          BY <2>1, <4>2, Zenon DEF RangeEdit
      <4>4. e.from + e.len \in Offsets
        BY <2>1 DEF RangeEdit
      <4> HIDE DEF e
      <4>5. e \in Copy
        BY <4>3, <4>4 DEF Copy
      <4> HIDE DEF Copy
      <4> QED
        BY <4>1, <4>5 DEF Edit
    <3>2. /\ Calling
          /\ \/ /\ CanInsert(edits, o) /\ edits' = (IF n = 0 THEN edits ELSE Append(edits, e))
                /\ commitable' = commitable
             \/ edits' = edits /\ commitable' = FALSE
      BY <2>5 DEF InsertFromRange, Add
    <3> HIDE DEF e
    <3>3. CanInsert(edits, o) => Collected(fileEdits, Append(edits, e))
      <4>1. ASSUME CanInsert(edits, o)
            PROVE  /\ CanInsertInOffset(fileEdits, e.at)
                   /\ \A i \in DOMAIN edits : ~IsInside(e.at, edits[i])
        BY <3>1, <4>1 DEF CanInsert
      <4> QED
        BY <1>0, <3>1, <4>1, AppendCollected
    <3>4. Collected(fileEdits, edits')
      BY <1>0, <3>2, <3>3
    <3> QED
      BY <1>0, <3>2, <3>4, CallKeeps
  <2>6. ASSUME NEW i \in Offsets, NEW m \in 0..Size - i, ReplaceWithInner(b, n, i, m)
        PROVE  IInv'
    <3> DEFINE one == AddRemove(edits, b, i - b)
               two == AddRemove(one, i + m, b + n - i - m)
    <3>1. /\ Calling
          /\ \/ /\ i >= b /\ i <= b + n /\ i + m <= b + n
                /\ edits' = two /\ commitable' = commitable
             \/ edits' = edits /\ commitable' = FALSE
      BY <2>6 DEF ReplaceWithInner, Add
    <3>2. ASSUME i >= b, i <= b + n, i + m <= b + n PROVE Collected(fileEdits, two)
      <4>1. i - b \in Nat /\ b + (i - b) \in Offsets
        BY <1>0, <2>1, <3>2
      <4>2. /\ i + m \in Offsets /\ b + n - i - m \in Nat
            /\ (i + m) + (b + n - i - m) \in Offsets
        BY <1>0, <2>1, <3>2
      <4>3. Collected(fileEdits, one)
        BY <1>0, <4>1, RemovalCollected
      <4> HIDE DEF one
      <4> QED
        BY <4>2, <4>3, RemovalCollected
    <3> HIDE DEF two
    <3> QED
      BY <1>0, <3>1, <3>2, CallKeeps
  <2> QED
    BY <2>2, <2>3, <2>4, <2>5, <2>6
<1>4. ASSUME NoPlace PROVE IInv'
  <2>1. Calling /\ edits' = edits /\ commitable' = FALSE
    BY <1>4 DEF NoPlace, Add
  <2> QED
    BY <1>0, <2>1, CallKeeps
<1> QED
  BY <1>2, <1>3, <1>4

(* The next of the edits is applied: a place that it does not remove is left. *)
LEMMA CommitEditKeeps ==
  ASSUME IInv, CommitEdit
  PROVE  IInv'
<1> DEFINE e == Head(edits)
<1>1. /\ edits # <<>> /\ edits' = Tail(edits)
      /\ \/ e.kind = "Remove" /\ fileEdits' = CommitRemove(fileEdits, e.at, e.len)
            /\ written' = written
         \/ /\ e.kind # "Remove" /\ CanInsertInOffset(fileEdits, e.at)
            /\ TextToInsert(e) # <<>>
            /\ fileEdits' = CommitInsert(fileEdits, e.at, TextToInsert(e), e.beforePrev)
            /\ written' = (IF e.arg = None THEN written ELSE e.arg)
         \/ UNCHANGED <<fileEdits, written>>
      /\ UNCHANGED <<commitable, committing, commits, calls>>
  BY DEF CommitEdit
<1>2. FileEdits(fileEdits) /\ Disjoint(fileEdits) /\ Collected(fileEdits, edits)
  BY DEF IInv
<1>3. e \in Edit
  BY <1>1, <1>2, TailCollected
<1> HIDE DEF e
<1>4. /\ e.kind \in {"Insert", "InsertFromRange", "Remove"} /\ e.at \in Offsets
      /\ e.kind # "Remove" => e.arg \in Args
      /\ e.kind = "Insert" => e.text \in Seq(Char) /\ e.text # <<>>
      /\ e.kind = "InsertFromRange" =>
           e.from \in Offsets /\ e.len \in Nat /\ e.from + e.len \in Offsets
      /\ e.kind = "Remove" => e.len \in Nat \ {0} /\ e.at + e.len \in Offsets
  BY <1>3, EditKinds
<1>5. /\ FileEdits(fileEdits') /\ Disjoint(fileEdits')
      /\ \A p \in Offsets : CanInsertInOffset(fileEdits, p) /\ ~IsInside(p, e)
                           => CanInsertInOffset(fileEdits', p)
  <2>1. CASE e.kind = "Remove" /\ fileEdits' = CommitRemove(fileEdits, e.at, e.len)
    <3>1. \A p : IsInside(p, e) <=> p > e.at /\ p < e.at + e.len
      BY <2>1 DEF IsInside
    <3> QED
      BY <1>2, <1>4, <2>1, <3>1, RemoveKeeps
  <2>2. CASE /\ e.kind # "Remove" /\ CanInsertInOffset(fileEdits, e.at)
             /\ TextToInsert(e) # <<>>
             /\ fileEdits' = CommitInsert(fileEdits, e.at, TextToInsert(e), e.beforePrev)
    <3>1. TextToInsert(e) \in Seq(Char)
      BY <1>2, <1>4, <2>2, EditedRangeTyped DEF TextToInsert
    <3> QED
      BY <1>2, <1>4, <2>2, <3>1, InsertKeeps
  <2>3. CASE UNCHANGED fileEdits
    BY <1>2, <2>3
  <2> QED
    BY <1>1, <2>1, <2>2, <2>3
<1>6. Collected(fileEdits', edits')
  BY <1>1, <1>2, <1>5, TailCollected DEF e
<1>7. written' \in Args
  BY <1>1, <1>4 DEF IInv
<1> QED
  BY <1>1, <1>5, <1>6, <1>7 DEF IInv

(* The other steps of a commit give up its edits, or all that is edited.    *)
LEMMA OthersKeep ==
  ASSUME IInv, CommitFails \/ BeginCommit \/ EndCommit \/ ClearRewrites
  PROVE  IInv'
<1>1. ASSUME NEW fe PROVE Collected(fe, <<>>)
  <2>1. <<>> \in Seq(Edit) /\ DOMAIN <<>> = {}
    BY EmptySeq
  <2> QED
    BY <2>1 DEF Collected, Checked
<1>2. ASSUME NextCommit PROVE /\ Collected(fileEdits', edits') /\ commitable' \in BOOLEAN
                              /\ commits' \in 1..MaxCommits /\ calls' \in 0..MaxCalls[commits']
  <2>1. edits' = <<>> /\ commitable' = TRUE /\ calls' = 0 /\ commits' \in 1..MaxCommits
    BY <1>2, FileOK DEF NextCommit, IInv
  <2>2. MaxCalls[commits'] \in Nat
    BY <2>1, FileOK
  <2> QED
    BY <1>1, <2>1, <2>2
<1>3. CASE CommitFails
  BY <1>2, <1>3 DEF CommitFails, IInv
<1>4. CASE BeginCommit
  <2>1. /\ UNCHANGED <<fileEdits, written, edits, commitable, commits, calls>>
        /\ committing' = TRUE
    BY <1>4 DEF BeginCommit
  <2> QED
    BY <2>1 DEF IInv
<1>5. CASE EndCommit
  BY <1>2, <1>5 DEF EndCommit, IInv
<1>6. CASE ClearRewrites
  <2>1. /\ UNCHANGED <<written, edits, commitable, committing, commits, calls>>
        /\ fileEdits' = <<>>
    BY <1>6 DEF ClearRewrites
  <2>2. FileEdits(fileEdits') /\ Disjoint(fileEdits') /\ \A o : CanInsertInOffset(fileEdits', o)
    BY <2>1, NoEdits
  <2>3. Collected(fileEdits', edits')
    BY <2>1, <2>2 DEF IInv, Collected, Checked
  <2> QED
    BY <2>1, <2>2, <2>3 DEF IInv
<1> QED
  BY <1>3, <1>4, <1>5, <1>6

(* Every step keeps the invariant.                                          *)
LEMMA NextIInv == IInv /\ [Next]_vars => IInv'
<1>1. SUFFICES ASSUME IInv, [Next]_vars PROVE IInv'
  OBVIOUS
<1>2. ASSUME UNCHANGED vars PROVE IInv'
  BY <1>1, <1>2 DEF vars, IInv
<1>3. ASSUME NEW o \in Offsets, NEW after \in BOOLEAN, NEW before \in BOOLEAN,
             Insert(o, after, before)
      PROVE  IInv'
  BY <1>1, <1>3, CallsKeep
<1>4. ASSUME NEW b \in Offsets, NEW n \in 0..Size - b,
             \/ RemoveRange(b, n) \/ Replace(b, n) \/ InsertWrap(b, n)
             \/ \E o \in Offsets : InsertFromRange(o, b, n, FALSE)
             \/ \E i \in Offsets : \E m \in 0..Size - i : ReplaceWithInner(b, n, i, m)
      PROVE  IInv'
  BY <1>1, <1>4, CallsKeep
<1>5. ASSUME NoPlace PROVE IInv'
  BY <1>1, <1>5, CallsKeep
<1> QED
  BY <1>1, <1>2, <1>3, <1>4, <1>5, CommitEditKeeps, OthersKeep DEF Next

(* The invariant holds in every state.                                      *)
LEMMA Invariance == Spec => []IInv
  BY InitIInv, NextIInv, PTL DEF Spec

-----------------------------------------------------------------------------
(* What the steps do to the text                                            *)

(* The offsets inside a stretch.                                            *)
InsideOf(fe) == UNION {b + 1..EndOf(fe, b) - 1 : b \in DOMAIN fe}

(* The two sets, offset by offset.                                          *)
LEMMA SetsOf ==
  ASSUME NEW fe, FileEdits(fe)
  PROVE  /\ \A x : x \in RemovedBy(fe) <=>
                     x \in Nat /\ \E k \in DOMAIN fe : k <= x /\ x < EndOf(fe, k)
         /\ \A x : x \in InsideOf(fe) <=>
                     x \in Nat /\ \E k \in DOMAIN fe : k < x /\ x < EndOf(fe, k)
         /\ RemovedBy(fe) \subseteq Offsets /\ InsideOf(fe) \subseteq Offsets
<1>1. \A k \in DOMAIN fe : k \in Nat /\ EndOf(fe, k) \in Nat /\ EndOf(fe, k) \in 0..Size
  BY FileOK DEF FileEdits
<1>2. Size \in Nat /\ Offsets = 0..Size
  BY FileOK
<1>3. \A x : x \in RemovedBy(fe) <=>
               x \in Nat /\ \E k \in DOMAIN fe : k <= x /\ x < EndOf(fe, k)
  BY <1>1 DEF RemovedBy
<1>4. \A x : x \in InsideOf(fe) <=>
               x \in Nat /\ \E k \in DOMAIN fe : k < x /\ x < EndOf(fe, k)
  BY <1>1 DEF InsideOf
<1> QED
  BY <1>1, <1>2, <1>3, <1>4

(* An insertion adds its text, before or behind what is inserted there.     *)
LEMMA InsertMeans ==
  ASSUME NEW fe, FileEdits(fe), Disjoint(fe), NEW o \in Offsets, CanInsertInOffset(fe, o),
         NEW str \in Seq(Char), str # <<>>, NEW beforePrev
  PROVE  LET F == CommitInsert(fe, o, str, beforePrev)
             new == IF beforePrev THEN str \o TextAt(fe, o) ELSE TextAt(fe, o) \o str
         IN /\ RemovedBy(F) = RemovedBy(fe) /\ InsideOf(F) = InsideOf(fe)
            /\ \A p : TextAt(F, p) = IF p = o THEN new ELSE TextAt(fe, p)
<1> DEFINE new == IF beforePrev THEN str \o TextAt(fe, o) ELSE TextAt(fe, o) \o str
           len == IF o \in DOMAIN fe THEN fe[o].removeLen ELSE 0
           F == CommitInsert(fe, o, str, beforePrev)
<1>1. F = [k \in DOMAIN fe \cup {o} |-> IF k = o THEN FileEdit(new, len) ELSE fe[k]]
  BY DEF CommitInsert, SetEdit
<1> HIDE DEF new, F
<1>2. /\ DOMAIN F = DOMAIN fe \cup {o} /\ F[o].text = new /\ F[o].removeLen = len
      /\ \A k \in DOMAIN fe : k # o => F[k] = fe[k]
  BY <1>1 DEF FileEdit
<1>3. \A p : TextAt(F, p) = IF p = o THEN new ELSE TextAt(fe, p)
  BY <1>2 DEF TextAt
<1>4. FileEdits(F)
  BY InsertKeeps DEF F
<1>5. /\ \A k \in DOMAIN fe : EndOf(F, k) = EndOf(fe, k)
      /\ o \notin DOMAIN fe => EndOf(F, o) = o
  BY <1>2, FileOK DEF EndOf
<1>6. \A x \in Nat : /\ (\E k \in DOMAIN F : k <= x /\ x < EndOf(F, k))
                          <=> \E k \in DOMAIN fe : k <= x /\ x < EndOf(fe, k)
                     /\ (\E k \in DOMAIN F : k < x /\ x < EndOf(F, k))
                          <=> \E k \in DOMAIN fe : k < x /\ x < EndOf(fe, k)
  <2>1. TAKE x \in Nat
  <2>2. o \in Nat
    BY FileOK
  <2>3. o \notin DOMAIN fe => ~(o <= x /\ x < EndOf(F, o)) /\ ~(o < x /\ x < EndOf(F, o))
    BY <1>5, <2>2
  <2> QED
    BY <1>2, <1>5, <2>3
<1>7. RemovedBy(F) = RemovedBy(fe) /\ InsideOf(F) = InsideOf(fe)
  <2>1. \A x : /\ x \in RemovedBy(F) <=> x \in RemovedBy(fe)
               /\ x \in InsideOf(F) <=> x \in InsideOf(fe)
    BY <1>4, <1>6, SetsOf
  <2> QED
    BY <2>1
<1> QED
  BY <1>3, <1>7 DEF F, new

(* A removal takes its stretch and what is inserted inside of it.           *)
LEMMA RemoveMeans ==
  ASSUME NEW fe, FileEdits(fe), Disjoint(fe), NEW b \in Offsets, NEW n \in Nat \ {0},
         b + n \in Offsets
  PROVE  LET F == CommitRemove(fe, b, n)
             in == b + 1..b + n - 1
         IN /\ RemovedBy(F) = RemovedBy(fe) \cup b..b + n - 1
            /\ InsideOf(F) = InsideOf(fe) \cup in
            /\ \A p \in Offsets : TextAt(F, p) = IF p \in in THEN <<>> ELSE TextAt(fe, p)
<1> DEFINE F == CommitRemove(fe, b, n)
           in == b + 1..b + n - 1
<1>1. FileEdits(F)
  BY RemoveKeeps
<1>2. /\ Offsets = 0..Size /\ Size \in Nat /\ DOMAIN fe \subseteq Offsets /\ b \in Nat
      /\ \A x : /\ x \in b..b + n - 1 <=> x \in Nat /\ b <= x /\ x < b + n
                /\ x \in in <=> x \in Nat /\ b < x /\ x < b + n
  BY FileOK DEF FileEdits
<1>3. \A k \in DOMAIN fe : k \in Nat /\ EndOf(fe, k) \in Nat
  BY <1>2 DEF FileEdits
<1> HIDE DEF F, in
<1>4. SUFFICES /\ \A x \in Offsets :
                    /\ x \in RemovedBy(F) <=> x \in RemovedBy(fe) \/ (b <= x /\ x < b + n)
                    /\ x \in InsideOf(F) <=> x \in InsideOf(fe) \/ (b < x /\ x < b + n)
               /\ \A p \in Offsets : TextAt(F, p) = IF p \in in THEN <<>> ELSE TextAt(fe, p)
  <2>1. ASSUME \A x \in Offsets :
                 /\ x \in RemovedBy(F) <=> x \in RemovedBy(fe) \/ (b <= x /\ x < b + n)
                 /\ x \in InsideOf(F) <=> x \in InsideOf(fe) \/ (b < x /\ x < b + n)
        PROVE  RemovedBy(F) = RemovedBy(fe) \cup b..b + n - 1 /\ InsideOf(F) = InsideOf(fe) \cup in
    <3>1. /\ RemovedBy(F) \subseteq Offsets /\ InsideOf(F) \subseteq Offsets
          /\ RemovedBy(fe) \subseteq Offsets /\ InsideOf(fe) \subseteq Offsets
      BY <1>1, SetsOf
    <3>2. b..b + n - 1 \subseteq Offsets /\ in \subseteq Offsets
      BY <1>2
    <3>3. \A x : /\ x \in RemovedBy(F) <=> x \in RemovedBy(fe) \cup b..b + n - 1
                 /\ x \in InsideOf(F) <=> x \in InsideOf(fe) \cup in
      BY <1>2, <2>1, <3>1, <3>2
    <3> QED
      BY <3>3
  <2> QED
    BY <2>1 DEF F, in
<1>5. \A x \in Nat : /\ x \in RemovedBy(fe) <=> \E k \in DOMAIN fe : k <= x /\ x < EndOf(fe, k)
                     /\ x \in InsideOf(fe) <=> \E k \in DOMAIN fe : k < x /\ x < EndOf(fe, k)
                     /\ x \in RemovedBy(F) <=> \E k \in DOMAIN F : k <= x /\ x < EndOf(F, k)
                     /\ x \in InsideOf(F) <=> \E k \in DOMAIN F : k < x /\ x < EndOf(F, k)
  BY <1>1, SetsOf
<1>6. ASSUME F = fe, NEW k \in DOMAIN fe, k <= b, b + n <= EndOf(fe, k)
      PROVE  /\ \A x \in Offsets :
                  /\ x \in RemovedBy(F) <=> x \in RemovedBy(fe) \/ (b <= x /\ x < b + n)
                  /\ x \in InsideOf(F) <=> x \in InsideOf(fe) \/ (b < x /\ x < b + n)
             /\ \A p \in Offsets : TextAt(F, p) = IF p \in in THEN <<>> ELSE TextAt(fe, p)
  <2>1. k \in Nat /\ EndOf(fe, k) \in Nat
    BY <1>3
  <2>2. ASSUME NEW x \in Offsets
        PROVE  /\ b <= x /\ x < b + n => x \in RemovedBy(fe)
               /\ b < x /\ x < b + n => x \in InsideOf(fe)
    <3>1. /\ b <= x /\ x < b + n => k <= x /\ x < EndOf(fe, k)
          /\ b < x /\ x < b + n => k < x /\ x < EndOf(fe, k)
      BY <1>2, <1>6, <2>1
    <3> QED
      BY <1>2, <1>5, <3>1
  <2>3. ASSUME NEW p \in Offsets, p \in in PROVE TextAt(fe, p) = <<>>
    <3>1. p \notin DOMAIN fe
      BY <1>2, <1>6, <2>1, <2>3 DEF Disjoint
    <3> QED
      BY <3>1 DEF TextAt
  <2> QED
    BY <1>6, <2>2, <2>3
<1>7. ASSUME NEW top, NEW end, NEW gone, Stretch(fe, b, n, top, end, gone),
             F = Removed(fe, top, end, gone)
      PROVE  /\ \A x \in Offsets :
                  /\ x \in RemovedBy(F) <=> x \in RemovedBy(fe) \/ (b <= x /\ x < b + n)
                  /\ x \in InsideOf(F) <=> x \in InsideOf(fe) \/ (b < x /\ x < b + n)
             /\ \A p \in Offsets : TextAt(F, p) = IF p \in in THEN <<>> ELSE TextAt(fe, p)
  <2> DEFINE K == DOMAIN fe \ gone
  <2>1. top \in Nat /\ end \in Nat /\ top <= b /\ b + n <= end
    BY <1>2, <1>7 DEF Stretch
  <2>2. /\ DOMAIN F = K \cup {top}
        /\ F[top].text = TextAt(fe, top) /\ F[top].removeLen = end - top
        /\ \A k \in K : k # top => F[k] = fe[k]
    BY <1>7 DEF Removed, SetEdit, FileEdit
  <2>3. EndOf(F, top) = end /\ \A k \in K : k # top => EndOf(F, k) = EndOf(fe, k)
    BY <2>1, <2>2 DEF EndOf
  <2>4. \A k \in gone : k \in DOMAIN fe /\ b < k /\ k < b + n /\ EndOf(fe, k) <= end
    BY <1>7 DEF Stretch
  <2>5. top \in DOMAIN fe => EndOf(fe, top) <= end
    BY <1>7 DEF Stretch
  <2>6. ASSUME NEW x \in Offsets
        PROVE  /\ x \in RemovedBy(F) <=> x \in RemovedBy(fe) \/ (b <= x /\ x < b + n)
               /\ x \in InsideOf(F) <=> x \in InsideOf(fe) \/ (b < x /\ x < b + n)
    <3>1. x \in Nat
      BY <1>2
    <3>2. ASSUME NEW k \in DOMAIN F, k <= x, x < EndOf(F, k)
          PROVE  /\ x \in RemovedBy(fe) \/ (b <= x /\ x < b + n)
                 /\ k < x => x \in InsideOf(fe) \/ (b < x /\ x < b + n)
      <4>1. CASE k # top
        BY <1>5, <2>2, <2>3, <3>1, <3>2, <4>1
      <4>2. CASE k = top
        <5>1. top <= x /\ x < end
          BY <2>3, <3>2, <4>2
        <5>2. x >= b + n => \E j \in DOMAIN fe : j < x /\ x < EndOf(fe, j)
          BY <1>2, <1>7, <2>1, <3>1, <5>1 DEF Stretch
        <5>3. x < b => \E j \in DOMAIN fe : j <= x /\ x < EndOf(fe, j)
          BY <1>7, <5>1 DEF Stretch
        <5>4. top < x /\ ~(b < x /\ x < b + n) => \E j \in DOMAIN fe : j < x /\ x < EndOf(fe, j)
          BY <1>7, <5>1 DEF Stretch
        <5>5. \A j \in DOMAIN fe : j < x => j <= x
          BY <1>3, <3>1
        <5>6. x \in RemovedBy(fe) \/ (b <= x /\ x < b + n)
          BY <1>2, <1>5, <3>1, <5>2, <5>3, <5>5
        <5> QED
          BY <1>5, <3>1, <4>2, <5>4, <5>6
      <4> QED
        BY <4>1, <4>2
    <3>3. ASSUME NEW k \in DOMAIN fe, k <= x, x < EndOf(fe, k)
          PROVE  x \in RemovedBy(F) /\ (k < x => x \in InsideOf(F))
      <4>1. CASE k \in gone \/ k = top
        <5>1. top <= k /\ EndOf(fe, k) <= end /\ k \in Nat /\ EndOf(fe, k) \in Nat
          BY <1>2, <1>3, <2>1, <2>4, <2>5, <4>1
        <5>2. top <= x /\ x < end /\ (k < x => top < x)
          BY <2>1, <3>1, <3>3, <5>1
        <5> QED
          BY <1>5, <2>2, <2>3, <3>1, <5>2
      <4>2. CASE k \notin gone /\ k # top
        BY <1>5, <2>2, <2>3, <3>1, <3>3, <4>2
      <4> QED
        BY <4>1, <4>2
    <3>4. /\ b <= x /\ x < b + n => x \in RemovedBy(F)
          /\ b < x /\ x < b + n => x \in InsideOf(F)
      <4>1. /\ b <= x /\ x < b + n => top <= x /\ x < end
            /\ b < x /\ x < b + n => top < x /\ x < end
        BY <1>2, <2>1, <3>1
      <4> QED
        BY <1>5, <2>2, <2>3, <3>1, <4>1
    <3>5. \A k \in DOMAIN F : k < x => k <= x
      BY <1>3, <2>1, <2>2, <3>1
    <3>6. \A k \in DOMAIN fe : k < x => k <= x
      BY <1>3, <3>1
    <3> QED
      BY <1>5, <3>1, <3>2, <3>3, <3>4, <3>5, <3>6
  <2>7. ASSUME NEW p \in Offsets PROVE TextAt(F, p) = IF p \in in THEN <<>> ELSE TextAt(fe, p)
    <3>1. p \in Nat /\ (p \in in <=> b < p /\ p < b + n)
      BY <1>2
    <3>2. CASE p = top
      BY <1>2, <2>1, <2>2, <3>1, <3>2 DEF TextAt
    <3>3. CASE p # top /\ p \in in
      <4>1. p \notin K
        BY <1>7, <1>2, <2>1, <3>1, <3>3 DEF Stretch
      <4> QED
        BY <2>2, <3>3, <4>1 DEF TextAt
    <3>4. CASE p # top /\ p \notin in
      <4>1. p \notin gone
        BY <2>4, <3>1, <3>4
      <4> QED
        BY <2>2, <3>4, <4>1 DEF TextAt
    <3> QED
      BY <3>2, <3>3, <3>4
  <2> QED
    BY <2>6, <2>7
<1> QED
  BY <1>6, <1>7, RemoveStretches DEF F

(* The text of a range in the edited text that the map stands for.          *)
LEMMA AbstractRange ==
  ASSUME FileEdits(fileEdits)
  PROVE  \A b \in Offsets : \A n \in Nat : b + n \in Offsets =>
              Abstract!TextOf(b, b + n) = PieceText(fileEdits, b, b + n)
<1> SUFFICES ASSUME NEW b \in Offsets, NEW n \in Nat, b + n \in Offsets
             PROVE  Abstract!TextOf(b, b + n) = PieceText(fileEdits, b, b + n)
  OBVIOUS
<1>1. (b + n) - b = n /\ \A i \in 1..n : b + i - 1 \in Offsets
  BY FileOK
<1> DEFINE texts == [o \in Offsets |-> TextAt(fileEdits, o)]
           removed == UNION {k..EndOf(fileEdits, k) - 1 : k \in DOMAIN fileEdits}
           s == [i \in 1..(b + n) - b |->
                   LET o == b + i - 1
                   IN texts[o] \o (IF o \in removed THEN <<>> ELSE <<Original[o + 1]>>)]
           t == [i \in 1..(b + n) - b |-> Piece(fileEdits, b + i - 1)]
<1>2. s = t
  <2>1. removed = RemovedBy(fileEdits)
    BY DEF RemovedBy
  <2> HIDE DEF removed
  <2> QED
    BY <1>1, <2>1 DEF Piece
<1>3. Abstract!TextOf(b, b + n) = Abstract!FlattenSeq(s)
  BY DEF Abstract!TextOf
<1>4. Abstract!FlattenSeq(s) = FlattenSeq(s)
  <2> HIDE DEF s
  <2> QED
    BY DEF Abstract!FlattenSeq, FlattenSeq
<1>5. PieceText(fileEdits, b, b + n) = FlattenSeq(t)
  BY DEF PieceText
<1> HIDE DEF s, t
<1> QED
  BY <1>2, <1>3, <1>4, <1>5

(* An insertion is one into the text, and one of nothing leaves it.         *)
LEMMA InsertsText ==
  ASSUME IInv, NEW o \in Offsets, NEW str \in Seq(Char), NEW beforePrev,
         CanInsertInOffset(fileEdits, o),
         fileEdits' = IF str = <<>> THEN fileEdits
                      ELSE CommitInsert(fileEdits, o, str, beforePrev)
  PROVE  Abstract!InsertText(o, str, beforePrev)
<1> DEFINE new == IF beforePrev THEN str \o TextAt(fileEdits, o) ELSE TextAt(fileEdits, o) \o str
<1>1. FileEdits(fileEdits) /\ Disjoint(fileEdits)
  BY DEF IInv
<1>2. o \notin InsideOf(fileEdits)
  <2>1. \A k \in DOMAIN fileEdits : k \in Nat /\ o \in Nat
    BY <1>1, FileOK DEF FileEdits
  <2>2. ~\E k \in DOMAIN fileEdits : k < o /\ o < EndOf(fileEdits, k)
    BY <2>1 DEF CanInsertInOffset, ActionForOffset
  <2> QED
    BY <1>1, <2>2, SetsOf
<1>3. /\ RemovedBy(fileEdits') = RemovedBy(fileEdits)
      /\ InsideOf(fileEdits') = InsideOf(fileEdits)
      /\ \A p : TextAt(fileEdits', p) = IF p = o THEN new ELSE TextAt(fileEdits, p)
  <2>1. CASE str = <<>>
    <3>1. TextAt(fileEdits, o) \in Seq(Char)
      BY <1>1, EmptySeq DEF TextAt, FileEdits
    <3>2. new = TextAt(fileEdits, o)
      BY <2>1, <3>1, ConcatEmptySeq
    <3> HIDE DEF new
    <3> QED
      BY <2>1, <3>2
  <2>2. CASE str # <<>>
    BY <1>1, <2>2, InsertMeans
  <2> QED
    BY <2>1, <2>2
<1> DEFINE texts == [p \in Offsets |-> TextAt(fileEdits, p)]
           textsNext == [p \in Offsets |-> TextAt(fileEdits', p)]
<1>4. textsNext = [texts EXCEPT ![o] = IF beforePrev THEN str \o @ ELSE @ \o str]
  <2>1. texts[o] = TextAt(fileEdits, o)
    OBVIOUS
  <2>2. textsNext = [texts EXCEPT ![o] = new]
    <3> HIDE DEF new
    <3> QED
      BY <1>3
  <2> QED
    BY <2>1, <2>2
<1> QED
  BY <1>2, <1>3, <1>4 DEF Abstract!InsertText, RemovedBy, InsideOf

(* An edit of a commit is the step of the text that its call describes.     *)
LEMMA CommitsText == IInv /\ [Next]_vars => [Commits]_vars
<1>1. SUFFICES ASSUME IInv, Next, committing, edits # <<>>
               PROVE  LET e == Head(edits) IN
                      IF e.kind # "Remove" /\ ~Writable(e) THEN UNCHANGED fileEdits
                      ELSE CommittingEdit(e)
  BY DEF Commits
<1> DEFINE e == Head(edits)
<1>2. CommitEdit
  BY <1>1 DEF Next, Insert, InsertFromRange, InsertWrap, RemoveRange, Replace, ReplaceWithInner,
              NoPlace, Calling, CommitFails, BeginCommit, EndCommit, ClearRewrites
<1>3. FileEdits(fileEdits) /\ Disjoint(fileEdits) /\ Collected(fileEdits, edits)
  BY <1>1 DEF IInv
<1>4. e \in Edit /\ (e.kind # "Remove" => CanInsertInOffset(fileEdits, e.at))
  <2>1. edits \in Seq(Edit) /\ Len(edits) \in Nat \ {0}
    BY <1>1, <1>3, EmptySeq DEF Collected
  <2>2. 1 \in DOMAIN edits /\ e = edits[1] /\ e \in Edit
    BY <2>1, LenProperties, ElementOfSeq
  <2> QED
    BY <1>3, <2>2 DEF Collected, Checked
<1>5. \/ e.kind = "Remove" /\ fileEdits' = CommitRemove(fileEdits, e.at, e.len)
      \/ /\ e.kind # "Remove"
         /\ fileEdits' = IF CanInsertInOffset(fileEdits, e.at) /\ Writable(e)
                                /\ TextToInsert(e) # <<>>
                         THEN CommitInsert(fileEdits, e.at, TextToInsert(e), e.beforePrev)
                         ELSE fileEdits
  BY <1>2 DEF CommitEdit
<1> HIDE DEF e
<1>6. /\ e.kind \in {"Insert", "InsertFromRange", "Remove"} /\ e.at \in Offsets
      /\ e.kind = "Insert" => e.text \in Seq(Char) /\ e.text # <<>>
      /\ e.kind = "InsertFromRange" =>
           e.from \in Offsets /\ e.len \in Nat /\ e.from + e.len \in Offsets
      /\ e.kind = "Remove" => e.len \in Nat \ {0} /\ e.at + e.len \in Offsets
  BY <1>4, EditKinds
<1>7. CASE e.kind = "Remove"
  <2> DEFINE in == e.at + 1..e.at + e.len - 1
  <2>1. /\ RemovedBy(fileEdits') = RemovedBy(fileEdits) \cup e.at..e.at + e.len - 1
        /\ InsideOf(fileEdits') = InsideOf(fileEdits) \cup in
        /\ \A p \in Offsets : TextAt(fileEdits', p) = IF p \in in THEN <<>>
                                                       ELSE TextAt(fileEdits, p)
    BY <1>3, <1>5, <1>6, <1>7, RemoveMeans
  <2>2. Offsets = 0..Abstract!Size
    BY DEF Offsets, Size, Abstract!Size
  <2>3. Abstract!RemoveStretch(e.at, e.len)
    BY <2>1, <2>2 DEF Abstract!RemoveStretch, RemovedBy, InsideOf
  <2> QED
    BY <1>7, <2>3 DEF CommittingEdit, e
<1>8. CASE e.kind # "Remove" /\ ~Writable(e)
  BY <1>5, <1>8 DEF e
<1>9. CASE e.kind # "Remove" /\ Writable(e)
  <2>1. TextToInsert(e) \in Seq(Char)
    BY <1>3, <1>6, <1>9, EditedRangeTyped DEF TextToInsert
  <2>2. Abstract!InsertText(e.at, TextToInsert(e), e.beforePrev)
    <3>1. fileEdits' = IF TextToInsert(e) = <<>> THEN fileEdits
                       ELSE CommitInsert(fileEdits, e.at, TextToInsert(e), e.beforePrev)
      BY <1>4, <1>5, <1>9
    <3> QED
      BY <1>1, <1>4, <1>6, <1>9, <2>1, <3>1, InsertsText
  <2>3. CASE e.kind = "Insert"
    BY <1>9, <2>2, <2>3 DEF TextToInsert, CommittingEdit, e
  <2>4. CASE e.kind = "InsertFromRange"
    <3>1. TextToInsert(e) = Abstract!TextOf(e.from, e.from + e.len)
      BY <1>3, <1>6, <2>4, RangeText, AbstractRange DEF TextToInsert
    <3>2. Abstract!CopyText(e.at, e.from, e.len, e.beforePrev)
      BY <2>2, <3>1 DEF Abstract!CopyText
    <3> QED
      BY <1>9, <2>4, <3>2 DEF CommittingEdit, e
  <2> QED
    BY <1>6, <1>9, <2>3, <2>4
<1> QED
  BY <1>7, <1>8, <1>9

-----------------------------------------------------------------------------
(* The rewrites that a receiver gets                                        *)

(* A rewrite, one with where its first edit ends, and what the rewrites so far
   have made of the source.                                                 *)
Change == [at : Offsets, len : Nat, text : Seq(Char)]
Entry == [end : Nat, r : Change]
Made == [at : Nat, text : Seq(Char)]

(* The names in Rewrites and Rewritten.                                     *)
StepOf(fe, acc, o) ==
  IF acc # <<>> /\ Last(acc).end = o
  THEN Append(Front(acc), [Last(acc) EXCEPT !.r = Joined(@, fe[o])])
  ELSE Append(acc, [end |-> EndOf(fe, o), r |-> Rewrite(o, fe[o].removeLen, fe[o].text)])
ChangesOf(acc) == [i \in DOMAIN acc |-> acc[i].r]
Put(a, r) == [at |-> r.at + r.len, text |-> a.text \o Source(a.at, r.at) \o r.text]
PutAll(rs) ==
  LET put[i \in 0..Len(rs)] == IF i = 0 THEN [at |-> 0, text |-> <<>>]
                               ELSE Put(put[i - 1], rs[i])
  IN put[Len(rs)]

(* What an entry becomes when an edit is joined to it.                      *)
LEMMA JoinedEntry ==
  ASSUME NEW x \in Entry, NEW e, e.removeLen \in Nat, e.text \in Seq(Char)
  PROVE  LET y == [x EXCEPT !.r = Joined(@, e)]
         IN /\ y \in Entry /\ y.end = x.end /\ y.r.at = x.r.at
            /\ y.r.len = x.r.len + e.removeLen /\ y.r.text = x.r.text \o e.text
<1> DEFINE r == x.r
           j == Joined(r, e)
           y == [x EXCEPT !.r = j]
<1>1. x.end \in Nat /\ r \in Change
  BY DEF Entry
<1>2. r.at \in Offsets /\ r.len \in Nat /\ r.text \in Seq(Char)
  BY <1>1 DEF Change
<1>3. r.text \o e.text \in Seq(Char)
  BY <1>2, JoinTyped
<1>4. /\ j \in Change /\ j.at = r.at /\ j.len = r.len + e.removeLen
      /\ j.text = r.text \o e.text
  <2> HIDE DEF r
  <2>1. j = [[r EXCEPT !.len = r.len + e.removeLen] EXCEPT !.text = r.text \o e.text]
    BY <1>1 DEF Joined, Change
  <2>2. [r EXCEPT !.len = r.len + e.removeLen]
          = [at |-> r.at, len |-> r.len + e.removeLen, text |-> r.text]
    BY <1>1 DEF Change
  <2>3. j = [at |-> r.at, len |-> r.len + e.removeLen, text |-> r.text \o e.text]
    BY <2>1, <2>2
  <2> DEFINE v == r.text \o e.text
             m == r.len + e.removeLen
  <2>4. j = [at |-> r.at, len |-> m, text |-> v] /\ v \in Seq(Char) /\ m \in Nat
    BY <1>2, <1>3, <2>3
  <2> HIDE DEF j, v, m
  <2>5. j \in Change /\ j.at = r.at /\ j.len = m /\ j.text = v
    BY <1>2, <2>4 DEF Change
  <2>6. QED
    BY <2>5 DEF v, m
<1> HIDE DEF j
<1>5. y.r = j /\ y.end = x.end /\ y \in Entry
  BY <1>1, <1>4 DEF Entry
<1>6. y = [x EXCEPT !.r = Joined(@, e)]
  BY DEF j, r
<1> HIDE DEF y
<1>7. QED
  BY <1>4, <1>5, <1>6 DEF r

(* The front of a sequence, element by element.                              *)
LEMMA FrontFields ==
  ASSUME NEW S, NEW s \in Seq(S), s # <<>>
  PROVE  /\ Front(s) \in Seq(S) /\ Len(Front(s)) = Len(s) - 1
         /\ \A i \in 1..Len(s) - 1 : Front(s)[i] = s[i]
         /\ Len(s) \in Nat /\ Len(s) >= 1 /\ Last(s) \in S
<1>1. Len(s) \in Nat /\ Len(s) >= 1 /\ Last(s) \in S
  BY DEF Last
<1>2. \A i \in 1..Len(s) - 1 : s[i] \in S
  BY <1>1
<1>3. ASSUME NEW n \in Nat, n <= Len(s), \A i \in 1..n : s[i] \in S
      PROVE  /\ SubSeq(s, 1, n) \in Seq(S) /\ Len(SubSeq(s, 1, n)) = n
             /\ \A i \in 1..n : SubSeq(s, 1, n)[i] = s[i]
  <2>1. /\ SubSeq(s, 1, n) \in Seq(S)
        /\ Len(SubSeq(s, 1, n)) = IF 1 <= n THEN n - 1 + 1 ELSE 0
        /\ \A i \in 1..n - 1 + 1 : SubSeq(s, 1, n)[i] = s[1 + i - 1]
    BY <1>3, SubSeqProperties
  <2>2. n - 1 + 1 = n /\ (IF 1 <= n THEN n - 1 + 1 ELSE 0) = n
    BY <1>3
  <2>3. \A i \in 1..n : 1 + i - 1 = i
    OBVIOUS
  <2>4. QED
    BY <2>1, <2>2, <2>3
<1>4. Len(s) - 1 \in Nat /\ Len(s) - 1 <= Len(s)
  BY <1>1
<1>5. QED
  BY <1>1, <1>2, <1>3, <1>4 DEF Front

(* A sequence that is not empty has a front and a last element.             *)
LEMMA FrontLast ==
  ASSUME NEW T, NEW s \in Seq(T), s # <<>>
  PROVE  s = Append(Front(s), Last(s)) /\ Front(s) \in Seq(T) /\ Last(s) \in T
<1>1. Len(s) \in Nat /\ Len(s) # 0
  BY LenProperties, EmptySeq
<1>2. Front(s) = SubSeq(s, 1, Len(s) - 1) /\ Last(s) = s[Len(s)]
  BY DEF Front, Last
<1>3. Last(s) \in T
  BY <1>1, <1>2, ElementOfSeq
<1>4. /\ Front(s) \in Seq(T) /\ Len(Front(s)) = Len(s) - 1
      /\ \A i \in 1..Len(s) - 1 : Front(s)[i] = s[i]
  BY FrontFields
<1>5. s = Append(Front(s), Last(s))
  <2> DEFINE t == Append(Front(s), Last(s))
             n == Len(s)
  <2>1. /\ t \in Seq(T) /\ Len(t) = n /\ t[n] = s[n]
        /\ \A i \in 1..n - 1 : t[i] = s[i]
    BY <1>1, <1>2, <1>3, <1>4, AppendProperties
  <2>2. n \in Nat
    BY <1>1
  <2> HIDE DEF t
  <2>3. \A i \in 1..Len(s) : t[i] = s[i]
    <3> HIDE DEF n
    <3>1. \A i \in 1..n : i = n \/ i \in 1..n - 1
      BY <2>2
    <3>2. \A i \in 1..n : t[i] = s[i]
      BY <2>1, <3>1
    <3>3. QED
      BY <3>2 DEF n
  <2>4. s = t
    BY <2>1, <2>3, SeqEqual
  <2>5. QED
    BY <2>4 DEF t
<1>6. QED
  BY <1>3, <1>4, <1>5

(* A step makes entries of entries.                                         *)
LEMMA StepTyped ==
  ASSUME NEW fe, FileEdits(fe), NEW acc \in Seq(Entry), NEW o \in DOMAIN fe
  PROVE  StepOf(fe, acc, o) \in Seq(Entry)
<1>1. /\ o \in Offsets /\ fe[o].removeLen \in Nat /\ fe[o].text \in Seq(Char)
      /\ EndOf(fe, o) \in Nat
  BY FileOK DEF FileEdits
<1>2. CASE acc # <<>> /\ Last(acc).end = o
  <2> DEFINE x == Last(acc)
             y == [x EXCEPT !.r = Joined(@, fe[o])]
  <2>1. Front(acc) \in Seq(Entry) /\ x \in Entry
    BY <1>2, FrontLast
  <2>2. StepOf(fe, acc, o) = Append(Front(acc), y)
    BY <1>2 DEF StepOf
  <2> HIDE DEF x
  <2>3. y \in Entry
    BY <1>1, <2>1, JoinedEntry
  <2> HIDE DEF y
  <2>4. QED
    BY <2>1, <2>2, <2>3, AppendProperties
<1>3. CASE ~(acc # <<>> /\ Last(acc).end = o)
  <2> DEFINE y == [end |-> EndOf(fe, o), r |-> Rewrite(o, fe[o].removeLen, fe[o].text)]
  <2>1. StepOf(fe, acc, o) = Append(acc, y)
    BY <1>3 DEF StepOf
  <2>2. y \in Entry
    BY <1>1 DEF Entry, Change, Rewrite
  <2> HIDE DEF y
  <2>3. QED
    BY <2>1, <2>2, AppendProperties
<1>4. QED
  BY <1>2, <1>3

(* The function that Rewrites is defined by: what there is after each offset. *)
LEMMA RewritesSteps ==
  ASSUME NEW fe, FileEdits(fe)
  PROVE  \E s : /\ s[0] = <<>>
                /\ \A o \in 0..Size : s[o + 1] = IF o \in DOMAIN fe THEN StepOf(fe, s[o], o) ELSE s[o]
                /\ \A i \in 0..Size + 1 : s[i] \in Seq(Entry)
                /\ Rewrites(fe) = ChangesOf(s[Size + 1])
<1> DEFINE N == Size + 1
           E == Seq(Entry)
           next(a, i) == IF i - 1 \in DOMAIN fe THEN StepOf(fe, a, i - 1) ELSE a
           G == [i \in 1..N |-> [a \in E |-> next(a, i)]]
           Computes(f) == f = [o \in 0..N |-> IF o = 0 THEN <<>> ELSE
                                 IF o - 1 \in DOMAIN fe THEN StepOf(fe, f[o - 1], o - 1)
                                 ELSE f[o - 1]]
           upTo == CHOOSE f : Computes(f)
<1>1. Rewrites(fe) = ChangesOf(upTo[N])
  BY DEF Rewrites, StepOf, ChangesOf
<1>2. N \in Nat /\ <<>> \in E
  BY FileOK, EmptySeq
<1>3. \A i \in 1..N, a \in E : next(a, i) \in E
  BY StepTyped
<1> HIDE DEF next, N, E
<1>4. G \in [1..N -> [E -> E]] /\ \A i \in 1..N, a \in E : G[i][a] = next(a, i)
  BY <1>3
<1> HIDE DEF G
<1>5. PICK f \in [0..N -> E] : f[0] = <<>> /\ \A i \in 1..N : f[i] = G[i][f[i - 1]]
  <2>1. Advances(G, N, E)
    BY <1>4 DEF Advances
  <2> HIDE DEF Computes, upTo
  <2>2. \E f : Computed(f, G, N, E, <<>>)
    BY <1>2, <2>1, Recursion
  <2> QED
    BY <2>2 DEF Computed
<1>6. Computes(f)
  <2>1. \A i \in 1..N : f[i] = next(f[i - 1], i)
    BY <1>2, <1>4, <1>5
  <2> QED
    BY <1>2, <1>5, <2>1 DEF next
<1>7. Computes(upTo)
  <2> HIDE DEF Computes
  <2> QED
    BY <1>6
<1>8. upTo[0] = <<>> /\ \A i \in 1..N : upTo[i] = next(upTo[i - 1], i)
  <2> HIDE DEF upTo
  <2>1. \A o \in 0..N : upTo[o] = IF o = 0 THEN <<>> ELSE
                          IF o - 1 \in DOMAIN fe THEN StepOf(fe, upTo[o - 1], o - 1)
                          ELSE upTo[o - 1]
    BY <1>7
  <2> QED
    BY <1>2, <2>1 DEF next
<1> HIDE DEF upTo
<1>9. \A i \in 0..N : upTo[i] \in E
  <2>1. \A i \in 1..N : upTo[i - 1] \in E => upTo[i] \in E
    BY <1>3, <1>8
  <2> QED
    BY <1>2, <1>8, <2>1, RecursionTyped
<1>10. \A o \in 0..Size : upTo[o + 1] = IF o \in DOMAIN fe THEN StepOf(fe, upTo[o], o) ELSE upTo[o]
  <2>1. TAKE o \in 0..Size
  <2>2. o + 1 \in 1..N /\ (o + 1) - 1 = o
    BY FileOK DEF N
  <2> QED
    BY <1>8, <2>2 DEF next
<1> QED
  BY <1>1, <1>8, <1>9, <1>10 DEF N, E

(* A piece of the file that begins at any number is text.                   *)
LEMMA SourceTyped ==
  ASSUME NEW i \in Nat, NEW j \in Offsets
  PROVE  Source(i, j) \in Seq(Char)
<1>1. i + 1 \in Int /\ j \in Int /\ i + 1 >= 1 /\ j <= Len(Original) /\ Len(Original) \in Nat
  BY FileOK DEF Size
<1>2. \A k \in i + 1 .. j : Original[k] \in Char
  BY <1>1, FileOK, ElementOfSeq
<1> QED
  BY <1>1, <1>2, SubSeqProperties DEF Source

(* One rewrite more.                                                        *)
LEMMA PutTyped ==
  ASSUME NEW a \in Made, NEW r \in Change
  PROVE  Put(a, r) \in Made
<1>1. a.at \in Nat /\ a.text \in Seq(Char) /\ r.at \in Offsets /\ r.len \in Nat /\ r.text \in Seq(Char)
  BY DEF Made, Change
<1>2. r.at + r.len \in Nat
  BY <1>1, FileOK
<1>3. a.text \o Source(a.at, r.at) \o r.text \in Seq(Char)
  <2>1. Source(a.at, r.at) \in Seq(Char)
    BY <1>1, SourceTyped
  <2> QED
    BY <1>1, <2>1, JoinTyped
<1> QED
  BY <1>2, <1>3 DEF Put, Made

(* The function that Rewritten is defined by.                               *)
Puts(rs, p) ==
  /\ p[0] = [at |-> 0, text |-> <<>>]
  /\ \A i \in 1..Len(rs) : p[i] = Put(p[i - 1], rs[i])
  /\ \A i \in 0..Len(rs) : p[i] \in Made

(* It is there.                                                             *)
LEMMA PutSteps ==
  ASSUME NEW rs \in Seq(Change)
  PROVE  \E p : Puts(rs, p) /\ PutAll(rs) = p[Len(rs)]
<1> DEFINE N == Len(rs)
           base == [at |-> 0, text |-> <<>>]
           G == [i \in 1..N |-> [a \in Made |-> Put(a, rs[i])]]
           Computes(f) == f = [i \in 0..N |-> IF i = 0 THEN base ELSE Put(f[i - 1], rs[i])]
           put == CHOOSE f : Computes(f)
<1>1. PutAll(rs) = put[N]
  BY DEF PutAll
<1>2. N \in Nat /\ base \in Made /\ \A i \in 1..N : rs[i] \in Change
  BY LenProperties, ElementOfSeq, EmptySeq DEF Made
<1>3. \A i \in 1..N, a \in Made : Put(a, rs[i]) \in Made
  BY <1>2, PutTyped
<1> HIDE DEF N, base
<1>4. G \in [1..N -> [Made -> Made]] /\ \A i \in 1..N, a \in Made : G[i][a] = Put(a, rs[i])
  BY <1>3
<1> HIDE DEF G
<1>5. PICK f \in [0..N -> Made] : f[0] = base /\ \A i \in 1..N : f[i] = G[i][f[i - 1]]
  <2>1. Advances(G, N, Made)
    BY <1>4 DEF Advances
  <2> HIDE DEF Computes, put
  <2>2. \E f : Computed(f, G, N, Made, base)
    BY <1>2, <2>1, Recursion
  <2> QED
    BY <2>2 DEF Computed
<1>6. Computes(f)
  <2>1. \A i \in 1..N : f[i] = Put(f[i - 1], rs[i])
    BY <1>2, <1>4, <1>5
  <2> QED
    BY <1>2, <1>5, <2>1
<1>7. Computes(put)
  <2> HIDE DEF Computes
  <2> QED
    BY <1>6
<1>8. put[0] = base /\ \A i \in 1..N : put[i] = Put(put[i - 1], rs[i])
  <2> HIDE DEF put
  <2>1. \A i \in 0..N : put[i] = IF i = 0 THEN base ELSE Put(put[i - 1], rs[i])
    BY <1>7
  <2> QED
    BY <1>2, <2>1
<1> HIDE DEF put
<1>9. \A i \in 0..N : put[i] \in Made
  <2>1. \A i \in 1..N : put[i - 1] \in Made => put[i] \in Made
    BY <1>3, <1>8
  <2> QED
    BY <1>2, <1>8, <2>1, RecursionTyped
<1>10. Puts(rs, put)
  BY <1>8, <1>9 DEF Puts, N, base
<1> QED
  BY <1>1, <1>10 DEF N

(* What rewrites make, with one more at the end.                            *)
LEMMA PutMore ==
  /\ PutAll(<<>>) = [at |-> 0, text |-> <<>>]
  /\ \A rs \in Seq(Change), r \in Change :
       /\ PutAll(rs) \in Made
       /\ PutAll(Append(rs, r)) = Put(PutAll(rs), r)
<1>1. PutAll(<<>>) = [at |-> 0, text |-> <<>>]
  <2> DEFINE e == <<>>
  <2>1. e \in Seq(Change) /\ Len(e) = 0
    BY EmptySeq
  <2> HIDE DEF e
  <2>2. PICK p : Puts(e, p) /\ PutAll(e) = p[Len(e)]
    BY <2>1, PutSteps
  <2>3. PutAll(e) = [at |-> 0, text |-> <<>>]
    BY <2>1, <2>2 DEF Puts
  <2> QED
    BY <2>3 DEF e
<1>2. ASSUME NEW rs \in Seq(Change), NEW r \in Change
      PROVE  PutAll(rs) \in Made /\ PutAll(Append(rs, r)) = Put(PutAll(rs), r)
  <2> DEFINE t == Append(rs, r)
             n == Len(rs)
  <2>1. /\ t \in Seq(Change) /\ Len(t) = n + 1 /\ n \in Nat /\ t[n + 1] = r
        /\ \A i \in 1..n : t[i] = rs[i]
    BY AppendProperties, LenProperties
  <2>2. PICK p : Puts(rs, p) /\ PutAll(rs) = p[Len(rs)]
    BY PutSteps
  <2> HIDE DEF t
  <2>3. PICK q : Puts(t, q) /\ PutAll(t) = q[Len(t)]
    BY <2>1, PutSteps
  <2>4. /\ p[0] = q[0] /\ \A i \in 1..n : p[i] = Put(p[i - 1], rs[i])
        /\ \A i \in 1..n + 1 : q[i] = Put(q[i - 1], t[i])
        /\ PutAll(rs) = p[n] /\ PutAll(t) = q[n + 1]
        /\ \A i \in 0..n : p[i] \in Made
    BY <2>1, <2>2, <2>3 DEF Puts
  <2> HIDE DEF n
  <2> DEFINE Same == {i \in Nat : p[i] = q[i]}
  <2>5. \A i \in 0..n - 1 : i \in Same => i + 1 \in Same
    <3>1. ASSUME NEW i \in 0..n - 1, p[i] = q[i] PROVE p[i + 1] = q[i + 1] /\ i + 1 \in Nat
      <4>1. i + 1 \in 1..n /\ i + 1 \in 1..n + 1 /\ (i + 1) - 1 = i
        BY <2>1
      <4>2. p[i + 1] = Put(p[i], rs[i + 1]) /\ q[i + 1] = Put(q[i], t[i + 1])
        BY <2>4, <4>1
      <4> QED
        BY <2>1, <3>1, <4>1, <4>2
    <3> QED
      BY <3>1
  <2>6. 0 \in Same
    BY <2>4
  <2> HIDE DEF Same
  <2>7. 0..n \subseteq Same
    BY <2>1, <2>5, <2>6, Reaches
  <2>8. n \in 0..n /\ n + 1 \in 1..n + 1 /\ (n + 1) - 1 = n
    BY <2>1
  <2>9. p[n] = q[n] /\ p[n] \in Made
    BY <2>4, <2>7, <2>8 DEF Same
  <2>10. q[n + 1] = Put(q[n], r)
    BY <2>1, <2>4, <2>8
  <2> QED
    BY <2>4, <2>9, <2>10 DEF t
<1> QED
  BY <1>1, <1>2

(* The piece of the file that ends where it begins.                         *)
LEMMA SourceNone ==
  \A o \in Offsets : Source(o, o) = <<>>
<1>1. TAKE o \in Offsets
<1>2. o \in Nat
  BY FileOK
<1>3. o <= o
  BY <1>2
<1> QED
  BY <1>3, PieceGrows

(* All edits passed in order, one at the end of the file too.                *)
PassesAll(fe, h) ==
  /\ h[0] = [text |-> <<>>, at |-> 0]
  /\ \A o \in 0..Size : h[o + 1] = IF o \in DOMAIN fe THEN Pass(fe, h[o], o) ELSE h[o]
  /\ \A o \in 0..Size + 1 : h[o] \in Acc

(* That makes the text of the file and what is inserted at its end.          *)
LEMMA AllPassed ==
  ASSUME NEW fe, FileEdits(fe), Disjoint(fe)
  PROVE  \E h : /\ PassesAll(fe, h)
                /\ h[Size + 1].text \o Source(h[Size + 1].at, Size)
                     = PieceText(fe, 0, Size) \o TextAt(fe, Size)
<1>1. /\ Offsets = 0..Size /\ Size \in Nat /\ DOMAIN fe \subseteq Offsets
      /\ 0 \in Offsets /\ Size \in Offsets /\ 0 + Size = Size
  BY FileOK DEF FileEdits
<1>2. PICK f : /\ Passes(fe, 0, Size, f)
               /\ EditedRange(fe, 0, Size) = f[Size + 1].text \o Source(f[Size + 1].at, Size)
  <2>1. 0 \in Offsets /\ Size \in Nat /\ 0 + Size \in Offsets
    BY <1>1
  <2>2. \E f : /\ Passes(fe, 0, Size, f)
               /\ EditedRange(fe, 0, Size) = f[Size + 1].text \o Source(f[Size + 1].at, 0 + Size)
    BY <2>1, EditedRangePasses
  <2> QED
    BY <1>1, <2>2
<1>3. EditedRange(fe, 0, Size) = PieceText(fe, 0, Size)
  BY <1>1, RangeText
<1>4. \A o \in 0..Size : o \in Passed(fe, 0, Size) <=> o \in DOMAIN fe /\ o < Size
  <2>1. Passed(fe, 0, Size) = {k \in DOMAIN fe : 0 <= k /\ k < 0 + Size}
    BY <1>1, PassedBetween
  <2> QED
    BY <1>1, <2>1
<1>5. StartsAt(fe, 0) = 0
  <2>1. Reaching(fe, 0) # {} => Min(Reaching(fe, 0)) \in Nat
    BY <1>1, StartTyped
  <2> QED
    BY <2>1 DEF StartsAt, Skips
<1>6. f[0] = [text |-> <<>>, at |-> 0] /\ \A i \in 0..Size + 1 : f[i] \in Acc
  BY <1>2, <1>5 DEF Passes
<1>7. \A o \in 0..Size : f[o + 1] = IF o \in Passed(fe, 0, Size) THEN Pass(fe, f[o], o) ELSE f[o]
  <2>1. TAKE o \in 0..Size
  <2>2. o + 1 \in 1..Size + 1 /\ (o + 1) - 1 = o
    BY <1>1
  <2> QED
    BY <1>2, <2>2 DEF Passes
<1>8. f[Size + 1] = f[Size]
  <2>1. Size \in 0..Size /\ ~(Size < Size)
    BY <1>1
  <2> QED
    BY <1>4, <1>7, <2>1
<1> DEFINE end == IF Size \in DOMAIN fe THEN Pass(fe, f[Size], Size) ELSE f[Size]
           h == [o \in 0..Size + 1 |-> IF o = Size + 1 THEN end ELSE f[o]]
           t == TextAt(fe, Size)
           w == f[Size].text
           src == Source(f[Size].at, Size)
<1>9. \A o \in 0..Size : h[o] = f[o] /\ o \in 0..Size + 1
  BY <1>1
<1>10. h[Size + 1] = end
  BY <1>1
<1>11. /\ f[Size] \in Acc /\ w \in Seq(Char) /\ src \in Seq(Char) /\ t \in Seq(Char)
  <2>1. f[Size] \in Acc /\ w \in Seq(Char) /\ f[Size].at \in Offsets
    BY <1>1, <1>6 DEF Acc
  <2>2. src \in Seq(Char)
    BY <1>1, <2>1, PieceGrows
  <2>3. t \in Seq(Char)
    BY EmptySeq DEF TextAt, FileEdits
  <2> QED
    BY <2>1, <2>2, <2>3
<1>12. w \o src = PieceText(fe, 0, Size)
  BY <1>2, <1>3, <1>8
<1>13. CASE Size \in DOMAIN fe
  <2>1. EndOf(fe, Size) = Size
    <3>1. EndOf(fe, Size) \in 0..Size /\ fe[Size].removeLen \in Nat
      BY <1>1, <1>13 DEF FileEdits
    <3> QED
      BY <1>1, <3>1 DEF EndOf
  <2>2. end = [text |-> (w \o src) \o t, at |-> Size]
    BY <1>13, <2>1 DEF Pass, TextAt
  <2> DEFINE v == w \o src
  <2>3. v \in Seq(Char) /\ v \o t \in Seq(Char)
    BY <1>11, JoinTyped
  <2>4. end = [text |-> v \o t, at |-> Size]
    BY <2>2
  <2> HIDE DEF end, h, t, w, src, v
  <2>5. end \in Acc /\ end.text = v \o t /\ end.at = Size
    BY <1>1, <2>3, <2>4 DEF Acc
  <2>6. Source(Size, Size) = <<>>
    <3>1. Size \in Offsets
      BY <1>1
    <3> QED
      BY <3>1, SourceNone
  <2>7. (v \o t) \o <<>> = v \o t
    BY <2>3, ConcatEmptySeq
  <2>8. end.text \o Source(end.at, Size) = PieceText(fe, 0, Size) \o t
    BY <1>12, <2>5, <2>6, <2>7 DEF v
  <2>9. PassesAll(fe, h)
    <3>1. \A o \in 0..Size + 1 : o \in 0..Size \/ o = Size + 1
      BY <1>1
    <3>2. \A o \in 0..Size : h[o + 1] = IF o \in DOMAIN fe THEN Pass(fe, h[o], o) ELSE h[o]
      <4>1. ASSUME NEW o \in 0..Size, o < Size
            PROVE  h[o + 1] = IF o \in DOMAIN fe THEN Pass(fe, h[o], o) ELSE h[o]
        <5>1. o + 1 \in 0..Size
          BY <1>1, <4>1
        <5> QED
          BY <1>4, <1>7, <1>9, <4>1, <5>1
      <4>2. h[Size + 1] = Pass(fe, h[Size], Size)
        <5>1. h[Size] = f[Size]
          BY <1>1, <1>9
        <5> QED
          BY <1>10, <1>13, <5>1 DEF end
      <4>3. \A o \in 0..Size : o < Size \/ o = Size
        BY <1>1
      <4> QED
        BY <1>13, <4>1, <4>2, <4>3
    <3>3. 0 \in 0..Size
      BY <1>1
    <3> QED
      BY <1>6, <1>9, <1>10, <2>5, <3>1, <3>2, <3>3 DEF PassesAll
  <2> QED
    BY <1>10, <2>8, <2>9 DEF t
<1>14. CASE Size \notin DOMAIN fe
  <2>1. t = <<>> /\ end = f[Size]
    BY <1>14 DEF TextAt
  <2> DEFINE v == w \o src
  <2>2. v \in Seq(Char)
    BY <1>11, JoinTyped
  <2>3. end.text \o Source(end.at, Size) = v
    BY <2>1
  <2> HIDE DEF end, h, t, w, src, v
  <2>4. v \o <<>> = v
    BY <2>2, ConcatEmptySeq
  <2>5. end.text \o Source(end.at, Size) = PieceText(fe, 0, Size) \o t
    BY <1>12, <2>1, <2>3, <2>4 DEF v
  <2>6. PassesAll(fe, h)
    <3>1. \A o \in 0..Size + 1 : o \in 0..Size \/ o = Size + 1
      BY <1>1
    <3>2. \A o \in 0..Size : h[o + 1] = IF o \in DOMAIN fe THEN Pass(fe, h[o], o) ELSE h[o]
      <4>1. ASSUME NEW o \in 0..Size, o < Size
            PROVE  h[o + 1] = IF o \in DOMAIN fe THEN Pass(fe, h[o], o) ELSE h[o]
        <5>1. o + 1 \in 0..Size
          BY <1>1, <4>1
        <5> QED
          BY <1>4, <1>7, <1>9, <4>1, <5>1
      <4>2. h[Size + 1] = h[Size]
        <5>1. h[Size] = f[Size]
          BY <1>1, <1>9
        <5> QED
          BY <1>10, <2>1, <5>1
      <4>3. \A o \in 0..Size : o < Size \/ o = Size
        BY <1>1
      <4> QED
        BY <1>14, <4>1, <4>2, <4>3
    <3>3. 0 \in 0..Size
      BY <1>1
    <3> QED
      BY <1>6, <1>9, <1>10, <1>11, <2>1, <3>1, <3>2, <3>3 DEF PassesAll
  <2> QED
    BY <1>10, <2>5, <2>6 DEF t
<1> QED
  BY <1>13, <1>14

(* Changes that are apart from each other, in order.                        *)
Apart(rs) == \A i \in 1..Len(rs) - 1 : rs[i].at + rs[i].len <= rs[i + 1].at

(* Entries as changes, with one more at the end.                             *)
LEMMA ChangesMore ==
  /\ ChangesOf(<<>>) = <<>>
  /\ \A a \in Seq(Entry), x \in Entry :
       /\ ChangesOf(a) \in Seq(Change) /\ x.r \in Change
       /\ ChangesOf(Append(a, x)) = Append(ChangesOf(a), x.r)
<1>1. ChangesOf(<<>>) = <<>>
  <2>1. DOMAIN <<>> = {}
    OBVIOUS
  <2> QED
    BY <2>1 DEF ChangesOf
<1>2. ASSUME NEW a \in Seq(Entry)
      PROVE  /\ ChangesOf(a) \in Seq(Change) /\ Len(ChangesOf(a)) = Len(a) /\ Len(a) \in Nat
             /\ \A i \in 1..Len(a) : ChangesOf(a)[i] = a[i].r
  <2>1. Len(a) \in Nat /\ DOMAIN a = 1..Len(a) /\ \A i \in 1..Len(a) : a[i] \in Entry
    BY LenProperties, ElementOfSeq
  <2>2. \A i \in 1..Len(a) : a[i].r \in Change
    BY <2>1 DEF Entry
  <2> QED
    BY <2>1, <2>2 DEF ChangesOf
<1>3. ASSUME NEW a \in Seq(Entry), NEW x \in Entry
      PROVE  x.r \in Change /\ ChangesOf(Append(a, x)) = Append(ChangesOf(a), x.r)
  <2> DEFINE b == Append(a, x)
             n == Len(a)
             c == ChangesOf(b)
             d == Append(ChangesOf(a), x.r)
  <2>1. /\ b \in Seq(Entry) /\ Len(b) = n + 1 /\ b[n + 1] = x
        /\ \A i \in 1..n : b[i] = a[i]
    BY AppendProperties
  <2>2. x.r \in Change
    BY DEF Entry
  <2> HIDE DEF b
  <2>3. c \in Seq(Change) /\ Len(c) = n + 1 /\ \A i \in 1..n + 1 : c[i] = b[i].r
    BY <1>2, <2>1
  <2>4. /\ d \in Seq(Change) /\ Len(d) = n + 1 /\ d[n + 1] = x.r /\ n \in Nat
        /\ \A i \in 1..n : d[i] = a[i].r
    BY <1>2, <2>2, AppendProperties
  <2> HIDE DEF c, d, n
  <2>5. \A i \in 1..n + 1 : c[i] = d[i]
    <3>1. \A i \in 1..n + 1 : i = n + 1 \/ i \in 1..n
      BY <2>4
    <3> QED
      BY <2>1, <2>3, <2>4, <3>1
  <2>6. c = d
    BY <2>3, <2>4, <2>5, SeqEqual
  <2> QED
    BY <2>2, <2>6 DEF b, c, d
<1> QED
  BY <1>1, <1>2, <1>3

(* Changes stay apart when the next begins where the last has ended.         *)
LEMMA ApartMore ==
  /\ Apart(<<>>)
  /\ \A a \in Seq(Change), r \in Change :
       Apart(Append(a, r))
         <=> Apart(a) /\ (a # <<>> => a[Len(a)].at + a[Len(a)].len <= r.at)
<1>1. Apart(<<>>)
  <2>1. \A i \in 1..Len(<<>>) - 1 : FALSE
    OBVIOUS
  <2> QED
    BY <2>1 DEF Apart
<1>2. ASSUME NEW a \in Seq(Change), NEW r \in Change
      PROVE  Apart(Append(a, r))
               <=> Apart(a) /\ (a # <<>> => a[Len(a)].at + a[Len(a)].len <= r.at)
  <2> DEFINE b == Append(a, r)
             n == Len(a)
  <2>1. /\ Len(b) = n + 1 /\ b[n + 1] = r /\ n \in Nat /\ \A i \in 1..n : b[i] = a[i]
    BY AppendProperties, LenProperties
  <2>2. a # <<>> <=> n # 0
    BY EmptySeq
  <2> HIDE DEF b
  <2>3. Apart(b) <=> \A i \in 1..n : b[i].at + b[i].len <= b[i + 1].at
    <3>1. (n + 1) - 1 = n
      BY <2>1
    <3> QED
      BY <2>1, <3>1 DEF Apart
  <2>4. Apart(a) <=> \A i \in 1..n - 1 : b[i].at + b[i].len <= b[i + 1].at
    <3>1. \A i \in 1..n - 1 : i \in 1..n /\ i + 1 \in 1..n
      BY <2>1
    <3> QED
      BY <2>1, <3>1 DEF Apart
  <2> HIDE DEF n
  <2>5. n # 0 => n \in 1..n /\ b[n] = a[n]
    BY <2>1
  <2>6. \A i \in 1..n : i = n \/ i \in 1..n - 1
    BY <2>1
  <2>7. \A i \in 1..n - 1 : i \in 1..n
    BY <2>1
  <2>8. Apart(b) <=> Apart(a) /\ (n # 0 => a[n].at + a[n].len <= r.at)
    BY <2>1, <2>3, <2>4, <2>5, <2>6, <2>7
  <2> QED
    BY <2>2, <2>8 DEF b, n
<1> QED
  BY <1>1, <1>2

(* The entries q that the edits below o have become: they make the text a and
   are apart; the last one has its end where the text has been passed to,
   unless that end lies below o.                                             *)
Reach(fe, q, a, o) ==
  /\ a = PutAll(ChangesOf(q)) /\ Apart(ChangesOf(q))
  /\ a.at = 0 \/ \E k \in DOMAIN fe : k < o /\ a.at = EndOf(fe, k)
  /\ q # <<>> => /\ Last(q).r.at + Last(q).r.len = a.at
                 /\ Last(q).end >= o => Last(q).end = a.at

(* The last of a sequence that an element is appended to.                    *)
LEMMA LastAppend ==
  ASSUME NEW S, NEW s \in Seq(S), NEW x \in S
  PROVE  Append(s, x) # <<>> /\ Last(Append(s, x)) = x
<1>1. /\ Len(s) \in Nat /\ Append(s, x) \in Seq(S) /\ Len(Append(s, x)) = Len(s) + 1
      /\ Append(s, x)[Len(s) + 1] = x
  BY AppendProperties, LenProperties
<1>2. Len(Append(s, x)) # 0
  BY <1>1
<1> QED
  BY <1>1, <1>2, EmptySeq DEF Last

(* Entries that are not empty, as changes: the last is that of the last.     *)
LEMMA ChangesLast ==
  ASSUME NEW q \in Seq(Entry), q # <<>>
  PROVE  /\ Front(q) \in Seq(Entry) /\ Last(q) \in Entry /\ q = Append(Front(q), Last(q))
         /\ ChangesOf(Front(q)) \in Seq(Change) /\ Last(q).r \in Change
         /\ ChangesOf(q) = Append(ChangesOf(Front(q)), Last(q).r)
<1> DEFINE f == Front(q)
           x == Last(q)
<1>1. f \in Seq(Entry) /\ x \in Entry /\ q = Append(f, x)
  BY FrontLast
<1> HIDE DEF f, x
<1>2. /\ ChangesOf(f) \in Seq(Change) /\ x.r \in Change
      /\ ChangesOf(Append(f, x)) = Append(ChangesOf(f), x.r)
  BY <1>1, ChangesMore
<1>3. ChangesOf(q) = Append(ChangesOf(f), x.r)
  BY <1>1, <1>2
<1> QED
  BY <1>1, <1>2, <1>3 DEF f, x

(* The text has not been passed beyond an edit that is still to come.        *)
LEMMA ReachBelow ==
  ASSUME NEW fe, FileEdits(fe), Disjoint(fe), NEW q, NEW a, NEW o \in DOMAIN fe,
         Reach(fe, q, a, o)
  PROVE  a.at <= o
<1>1. o \in Nat /\ 0 <= o
  BY FileOK DEF FileEdits
<1>2. a.at = 0 \/ \E k \in DOMAIN fe : k < o /\ a.at = EndOf(fe, k)
  BY DEF Reach
<1>3. ASSUME NEW k \in DOMAIN fe, k < o PROVE EndOf(fe, k) <= o
  <2>1. k \in Nat /\ EndOf(fe, k) \in Nat
    BY FileOK DEF FileEdits
  <2>2. o >= EndOf(fe, k)
    BY <1>1, <1>3, <2>1 DEF Disjoint
  <2> QED
    BY <1>1, <2>1, <2>2
<1> QED
  BY <1>1, <1>2, <1>3

(* An offset with no edit.                                                   *)
LEMMA ReachSame ==
  ASSUME NEW fe, FileEdits(fe), NEW q \in Seq(Entry), NEW a, NEW o \in Nat, Reach(fe, q, a, o)
  PROVE  Reach(fe, q, a, o + 1)
<1>1. \A k \in DOMAIN fe : k < o => k < o + 1
  BY FileOK DEF FileEdits
<1>2. q # <<>> => (Last(q).end >= o + 1 => Last(q).end >= o)
  <2>1. q # <<>> => Last(q) \in Entry
    BY FrontLast
  <2>2. q # <<>> => Last(q).end \in Nat
    BY <2>1 DEF Entry
  <2> QED
    BY <2>2
<1> QED
  BY <1>1, <1>2 DEF Reach

(* An edit that becomes an entry of its own.                                 *)
LEMMA ReachAppend ==
  ASSUME NEW fe, FileEdits(fe), Disjoint(fe), NEW q \in Seq(Entry), NEW a \in Acc,
         NEW o \in DOMAIN fe, Reach(fe, q, a, o), ~(q # <<>> /\ Last(q).end = o)
  PROVE  Reach(fe, StepOf(fe, q, o), Pass(fe, a, o), o + 1)
<1> DEFINE r == Rewrite(o, fe[o].removeLen, fe[o].text)
           y == [end |-> EndOf(fe, o), r |-> r]
           b == Append(q, y)
           c == ChangesOf(q)
           d == Pass(fe, a, o)
<1>1. /\ o \in Offsets /\ o \in Nat /\ fe[o].removeLen \in Nat /\ fe[o].text \in Seq(Char)
      /\ EndOf(fe, o) \in Nat /\ EndOf(fe, o) = o + fe[o].removeLen
  BY FileOK DEF FileEdits, EndOf
<1>2. StepOf(fe, q, o) = b
  BY DEF StepOf
<1>3. r \in Change /\ r.at = o /\ r.len = fe[o].removeLen /\ r.text = fe[o].text
  BY <1>1 DEF Rewrite, Change
<1>4. d.at = EndOf(fe, o)
  BY DEF Pass
<1>5. Put(a, r) = d
  BY <1>1, <1>3 DEF Put, Pass
<1> HIDE DEF r
<1>6. y \in Entry /\ y.r = r /\ y.end = EndOf(fe, o)
  BY <1>1, <1>3 DEF Entry
<1> HIDE DEF y
<1>7. c \in Seq(Change) /\ ChangesOf(b) = Append(c, r)
  BY <1>6, ChangesMore
<1>8. a = PutAll(c) /\ Apart(c)
  BY DEF Reach
<1>9. c # <<>> => c[Len(c)].at + c[Len(c)].len <= r.at
  <2>1. CASE q = <<>>
    BY <2>1, ChangesMore
  <2>2. CASE q # <<>>
    <3> DEFINE x == Last(q)
               f == ChangesOf(Front(q))
    <3>1. f \in Seq(Change) /\ x.r \in Change /\ c = Append(f, x.r)
      BY <2>2, ChangesLast
    <3>2. x.r.at + x.r.len = a.at
      BY <2>2 DEF Reach
    <3>3. a.at <= o
      BY ReachBelow
    <3> HIDE DEF x, f, c
    <3>4. Last(c) = x.r
      BY <3>1, LastAppend
    <3>5. c[Len(c)] = x.r
      BY <3>4 DEF Last
    <3> QED
      BY <1>3, <3>2, <3>3, <3>5
  <2> QED
    BY <2>1, <2>2
<1> HIDE DEF b, c, d
<1>10. PutAll(Append(c, r)) = d
  <2>1. PutAll(Append(c, r)) = Put(PutAll(c), r)
    BY <1>3, <1>7, PutMore
  <2> QED
    BY <1>5, <1>8, <2>1
<1>11. Apart(Append(c, r))
  BY <1>3, <1>7, <1>8, <1>9, ApartMore
<1>12. o < o + 1
  BY <1>1
<1>13. b # <<>> /\ Last(b) = y
  BY <1>6, LastAppend DEF b
<1>14. Last(b).r.at + Last(b).r.len = d.at /\ Last(b).end = d.at
  BY <1>1, <1>3, <1>4, <1>6, <1>13
<1>15. Reach(fe, b, d, o + 1)
  BY <1>4, <1>7, <1>10, <1>11, <1>12, <1>14 DEF Reach
<1> QED
  BY <1>2, <1>15 DEF d

(* An edit that is joined to the last entry.                                 *)
LEMMA ReachJoin ==
  ASSUME NEW fe, FileEdits(fe), NEW q \in Seq(Entry), NEW a \in Acc,
         NEW o \in DOMAIN fe, Reach(fe, q, a, o), q # <<>>, Last(q).end = o
  PROVE  Reach(fe, StepOf(fe, q, o), Pass(fe, a, o), o + 1)
<1> DEFINE f == Front(q)
           x == Last(q)
           e == fe[o]
           y == [x EXCEPT !.r = Joined(@, e)]
           b == Append(f, y)
           c == ChangesOf(f)
           d == Pass(fe, a, o)
           m == PutAll(c)
<1>1. /\ o \in Offsets /\ o \in Nat /\ e.removeLen \in Nat /\ e.text \in Seq(Char)
      /\ EndOf(fe, o) = o + e.removeLen
  BY FileOK DEF FileEdits, EndOf
<1>2. StepOf(fe, q, o) = b
  BY DEF StepOf
<1>3. /\ f \in Seq(Entry) /\ x \in Entry /\ c \in Seq(Change) /\ x.r \in Change
      /\ ChangesOf(q) = Append(c, x.r)
  BY ChangesLast
<1>4. d = [text |-> a.text \o Source(a.at, o) \o e.text, at |-> EndOf(fe, o)]
  BY DEF Pass
<1>5. a = PutAll(Append(c, x.r)) /\ Apart(Append(c, x.r)) /\ x.end = o
      /\ x.r.at + x.r.len = a.at /\ (x.end >= o => x.end = a.at)
  BY <1>3 DEF Reach
<1> HIDE DEF f, x, e
<1>6. y \in Entry /\ y.end = x.end /\ y.r.at = x.r.at
      /\ y.r.len = x.r.len + e.removeLen /\ y.r.text = x.r.text \o e.text
  BY <1>1, <1>3, JoinedEntry
<1> HIDE DEF y
<1>7. y.r \in Change /\ ChangesOf(b) = Append(c, y.r)
  BY <1>3, <1>6, ChangesMore
<1> HIDE DEF b, c, d
<1>8. m \in Made /\ a = Put(m, x.r) /\ PutAll(Append(c, y.r)) = Put(m, y.r)
  BY <1>3, <1>5, <1>7, PutMore
<1> HIDE DEF m
<1>9. a.at = o /\ x.r.at + x.r.len = o
  BY <1>1, <1>5
<1>10. x.r.at \in Nat /\ x.r.len \in Nat /\ x.r.at \in Offsets /\ x.r.text \in Seq(Char)
  BY <1>3, FileOK DEF Change
<1>11. m.text \in Seq(Char) /\ m.at \in Nat
  BY <1>8 DEF Made
<1> DEFINE u == m.text \o Source(m.at, x.r.at)
           t == x.r.text
           w == e.text
<1>12. u \in Seq(Char) /\ t \in Seq(Char) /\ w \in Seq(Char)
  <2>1. Source(m.at, x.r.at) \in Seq(Char)
    BY <1>10, <1>11, SourceTyped
  <2> QED
    BY <1>1, <1>10, <1>11, <2>1, JoinTyped
<1>13. a.text = u \o t
  BY <1>8 DEF Put
<1>14. Put(m, y.r) = [at |-> y.r.at + y.r.len, text |-> u \o (t \o w)]
  BY <1>6 DEF Put
<1>15. y.r.at + y.r.len = EndOf(fe, o)
  BY <1>1, <1>6, <1>9, <1>10
<1>16. a.text \o Source(a.at, o) \o w = u \o (t \o w)
  <2> HIDE DEF u, t, w
  <2>1. Source(a.at, o) = <<>>
    BY <1>1, <1>9, SourceNone
  <2>2. u \o t \in Seq(Char)
    BY <1>12, JoinTyped
  <2>3. (u \o t) \o <<>> = u \o t
    BY <2>2, ConcatEmptySeq
  <2>4. (u \o t) \o w = u \o (t \o w)
    BY <1>12, ConcatAssociative
  <2> QED
    BY <1>13, <2>1, <2>3, <2>4
<1>17. PutAll(Append(c, y.r)) = d
  <2> HIDE DEF u, t
  <2> QED
    BY <1>4, <1>8, <1>14, <1>15, <1>16
<1> HIDE DEF u, t, w
<1>18. Apart(Append(c, y.r))
  <2>1. Apart(c) /\ (c # <<>> => c[Len(c)].at + c[Len(c)].len <= x.r.at)
    BY <1>3, <1>5, ApartMore
  <2> QED
    BY <1>3, <1>6, <1>7, <2>1, ApartMore
<1>19. b # <<>> /\ Last(b) = y
  BY <1>3, <1>6, LastAppend DEF b
<1>20. d.at = EndOf(fe, o) /\ o < o + 1 /\ ~(y.end >= o + 1)
  BY <1>1, <1>4, <1>5, <1>6
<1>21. Reach(fe, b, d, o + 1)
  BY <1>7, <1>15, <1>17, <1>18, <1>19, <1>20 DEF Reach
<1> QED
  BY <1>2, <1>21 DEF d

(* All rewrites: they are apart, and make what is made when all edits are
   passed in order.                                                          *)
LEMMA RewritesReach ==
  ASSUME NEW fe, FileEdits(fe), Disjoint(fe), NEW h, PassesAll(fe, h)
  PROVE  Apart(Rewrites(fe)) /\ PutAll(Rewrites(fe)) = h[Size + 1]
<1>1. PICK s : /\ s[0] = <<>>
               /\ \A o \in 0..Size : s[o + 1] = IF o \in DOMAIN fe THEN StepOf(fe, s[o], o) ELSE s[o]
               /\ \A i \in 0..Size + 1 : s[i] \in Seq(Entry)
               /\ Rewrites(fe) = ChangesOf(s[Size + 1])
  BY RewritesSteps
<1>2. /\ h[0] = [text |-> <<>>, at |-> 0]
      /\ \A o \in 0..Size : h[o + 1] = IF o \in DOMAIN fe THEN Pass(fe, h[o], o) ELSE h[o]
      /\ \A o \in 0..Size + 1 : h[o] \in Acc
  BY DEF PassesAll
<1>3. Size \in Nat
  BY FileOK
<1>4. Reach(fe, s[0], h[0], 0)
  <2>1. ChangesOf(s[0]) = <<>> /\ s[0] = <<>>
    BY <1>1, ChangesMore
  <2>2. Apart(ChangesOf(s[0])) /\ PutAll(ChangesOf(s[0])) = h[0]
    BY <1>2, <2>1, ApartMore, PutMore
  <2>3. h[0].at = 0
    BY <1>2
  <2> QED
    BY <2>1, <2>2, <2>3 DEF Reach
<1>5. ASSUME NEW o \in 0..Size, Reach(fe, s[o], h[o], o)
      PROVE  Reach(fe, s[o + 1], h[o + 1], o + 1)
  <2>1. o \in Nat /\ s[o] \in Seq(Entry) /\ h[o] \in Acc
    BY <1>1, <1>2, <1>3
  <2>2. CASE o \notin DOMAIN fe
    <3>1. s[o + 1] = s[o] /\ h[o + 1] = h[o]
      BY <1>1, <1>2, <2>2
    <3>2. Reach(fe, s[o], h[o], o + 1)
      BY <1>5, <2>1, ReachSame
    <3> QED
      BY <3>1, <3>2
  <2>3. CASE o \in DOMAIN fe
    <3>1. s[o + 1] = StepOf(fe, s[o], o) /\ h[o + 1] = Pass(fe, h[o], o)
      BY <1>1, <1>2, <2>3
    <3>2. Reach(fe, StepOf(fe, s[o], o), Pass(fe, h[o], o), o + 1)
      BY <1>5, <2>1, <2>3, ReachAppend, ReachJoin
    <3> QED
      BY <3>1, <3>2
  <2> QED
    BY <2>2, <2>3
<1> DEFINE T == {o \in Nat : Reach(fe, s[o], h[o], o)}
           N == Size + 1
<1>6. 0 \in T
  BY <1>4
<1>7. N \in Nat /\ N - 1 = Size /\ N \in 0..N
  BY <1>3
<1>8. \A i \in 0..N - 1 : i \in T => i + 1 \in T
  BY <1>5, <1>7
<1> HIDE DEF T, N
<1>9. 0..N \subseteq T
  BY <1>6, <1>7, <1>8, Reaches
<1>10. Reach(fe, s[N], h[N], N)
  BY <1>7, <1>9 DEF T
<1> QED
  BY <1>1, <1>10 DEF Reach, N

-----------------------------------------------------------------------------
(* Theorems                                                                 *)

(* The variables keep their types: the edits of a file are at its offsets and
   remove no more than there is, whatever commits are applied.              *)
THEOREM EditsTyped == Spec => []TypeOK
<1>1. IInv => TypeOK
  <2>1. SUFFICES ASSUME IInv PROVE TypeOK
    OBVIOUS
  <2>2. \A i \in DOMAIN edits : edits[i].kind \in {"Insert", "InsertFromRange", "Remove"}
    <3>1. edits \in Seq(Edit)
      BY <2>1 DEF IInv, Collected
    <3>2. \A i \in DOMAIN edits : edits[i] \in Edit
      BY <3>1, LenProperties, ElementOfSeq
    <3> QED
      BY <3>2, EditKinds
  <2> QED
    BY <2>1, <2>2 DEF IInv, TypeOK, FileEdits, Args
<1> QED
  BY <1>1, Invariance, PTL

(* The edits of a file never overlap and each does something: what
   applyRewrites and applyRewrite assert of the map when they go through it. *)
THEOREM EditsApart == Spec => []EditsDisjoint
<1>1. IInv => EditsDisjoint
  BY DEF IInv, Disjoint, EditsDisjoint
<1> QED
  BY <1>1, Invariance, PTL

(* No edit that is applied takes away the place of one that the commit has
   accepted and that is still to come, so that the editor, which looks at no
   result, drops no part of a commit for that.                              *)
THEOREM AcceptedPlacesStay == Spec => []CheckedStillHolds
<1>1. IInv => CheckedStillHolds
  BY DEF IInv, Collected, Checked, CheckedStillHolds
<1> QED
  BY <1>1, Invariance, PTL

(* The editor keeps an edited text: whatever the edits of a commit meet,
   overlap or join in the map, each has on the text the effect that its call
   describes; in particular the text of a range that EditedSource puts
   together from the map is the text that is there.                         *)
THEOREM TextEdited == Spec => ImplementsEditedText
<1>1. Init => Abstract!Init
  <2>1. SUFFICES ASSUME Init PROVE Abstract!Init
    OBVIOUS
  <2>2. DOMAIN fileEdits = {} /\ Offsets = 0..Abstract!Size
    BY <2>1 DEF Init, Offsets, Size, Abstract!Size
  <2> QED
    BY <2>2 DEF Abstract!Init, TextAt
<1> QED
  BY <1>1, CommitsText, Invariance, PTL DEF Spec, ImplementsEditedText

(* The rewrites that a receiver gets make of the source the text that the
   edits stand for, and are apart from each other, in order.                 *)
THEOREM RewritesMakeText == Spec => []RewritesGiveText
<1>1. IInv => RewritesGiveText
  <2> DEFINE fe == fileEdits
             rs == Rewrites(fe)
  <2>1. SUFFICES ASSUME IInv PROVE RewritesGiveText
    OBVIOUS
  <2>2. FileEdits(fe) /\ Disjoint(fe) /\ fileEdits = fe
    BY <2>1 DEF IInv
  <2>3. PICK h : /\ PassesAll(fe, h)
                 /\ h[Size + 1].text \o Source(h[Size + 1].at, Size)
                      = PieceText(fe, 0, Size) \o TextAt(fe, Size)
    BY <2>2, AllPassed
  <2>4. Apart(rs) /\ PutAll(rs) = h[Size + 1]
    BY <2>2, <2>3, RewritesReach
  <2>5. Rewritten(rs) = PutAll(rs).text \o Source(PutAll(rs).at, Size)
    BY DEF Rewritten, PutAll, Put, Source
  <2>6. Abstract!Text = PieceText(fe, 0, Size) \o TextAt(fe, Size)
    <3>1. 0 \in Offsets /\ Size \in Nat /\ 0 + Size \in Offsets /\ 0 + Size = Size /\ Size \in Offsets
      BY FileOK
    <3>2. Abstract!TextOf(0, 0 + Size) = PieceText(fe, 0, 0 + Size)
      BY <2>2, <3>1, AbstractRange
    <3>3. Abstract!TextOf(0, Size) = PieceText(fe, 0, Size)
      BY <3>1, <3>2
    <3>4. Abstract!Size = Size
      BY DEF Abstract!Size, Size
    <3> HIDE DEF fe
    <3>5. [o \in Offsets |-> TextAt(fileEdits, o)][Size] = TextAt(fileEdits, Size)
      BY <3>1
    <3> QED
      BY <3>3, <3>4, <3>5 DEF Abstract!Text, fe
  <2> HIDE DEF rs
  <2>7. Rewritten(rs) = Abstract!Text
    BY <2>3, <2>4, <2>5, <2>6
  <2> QED
    BY <2>4, <2>7 DEF RewritesGiveText, Apart, rs, fe
<1> QED
  BY <1>1, Invariance, PTL
=============================================================================
