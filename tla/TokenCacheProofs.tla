------------------------- MODULE TokenCacheProofs --------------------------
(* Proofs about TokenCache for any text, macros, streams and bounds, provided
   that no stream is entered in caching mode: the run streams shows what
   becomes of the cache if one is.                                          *)
EXTENDS TokenCache, WellFoundedInduction, SequenceTheorems, TLAPS

-----------------------------------------------------------------------------
(* The tokens an annotation covers                                          *)

(* A set of naturals has a least element.                                   *)
LEMMA Smallest ==
  ASSUME NEW S, S \subseteq Nat, S # {}
  PROVE  \E n \in S : \A m \in S : n <= m
<1>1. PICK n \in S : \A m \in S : ~(<<m, n>> \in OpToRel(<, Nat))
  BY NatLessThanWellFounded, WFMin
<1>2. OpToRel(<, Nat) = {ss \in Nat \X Nat : ss[1] < ss[2]}
  BY DEF OpToRel
<1>3. ASSUME NEW m \in S PROVE n <= m
  <2>1. ~(<<m, n>> \in {ss \in Nat \X Nat : ss[1] < ss[2]})
    BY <1>1, <1>2, Zenon
  <2>2. m \in Nat /\ n \in Nat
    OBVIOUS
  <2>3. QED  BY <2>1, <2>2
<1>4. QED  BY <1>3

(* FlattenSeq puts sequences end to end, one after the other: its recursive
   function is defined up to each length, or there were a least one where it is
   not, and typed at each place, or there were a least one where it is not.  *)
LEMMA FlattenSteps ==
  ASSUME NEW T, NEW s \in Seq(Seq(T))
  PROVE  \E f : /\ f[0] = <<>> /\ f[Len(s)] = FlattenSeq(s)
                /\ \A i \in 1..Len(s) : f[i] = f[i - 1] \o s[i]
                /\ \A i \in 0..Len(s) : f[i] \in Seq(T)
<1> DEFINE Step(g, i) == IF i = 1 THEN s[i] ELSE g[i-1] \o s[i]
           Flattens(g, n) == g = [i \in 1..n |-> Step(g, i)]
           Defined(n) == \E g \in [1..n -> Seq(T)] : Flattens(g, n)
           Undefined == {n \in 1..Len(s) : ~Defined(n)}
<1>0. CASE Len(s) = 0
  <2> DEFINE f == [i \in {0} |-> <<>>]
  <2>1. f[0] = <<>> /\ <<>> \in Seq(T) /\ FlattenSeq(s) = <<>>
    BY <1>0, EmptySeq DEF FlattenSeq
  <2>2. (\A i \in 1..Len(s) : FALSE) /\ (\A i \in 0..Len(s) : i = 0)
    BY <1>0
  <2> HIDE DEF f
  <2>3. QED  BY <1>0, <2>1, <2>2
<1>1. CASE Len(s) # 0
  <2>1. Undefined = {}
    <3>1. SUFFICES ASSUME Undefined # {} PROVE FALSE
      OBVIOUS
    <3>2. PICK n \in Undefined : \A m \in Undefined : n <= m
      <4>1. Undefined \subseteq Nat
        <5> HIDE DEF Defined
        <5>1. QED  OBVIOUS
      <4> HIDE DEF Undefined
      <4>2. QED  BY <3>1, <4>1, Smallest
    <3>3. n \in 1..Len(s) /\ ~Defined(n)
      <4> HIDE DEF Defined
      <4>1. QED  BY <3>2
    <3>4. s[n] \in Seq(T)
      BY <3>3
    <3>5. CASE n = 1
      <4>1. [i \in 1..1 |-> s[i]] \in [1..1 -> Seq(T)]
        BY <1>1
      <4>2. Flattens([i \in 1..1 |-> s[i]], 1)
        OBVIOUS
      <4>3. QED  BY <3>3, <3>5, <4>1, <4>2
    <3>6. CASE n # 1
      <4>1. n - 1 \in 1..Len(s) /\ Defined(n - 1)
        <5>1. n - 1 \in 1..Len(s) /\ ~(n <= n - 1)
          BY <3>3, <3>6
        <5> HIDE DEF Defined
        <5>2. QED  BY <3>2, <5>1
      <4>2. PICK g \in [1..n-1 -> Seq(T)] : Flattens(g, n-1)
        BY <4>1
      <4>3. n - 1 \in 1..n-1 /\ \A i \in 1..n : i # n => i \in 1..n-1
        BY <3>3, <3>6
      <4>4. g[n-1] \o s[n] \in Seq(T)
        <5> HIDE DEF Flattens
        <5>1. g[n-1] \in Seq(T)
          BY <4>3
        <5>2. QED  BY <5>1, <3>4
      <4> DEFINE h == [i \in 1..n |-> IF i = n THEN g[n-1] \o s[n] ELSE g[i]]
      <4>5. h \in [1..n -> Seq(T)]
        BY <4>3, <4>4
      <4>6. ASSUME NEW i \in 1..n PROVE h[i] = Step(h, i)
        <5>1. CASE i = n
          <6>1. h[i] = g[n-1] \o s[n]
            BY <5>1
          <6>2. h[n-1] = g[n-1]
            <7>1. n - 1 \in 1..n /\ n - 1 # n
              BY <3>3, <3>6
            <7>2. QED  BY <7>1
          <6> HIDE DEF h
          <6>3. QED  BY <3>6, <5>1, <6>1, <6>2
        <5>2. CASE i # n
          <6>1. i \in 1..n-1
            BY <4>3, <5>2
          <6>2. h[i] = g[i]
            BY <5>2
          <6>3. g[i] = Step(g, i)
            BY <4>2, <6>1
          <6>4. CASE i = 1
            <7> HIDE DEF h
            <7>1. QED  BY <6>2, <6>3, <6>4
          <6>5. CASE i # 1
            <7>1. i - 1 \in 1..n /\ i - 1 # n
              BY <3>3, <6>1, <6>5
            <7>2. h[i-1] = g[i-1]
              BY <7>1
            <7> HIDE DEF h
            <7>3. QED  BY <6>2, <6>3, <6>5, <7>2
          <6>6. QED  BY <6>4, <6>5
        <5>3. QED  BY <5>1, <5>2
      <4>7. h = [i \in 1..n |-> h[i]]
        OBVIOUS
      <4>8. Flattens(h, n)
        <5> HIDE DEF h, Step
        <5>1. QED  BY <4>6, <4>7
      <4>9. QED
        <5> HIDE DEF h, Flattens
        <5>1. QED  BY <3>3, <4>5, <4>8
    <3>7. QED  BY <3>5, <3>6
  <2>2. PICK g \in [1..Len(s) -> Seq(T)] : Flattens(g, Len(s))
    <3>1. Len(s) \in 1..Len(s)
      BY <1>1
    <3>2. Defined(Len(s))
      <4> HIDE DEF Defined
      <4>1. QED  BY <2>1, <3>1
    <3>3. QED  BY <3>2
  <2> DEFINE f == CHOOSE h : Flattens(h, Len(s))
  <2>3. Flattens(f, Len(s))
    BY <2>2
  <2>4. FlattenSeq(s) = f[Len(s)]
    BY <1>1 DEF FlattenSeq
  <2> HIDE DEF f
  <2>5. \A i \in 1..Len(s) : f[i] = Step(f, i)
    BY <2>3
  <2> DEFINE Untyped == {i \in 1..Len(s) : f[i] \notin Seq(T)}
  <2>6. Untyped = {}
    <3>1. SUFFICES ASSUME Untyped # {} PROVE FALSE
      OBVIOUS
    <3>2. PICK n \in Untyped : \A m \in Untyped : n <= m
      <4>1. Untyped \subseteq Nat
        OBVIOUS
      <4> HIDE DEF Untyped
      <4>2. QED  BY <3>1, <4>1, Smallest
    <3>3. n # 1
      BY <2>5, <3>2
    <3>4. n - 1 \in 1..Len(s) /\ n - 1 \notin Untyped
      <4>1. n - 1 \in 1..Len(s) /\ ~(n <= n - 1)
        BY <3>2, <3>3
      <4> HIDE DEF Untyped
      <4>2. QED  BY <3>2, <4>1
    <3>5. f[n - 1] \in Seq(T) /\ s[n] \in Seq(T)
      BY <3>2, <3>4
    <3>6. f[n] = f[n - 1] \o s[n]
      BY <2>5, <3>2, <3>3
    <3>7. f[n - 1] \o s[n] \in Seq(T)
      BY <3>5
    <3>8. f[n] \notin Seq(T)
      OBVIOUS
    <3>9. QED  BY <3>6, <3>7, <3>8
  <2>7. Len(s) \in 1..Len(s) /\ Len(s) \in Nat
    BY <1>1
  <2> DEFINE h == [i \in 0..Len(s) |-> IF i = 0 THEN <<>> ELSE f[i]]
  <2>8. /\ h[0] = <<>> /\ h[Len(s)] = FlattenSeq(s)
        /\ \A i \in 1..Len(s) : h[i] = f[i]
    BY <2>4, <2>7
  <2> HIDE DEF h
  <2>9. ASSUME NEW i \in 1..Len(s) PROVE h[i] = h[i - 1] \o s[i]
    <3>1. s[i] \in Seq(T) /\ f[i] = Step(f, i)
      BY <2>5
    <3>2. CASE i = 1
      <4>1. i - 1 = 0 /\ <<>> \o s[i] = s[i]
        BY <3>1, <3>2, ConcatEmptySeq
      <4>2. QED  BY <2>8, <3>1, <3>2, <4>1
    <3>3. CASE i # 1
      <4>1. i - 1 \in 1..Len(s)
        BY <2>7, <3>3
      <4>2. QED  BY <2>8, <3>1, <3>3, <4>1
    <3>4. QED  BY <3>2, <3>3
  <2>10. \A i \in 0..Len(s) : h[i] \in Seq(T)
    <3>1. \A i \in 0..Len(s) : i = 0 \/ i \in 1..Len(s)
      BY <2>7
    <3>2. \A i \in 1..Len(s) : f[i] \in Seq(T)
      BY <2>6
    <3>3. QED  BY <2>8, <3>1, <3>2, EmptySeq
  <2>11. QED  BY <2>8, <2>9, <2>10
<1>2. QED  BY <1>0, <1>1

(* What holds of a number, and of each next one, holds up to the last.      *)
LEMMA Reaches ==
  ASSUME NEW a \in Nat, NEW c \in Nat, NEW T, a \in T,
         \A i \in a..c - 1 : i \in T => i + 1 \in T
  PROVE  a..c \subseteq T
<1> DEFINE Rest == {i \in a..c : i \notin T}
<1>1. SUFFICES ASSUME Rest # {} PROVE FALSE
  OBVIOUS
<1>2. PICK n \in Rest : \A m \in Rest : n <= m
  <2>1. Rest \subseteq Nat
    OBVIOUS
  <2> HIDE DEF Rest
  <2>2. QED  BY <1>1, <2>1, Smallest
<1>3. n \in a..c /\ n \notin T /\ n # a
  OBVIOUS
<1>4. n - 1 \in a..c - 1 /\ (n - 1) + 1 = n
  BY <1>3
<1>5. n - 1 \in T
  <2>1. n - 1 \in a..c /\ ~(n <= n - 1)
    BY <1>3
  <2>2. n - 1 \notin Rest
    <3> HIDE DEF Rest
    <3>1. QED  BY <1>2, <2>1
  <2>3. QED  BY <2>1, <2>2
<1>6. QED  BY <1>3, <1>4, <1>5

(* Sequences put end to end are a sequence.                                 *)
LEMMA FlattenTyped ==
  ASSUME NEW T, NEW s \in Seq(Seq(T))
  PROVE  FlattenSeq(s) \in Seq(T)
<1>1. Len(s) \in 0..Len(s)
  OBVIOUS
<1>2. QED  BY <1>1, FlattenSteps

(* Three sequences are put end to end in one way only.                      *)
LEMMA Associative ==
  ASSUME NEW T
  PROVE  \A a, b, c \in Seq(T) : (a \o b) \o c = a \o (b \o c)
BY ConcatAssociative

(* The sequences of a sequence put end to end, and then those of another.    *)
LEMMA FlattenConcat ==
  ASSUME NEW T, NEW s \in Seq(Seq(T)), NEW t \in Seq(Seq(T))
  PROVE  FlattenSeq(s \o t) = FlattenSeq(s) \o FlattenSeq(t)
<1>0. \A a, b, c \in Seq(T) : (a \o b) \o c = a \o (b \o c)
  BY ConcatAssociative, SMTT(60)
<1> DEFINE u == s \o t
           S == Seq(T)
<1>1. /\ u \in Seq(S) /\ Len(u) = Len(s) + Len(t)
      /\ Len(s) \in Nat /\ Len(t) \in Nat
      /\ \A i \in 1..Len(s) : u[i] = s[i]
      /\ \A i \in 1..Len(t) : u[Len(s) + i] = t[i]
  <2>1. /\ u \in Seq(S) /\ Len(u) = Len(s) + Len(t)
        /\ \A i \in 1..Len(s) + Len(t) :
             u[i] = IF i <= Len(s) THEN s[i] ELSE t[i - Len(s)]
    BY ConcatProperties
  <2>2. Len(s) \in Nat /\ Len(t) \in Nat
    OBVIOUS
  <2> HIDE DEF u, S
  <2>3. ASSUME NEW i \in 1..Len(t) PROVE u[Len(s) + i] = t[i]
    <3>1. /\ Len(s) + i \in 1..Len(s) + Len(t) /\ ~(Len(s) + i <= Len(s))
          /\ (Len(s) + i) - Len(s) = i
      BY <2>2
    <3>2. QED  BY <2>1, <3>1
  <2>4. ASSUME NEW i \in 1..Len(s) PROVE u[i] = s[i]
    BY <2>1, <2>2
  <2>5. QED  BY <2>1, <2>2, <2>3, <2>4
<1> HIDE DEF u
<1>2. PICK f : /\ f[0] = <<>> /\ f[Len(s)] = FlattenSeq(s)
               /\ \A i \in 1..Len(s) : f[i] = f[i - 1] \o s[i]
               /\ \A i \in 0..Len(s) : f[i] \in S
  BY FlattenSteps
<1>3. PICK g : /\ g[0] = <<>> /\ g[Len(t)] = FlattenSeq(t)
               /\ \A i \in 1..Len(t) : g[i] = g[i - 1] \o t[i]
               /\ \A i \in 0..Len(t) : g[i] \in S
  BY FlattenSteps
<1>4. PICK h : /\ h[0] = <<>> /\ h[Len(u)] = FlattenSeq(u)
               /\ \A i \in 1..Len(u) : h[i] = h[i - 1] \o u[i]
               /\ \A i \in 0..Len(u) : h[i] \in S
  BY <1>1, FlattenSteps
<1> DEFINE Same == {i \in 0..Len(s) : h[i] = f[i]}
           Shifted == {i \in 0..Len(t) : h[Len(s) + i] = f[Len(s)] \o g[i]}
<1>5. 0..Len(s) \subseteq Same
  <2>1. 0 \in Same
    BY <1>1, <1>2, <1>4
  <2>2. ASSUME NEW i \in 0..Len(s) - 1, i \in Same PROVE i + 1 \in Same
    <3>1. i + 1 \in 1..Len(s) /\ i + 1 \in 1..Len(u) /\ (i + 1) - 1 = i /\ i + 1 \in 0..Len(s)
      BY <1>1
    <3>2. h[i + 1] = h[i] \o u[i + 1] /\ f[i + 1] = f[i] \o s[i + 1] /\ u[i + 1] = s[i + 1]
      BY <1>1, <1>2, <1>4, <3>1
    <3>3. QED  BY <2>2, <3>1, <3>2
  <2>3. 0 \in Nat /\ Len(s) \in Nat
    BY <1>1
  <2> HIDE DEF Same
  <2>4. QED  BY <2>1, <2>2, <2>3, Reaches
<1>6. h[Len(s)] = f[Len(s)] /\ f[Len(s)] \in S
  BY <1>1, <1>2, <1>5
<1>7. 0..Len(t) \subseteq Shifted
  <2>1. 0 \in Shifted
    <3>1. f[Len(s)] \o <<>> = f[Len(s)] /\ Len(s) + 0 = Len(s) /\ 0 \in 0..Len(t)
      BY <1>1, <1>6, ConcatEmptySeq
    <3>2. QED  BY <1>3, <1>6, <3>1
  <2>2. ASSUME NEW i \in 0..Len(t) - 1, i \in Shifted PROVE i + 1 \in Shifted
    <3>1. /\ i + 1 \in 1..Len(t) /\ Len(s) + (i + 1) \in 1..Len(u) /\ (i + 1) - 1 = i
          /\ (Len(s) + (i + 1)) - 1 = Len(s) + i /\ i + 1 \in 0..Len(t) /\ i \in 0..Len(t)
      BY <1>1
    <3>2. /\ h[Len(s) + (i + 1)] = h[Len(s) + i] \o u[Len(s) + (i + 1)]
          /\ g[i + 1] = g[i] \o t[i + 1] /\ u[Len(s) + (i + 1)] = t[i + 1]
      BY <1>1, <1>3, <1>4, <3>1
    <3>3. h[Len(s) + i] = f[Len(s)] \o g[i]
      BY <2>2
    <3>4. g[i] \in S /\ t[i + 1] \in S
      BY <1>3, <3>1
    <3>5. (f[Len(s)] \o g[i]) \o t[i + 1] = f[Len(s)] \o (g[i] \o t[i + 1])
      BY <1>0, <1>6, <3>4, Zenon
    <3>6. h[Len(s) + (i + 1)] = f[Len(s)] \o g[i + 1]
      BY <3>2, <3>3, <3>5
    <3>7. QED  BY <3>1, <3>6
  <2>3. 0 \in Nat /\ Len(t) \in Nat
    BY <1>1
  <2> HIDE DEF Shifted
  <2>4. QED  BY <2>1, <2>2, <2>3, Reaches
<1>8. Len(t) \in 0..Len(t)
  BY <1>1
<1>9. h[Len(s) + Len(t)] = f[Len(s)] \o g[Len(t)]
  BY <1>7, <1>8
<1>10. FlattenSeq(u) = FlattenSeq(s) \o FlattenSeq(t)
  BY <1>1, <1>2, <1>3, <1>4, <1>9
<1>11. QED  BY <1>10 DEF u

(* No sequences, put end to end, and one.                                   *)
LEMMA FlattenOne ==
  ASSUME NEW T, NEW x \in Seq(T)
  PROVE  FlattenSeq(<<>>) = <<>> /\ FlattenSeq(<<x>>) = x
<1>1. FlattenSeq(<<>>) = <<>>
  BY DEF FlattenSeq
<1>2. FlattenSeq(<<x>>) = x
  <2> DEFINE s == <<x>>
  <2>1. s \in Seq(Seq(T)) /\ Len(s) = 1 /\ s[1] = x /\ 1 \in 1..1 /\ 1 - 1 = 0
    OBVIOUS
  <2> HIDE DEF s
  <2>2. PICK f : /\ f[0] = <<>> /\ f[Len(s)] = FlattenSeq(s)
                 /\ \A i \in 1..Len(s) : f[i] = f[i - 1] \o s[i]
    BY <2>1, FlattenSteps
  <2>3. FlattenSeq(s) = <<>> \o x
    BY <2>1, <2>2
  <2>4. FlattenSeq(s) = x
    BY <2>3, ConcatEmptySeq
  <2>5. QED  BY <2>4 DEF s
<1>3. QED  BY <1>1, <1>2

(* One more sequence is put behind the others.                              *)
LEMMA FlattenAppend ==
  ASSUME NEW T, NEW s \in Seq(Seq(T)), NEW x \in Seq(T)
  PROVE  FlattenSeq(Append(s, x)) = FlattenSeq(s) \o x
<1>1. <<x>> \in Seq(Seq(T)) /\ Append(s, x) = s \o <<x>>
  BY AppendIsConcat
<1>2. FlattenSeq(s \o <<x>>) = FlattenSeq(s) \o FlattenSeq(<<x>>)
  BY <1>1, FlattenConcat
<1>3. FlattenSeq(<<x>>) = x
  BY FlattenOne
<1>4. QED  BY <1>1, <1>2, <1>3, Zenon

(* The annotation that covers the last tokens read is a token, and what has
   been read a sequence of them still (AnnotateName, AnnotateScopeToken).    *)
LEMMA CoveredTyped ==
  ASSUME NEW s \in Seq(Token), NEW j \in Nat, j >= 1, j <= Len(s)
  PROVE  Covered(s, j) \in Token /\ Covering(s, j) \in Seq(Token)
<1>1. SubSeq(s, Len(s) - j + 1, Len(s)) \in Seq(Token)
  OBVIOUS
<1>2. Covered(s, j) \in Token
  BY <1>1, FlattenTyped DEF Token, Covered
<1>3. SubSeq(s, 1, Len(s) - j) \in Seq(Token)
  OBVIOUS
<1>4. QED  BY <1>2, <1>3 DEF Covering

(* All but the last of a sequence: its type, length and places.              *)
LEMMA FrontFields ==
  ASSUME NEW S, NEW s \in Seq(S), s # <<>>
  PROVE  /\ Front(s) \in Seq(S) /\ Len(Front(s)) = Len(s) - 1
         /\ \A i \in 1..Len(s) - 1 : Front(s)[i] = s[i]
         /\ Len(s) \in Nat /\ Len(s) >= 1 /\ Last(s) \in S
<1>1. Len(s) \in Nat /\ Len(s) >= 1 /\ Last(s) \in S
  BY DEF Last
<1>2. \A i \in 1..Len(s) - 1 : s[i] \in S
  BY <1>1
<1>3. ASSUME NEW n \in Nat, n <= Len(s), \A i \in 1..n : s[i] \in S
      PROVE  /\ SubSeq(s, 1, n) \in Seq(S) /\ Len(SubSeq(s, 1, n)) = n
             /\ \A i \in 1..n : SubSeq(s, 1, n)[i] = s[i]
  <2>1. /\ SubSeq(s, 1, n) \in Seq(S)
        /\ Len(SubSeq(s, 1, n)) = IF 1 <= n THEN n - 1 + 1 ELSE 0
        /\ \A i \in 1..n - 1 + 1 : SubSeq(s, 1, n)[i] = s[1 + i - 1]
    BY <1>3, SubSeqProperties
  <2>2. n - 1 + 1 = n /\ (IF 1 <= n THEN n - 1 + 1 ELSE 0) = n
    BY <1>3
  <2>3. \A i \in 1..n : 1 + i - 1 = i
    OBVIOUS
  <2>4. QED  BY <2>1, <2>2, <2>3
<1>4. Len(s) - 1 \in Nat /\ Len(s) - 1 <= Len(s)
  BY <1>1
<1>5. QED  BY <1>1, <1>2, <1>3, <1>4 DEF Front

-----------------------------------------------------------------------------
(* The stack of lexers                                                      *)

(* A caching lexer is on top or not there, has nothing to lex itself, and is
   never alone.                                                             *)
Stack(l) ==
  /\ l \in Seq(Lexer) /\ l # <<>>
  /\ l[1].kind # "caching"
  /\ \A i \in DOMAIN l : l[i].kind = "caching" => i = Len(l) /\ l[i].words = <<>>

(* EnterCachingLexMode puts the caching lexer on top, once.                  *)
LEMMA EnterStack ==
  ASSUME NEW l, Stack(l)
  PROVE  Stack(EnterCachingLexMode(l)) /\ InCachingLexMode(EnterCachingLexMode(l))
<1>1. CASE InCachingLexMode(l)
  BY <1>1 DEF EnterCachingLexMode
<1>2. CASE ~InCachingLexMode(l)
  <2> DEFINE c == [kind |-> "caching", words |-> <<>>]
             m == Append(l, c)
  <2>1. EnterCachingLexMode(l) = m
    BY <1>2 DEF EnterCachingLexMode
  <2>2. c \in Lexer /\ c.kind = "caching" /\ c.words = <<>>
    BY DEF Lexer
  <2>3. \A i \in DOMAIN l : l[i].kind # "caching"
    BY <1>2 DEF Stack, InCachingLexMode, Last
  <2> HIDE DEF c
  <2>4. /\ m \in Seq(Lexer) /\ m # <<>> /\ Len(m) = Len(l) + 1 /\ m[Len(m)] = c
        /\ \A i \in DOMAIN m : i # Len(m) => i \in DOMAIN l /\ m[i] = l[i]
        /\ 1 \in DOMAIN l /\ m[1] = l[1]
    BY <2>2 DEF Stack
  <2> HIDE DEF m
  <2>5. QED  BY <2>1, <2>2, <2>3, <2>4 DEF Stack, InCachingLexMode, Last
<1>3. QED  BY <1>1, <1>2

(* What is under the top of the stack is no caching lexer.                   *)
LEMMA FrontStack ==
  ASSUME NEW l, Stack(l), Len(l) > 1
  PROVE  Stack(Front(l)) /\ ~InCachingLexMode(Front(l))
<1> DEFINE m == Front(l)
<1>1. /\ m \in Seq(Lexer) /\ m # <<>> /\ Len(m) = Len(l) - 1 /\ Len(m) \in DOMAIN m
      /\ \A i \in DOMAIN m : i \in DOMAIN l /\ i # Len(l) /\ m[i] = l[i]
      /\ 1 \in DOMAIN m
  BY DEF Stack, Front
<1> HIDE DEF m
<1>2. \A i \in DOMAIN m : m[i].kind # "caching"
  BY <1>1 DEF Stack
<1>3. QED  BY <1>1, <1>2 DEF Stack, InCachingLexMode, Last, m

(* ExitCachingLexMode leaves caching mode, and no other lexer.               *)
LEMMA ExitStack ==
  ASSUME NEW l, Stack(l)
  PROVE  Stack(ExitCachingLexMode(l)) /\ ~InCachingLexMode(ExitCachingLexMode(l))
<1>1. CASE ~InCachingLexMode(l)
  BY <1>1 DEF ExitCachingLexMode
<1>2. CASE InCachingLexMode(l)
  <2>1. Len(l) > 1
    BY <1>2 DEF Stack, InCachingLexMode, Last
  <2>2. QED  BY <1>2, <2>1, FrontStack DEF ExitCachingLexMode
<1>3. QED  BY <1>1, <1>2

(* A lexer is pushed outside caching mode (macro, stream).                   *)
LEMMA PushStack ==
  ASSUME NEW l, Stack(l), ~InCachingLexMode(l),
         NEW x \in Lexer, x.kind # "caching"
  PROVE  Stack(Append(l, x)) /\ ~InCachingLexMode(Append(l, x))
<1> DEFINE m == Append(l, x)
<1>1. \A i \in DOMAIN l : l[i].kind # "caching"
  BY DEF Stack, InCachingLexMode, Last
<1>2. /\ m \in Seq(Lexer) /\ m # <<>> /\ Len(m) = Len(l) + 1 /\ m[Len(m)] = x
      /\ \A i \in DOMAIN m : i # Len(m) => i \in DOMAIN l /\ m[i] = l[i]
      /\ 1 \in DOMAIN l /\ m[1] = l[1]
  BY DEF Stack
<1> HIDE DEF m
<1>3. QED  BY <1>1, <1>2 DEF Stack, InCachingLexMode, Last, m

(* A lexer on top moves on in what it lexes.                                *)
LEMMA SetTopStack ==
  ASSUME NEW l, Stack(l), ~InCachingLexMode(l), NEW ws \in Seq(Word)
  PROVE  LET m == Append(Front(l), [Last(l) EXCEPT !.words = ws])
         IN Stack(m) /\ ~InCachingLexMode(m)
<1> DEFINE x == [Last(l) EXCEPT !.words = ws]
           f == Front(l)
           m == Append(f, x)
<1>1. Last(l) \in Lexer /\ Last(l).kind # "caching"
  BY DEF Stack, InCachingLexMode, Last
<1>2. x \in Lexer /\ x.kind # "caching"
  BY <1>1 DEF Lexer
<1>3. \A i \in DOMAIN l : l[i].kind # "caching"
  BY DEF Stack, InCachingLexMode, Last
<1>4. /\ f \in Seq(Lexer) /\ Len(f) = Len(l) - 1
      /\ \A i \in DOMAIN f : i \in DOMAIN l /\ f[i] = l[i]
  <2>1. l \in Seq(Lexer) /\ l # <<>>
    BY DEF Stack
  <2>2. /\ f \in Seq(Lexer) /\ Len(f) = Len(l) - 1
        /\ \A i \in 1..Len(l) - 1 : f[i] = l[i]
        /\ Len(l) \in Nat
    BY <2>1, FrontFields
  <2> HIDE DEF f
  <2>3. DOMAIN f = 1..Len(l) - 1 /\ DOMAIN l = 1..Len(l)
    BY <2>1, <2>2
  <2>4. QED  BY <2>2, <2>3
<1> HIDE DEF x, f
<1>5. /\ m \in Seq(Lexer) /\ m # <<>> /\ Len(m) = Len(f) + 1 /\ m[Len(m)] = x
      /\ \A i \in DOMAIN m : i # Len(m) => i \in DOMAIN f /\ m[i] = f[i]
      /\ 1 \in DOMAIN m /\ Len(m) \in DOMAIN m
  <2>1. x \in Lexer /\ f \in Seq(Lexer)
    BY <1>2, <1>4
  <2>2. QED  BY <2>1
<1> HIDE DEF m
<1>6. \A i \in DOMAIN m : m[i].kind # "caching"
  BY <1>2, <1>3, <1>4, <1>5
<1>7. Stack(m) /\ ~InCachingLexMode(m)
  BY <1>5, <1>6 DEF Stack, InCachingLexMode, Last
<1>8. QED  BY <1>7 DEF m, x, f

-----------------------------------------------------------------------------
(* The invariant                                                            *)

Empty == cached = <<>> /\ cachedPos = 0 /\ backtrack = <<>>

(* What a look ahead says or is to say.                                     *)
Peek == [n : Nat, tok : Token \cup {None}]

(* Which calls may wait, and which mode the lexer is in then.  Between calls,
   and until Lex has found out that the cache is used up, the cache is empty
   outside caching mode; a look ahead always lexes outside it, for the last
   slot of the cache.                                                       *)
Modes ==
  /\ Len(calls) <= 2
  /\ Idle => ret = None
  /\ Len(calls) = 1 => calls[1].fn \in {"ConsumeToken", "PeekAhead"}
  /\ Len(calls) = 2 => calls[1].fn = "ConsumeToken" /\ calls[2].fn = "CachingLex"
  /\ Idle /\ ~InCachingLexMode(lexers) => Empty
  /\ Len(calls) = 1 /\ calls[1].fn = "ConsumeToken" /\ ~InCachingLexMode(lexers) => Empty
  /\ Len(calls) = 2 => ~InCachingLexMode(lexers) /\ cachedPos = Len(cached)
  /\ Len(calls) = 1 /\ calls[1].fn = "PeekAhead" =>
       /\ ~InCachingLexMode(lexers) /\ calls[1].slot = Len(cached)
       /\ cachedPos < Len(cached) /\ peek \in Peek

(* For each mark there is what had been read.                               *)
Paired == Len(saved) = Len(backtrack)

IInv == TypeOK /\ Stack(lexers) /\ MarksBehindCursor /\ Paired /\ Modes

-----------------------------------------------------------------------------
(* The parser's calls keep it                                               *)

(* The calls there may be, as the invariant knows them.                     *)
LEMMA CallTyped ==
  /\ Calling("ConsumeToken") \in Call /\ Calling("ConsumeToken").fn = "ConsumeToken"
  /\ Calling("CachingLex") \in Call /\ Calling("CachingLex").fn = "CachingLex"
BY DEF Calling, Call

(* No token is None.                                                        *)
LEMMA NoneIsNoToken == None \notin Token
BY TokenCacheAssumption DEF Word

(* Between calls a tentative parse is in caching mode.                      *)
LEMMA TentativeMode ==
  ASSUME IInv, Idle
  PROVE  /\ calls = <<>> /\ ret = None
         /\ ~InCachingLexMode(lexers) => Empty
         /\ isBacktrackEnabled(backtrack) => InCachingLexMode(lexers)
BY DEF IInv, Modes, Idle, Empty, isBacktrackEnabled

(* Between calls, what is cached and which mode the lexer is in agree.      *)
LEMMA IdleModes ==
  ASSUME calls' = <<>>, ret' = None, ~InCachingLexMode(lexers') => Empty'
  PROVE  Modes'
BY DEF Modes, Idle, Empty

(* A call that is just made, of Lex for the parser.                         *)
LEMMA ConsumeModes ==
  ASSUME calls' = <<Calling("ConsumeToken")>>, ~InCachingLexMode(lexers') => Empty'
  PROVE  Modes'
<1> DEFINE c == Calling("ConsumeToken")
<1>1. c.fn = "ConsumeToken"
  BY CallTyped
<1> HIDE DEF c
<1>2. calls' = <<c>>
  BY DEF c
<1>3. Len(calls') = 1 /\ calls'[1].fn = "ConsumeToken" /\ calls' # <<>>
  BY <1>1, <1>2
<1>4. QED  BY <1>3 DEF Modes, Idle, Empty

(* Cursor and marks, where nothing but the cache grows.                     *)
LEMMA MarksKept ==
  ASSUME MarksBehindCursor, backtrack' = backtrack, cachedPos' = cachedPos,
         cachedPos \in Nat, Len(cached) \in Nat, Len(cached') \in Nat,
         Len(cached) <= Len(cached')
  PROVE  MarksBehindCursor'
BY DEF MarksBehindCursor

(* A call of Lex by the parser only waits.                                   *)
LEMMA ConsumeTokenKeeps == ASSUME IInv, ConsumeToken PROVE IInv'
<1>1. TypeOK' /\ Stack(lexers') /\ Paired'
  BY CallTyped DEF IInv, TypeOK, Paired, ConsumeToken
<1>2. MarksBehindCursor'
  BY DEF IInv, MarksBehindCursor, ConsumeToken
<1>3. ~InCachingLexMode(lexers') => Empty'
  BY TentativeMode DEF ConsumeToken, Empty
<1>4. Modes'
  BY <1>3, ConsumeModes DEF ConsumeToken
<1>5. QED  BY <1>1, <1>2, <1>4 DEF IInv

(* A token that is ahead in the cache is a token.                           *)
LEMMA AheadInCache ==
  ASSUME cached \in Seq(Token), cachedPos \in Nat, cachedPos <= Len(cached)
  PROVE  /\ Len(Ahead) = Len(cached) - cachedPos /\ Len(Ahead) \in Nat
         /\ \A n \in Nat : n < Len(Ahead) => Peeked(n) \in Token
<1>1. Len(cached) \in Nat
  OBVIOUS
<1>2. \A i \in cachedPos + 1..Len(cached) : cached[i] \in Token
  OBVIOUS
<1>3. Len(Ahead) = IF cachedPos + 1 <= Len(cached)
                   THEN Len(cached) - (cachedPos + 1) + 1 ELSE 0
  BY <1>1, <1>2, SubSeqProperties DEF Ahead
<1>4. Len(Ahead) = Len(cached) - cachedPos
  BY <1>1, <1>3
<1>5. ASSUME NEW n \in Nat, n < Len(Ahead) PROVE Peeked(n) \in Token
  BY <1>1, <1>2, <1>4, <1>5 DEF Peeked
<1>6. QED  BY <1>1, <1>4, <1>5

(* A look ahead is told from the cache, or leaves caching mode for a slot at
   the end of the cache that is still to be filled.                          *)
LEMMA LookAheadKeeps ==
  ASSUME IInv, NEW n \in 0..MaxPeek, LookAhead(n)
  PROVE  IInv'
<1>1. /\ cached \in Seq(Token) /\ cachedPos \in Nat /\ cachedPos <= Len(cached)
      /\ n \in Nat /\ Len(cached) \in Nat
  BY TokenCacheAssumption DEF IInv, TypeOK, MarksBehindCursor
<1>2. /\ Len(Ahead) = Len(cached) - cachedPos /\ Len(Ahead) \in Nat
      /\ n < Len(Ahead) => Peeked(n) \in Token
  BY <1>1, AheadInCache
<1>3. CASE n < Len(Ahead)
  <2>1. peek' \in [n : Nat, tok : Token \cup {None}]
    BY <1>1, <1>2, <1>3 DEF LookAhead
  <2>2. UNCHANGED <<lexers, cached, calls, cachedPos, backtrack, ret, read, saved>>
    BY <1>3 DEF LookAhead
  <2>3. TypeOK' /\ Stack(lexers') /\ Paired'
    BY <2>1, <2>2 DEF IInv, TypeOK, Paired
  <2>4. MarksBehindCursor'
    BY <2>2 DEF IInv, MarksBehindCursor
  <2>5. Modes'
    BY <2>2, TentativeMode, IdleModes DEF LookAhead, Empty
  <2>6. QED  BY <2>3, <2>4, <2>5 DEF IInv
<1>4. CASE ~(n < Len(Ahead))
  <2> DEFINE c == [fn |-> "PeekAhead", left |-> n - Len(Ahead), slot |-> Len(cached) + 1]
  <2>1. /\ calls' = <<c>> /\ cached' = Append(cached, <<>>)
        /\ lexers' = ExitCachingLexMode(lexers)
        /\ peek' = [n |-> n, tok |-> None]
        /\ UNCHANGED <<cachedPos, backtrack, ret, read, saved>>
    BY <1>4 DEF LookAhead
  <2>2. /\ c \in Call /\ c.fn = "PeekAhead" /\ c.slot = Len(cached) + 1
    BY <1>1, <1>2, <1>4 DEF Call
  <2> HIDE DEF c
  <2>3. Stack(lexers') /\ ~InCachingLexMode(lexers')
    BY <2>1, ExitStack DEF IInv
  <2>4. <<>> \in Token
    BY DEF Token
  <2>5. cached' \in Seq(Token) /\ Len(cached') = Len(cached) + 1
    BY <1>1, <2>1, <2>4
  <2>6. calls' \in Seq(Call) /\ Len(calls') = 1 /\ calls'[1] = c /\ calls' # <<>>
    BY <2>1, <2>2
  <2>7. peek' \in Peek
    BY <1>1, <2>1 DEF Peek
  <2>8. TypeOK'
    BY <2>1, <2>3, <2>5, <2>6, <2>7 DEF IInv, TypeOK, Stack, Peek, Peek
  <2>9. MarksBehindCursor'
    BY <1>1, <2>1, <2>5, MarksKept DEF IInv
  <2>10. Modes'
    BY <1>1, <2>1, <2>2, <2>3, <2>5, <2>6, <2>7 DEF Modes, Idle
  <2>11. Paired'
    BY <2>1 DEF IInv, Paired
  <2>12. QED  BY <2>3, <2>8, <2>9, <2>10, <2>11 DEF IInv
<1>5. QED  BY <1>3, <1>4

(* Marks: set, given up, gone back to, and a cursor that stays behind them.  *)
LEMMA MarksMoved ==
  ASSUME MarksBehindCursor, backtrack \in Seq(Nat), backtrack' = backtrack,
         cachedPos' <= Len(cached'),
         isBacktrackEnabled(backtrack) => Last(backtrack) <= cachedPos'
  PROVE  MarksBehindCursor'
BY DEF MarksBehindCursor, isBacktrackEnabled, Last

Behind(b, pos, n) ==
  /\ pos <= n
  /\ \A i \in DOMAIN b : b[i] <= IF i < Len(b) THEN b[i + 1] ELSE pos

(* Without the last mark the others are behind the cursor, and behind the mark
   that the cursor goes back to.                                             *)
LEMMA FrontBehind ==
  ASSUME NEW b \in Seq(Nat), b # <<>>, NEW pos \in Nat, NEW n \in Nat, Behind(b, pos, n),
         NEW q \in {pos, Last(b)}
  PROVE  Front(b) \in Seq(Nat) /\ q \in Nat /\ Behind(Front(b), q, n)
<1> DEFINE f == Front(b)
<1>1. /\ f \in Seq(Nat) /\ Len(f) = Len(b) - 1
      /\ \A i \in 1..Len(b) - 1 : f[i] = b[i]
      /\ Len(b) \in Nat /\ Len(b) >= 1 /\ Last(b) \in Nat
  BY FrontFields
<1> HIDE DEF f
<1>2. DOMAIN b = 1..Len(b) /\ DOMAIN f = 1..Len(f)
  BY <1>1
<1>3. /\ \A i \in 1..Len(b) : b[i] \in Nat
      /\ \A i \in 1..Len(b) : b[i] <= IF i < Len(b) THEN b[i + 1] ELSE pos
      /\ pos <= n
  BY <1>2, SMTT(30) DEF Behind
<1>4. Last(b) <= pos
  BY <1>1, <1>3 DEF Last
<1>5. q \in Nat /\ q <= n /\ Last(b) <= q
  BY <1>1, <1>3, <1>4
<1>6. ASSUME NEW i \in 1..Len(f)
      PROVE  f[i] <= IF i < Len(f) THEN f[i + 1] ELSE q
  <2>1. /\ i \in 1..Len(b) /\ i < Len(b) /\ f[i] = b[i] /\ i + 1 \in 1..Len(b)
        /\ b[i] <= b[i + 1] /\ b[i] \in Nat /\ b[i + 1] \in Nat
    BY <1>1, <1>3
  <2>2. CASE i < Len(f)
    <3>1. f[i + 1] = b[i + 1]
      <4>1. Len(f) \in Nat /\ i + 1 \in 1..Len(f)
        BY <1>1, <2>2
      <4>2. QED  BY <1>1, <4>1
    <3>2. f[i] <= f[i + 1]
      BY <2>1, <3>1
    <3>3. QED  BY <2>2, <3>2
  <2>3. CASE ~(i < Len(f))
    <3>1. i + 1 = Len(b)
      BY <1>1, <2>3
    <3>2. b[i] <= Last(b)
      BY <2>1, <3>1 DEF Last
    <3>3. QED  BY <1>1, <1>5, <2>1, <2>3, <3>2
  <2>4. QED  BY <2>2, <2>3
<1>7. QED  BY <1>1, <1>2, <1>5, <1>6 DEF Behind, f

(* A mark at the cursor is behind it and not before the others.              *)
LEMMA AppendBehind ==
  ASSUME NEW b \in Seq(Nat), NEW pos \in Nat, NEW n \in Nat, Behind(b, pos, n)
  PROVE  Append(b, pos) \in Seq(Nat) /\ Behind(Append(b, pos), pos, n)
<1> DEFINE a == Append(b, pos)
<1>1. /\ a \in Seq(Nat) /\ Len(b) \in Nat
      /\ Len(a) = Len(b) + 1 /\ a[Len(b) + 1] = pos
      /\ \A i \in 1..Len(b) : a[i] = b[i] /\ b[i] \in Nat
      /\ DOMAIN b = 1..Len(b) /\ DOMAIN a = 1..Len(b) + 1
  OBVIOUS
<1> HIDE DEF a
<1>2. /\ \A i \in 1..Len(b) : b[i] <= IF i < Len(b) THEN b[i + 1] ELSE pos
      /\ pos <= n
  BY <1>1 DEF Behind
<1>3. ASSUME NEW i \in 1..Len(b) + 1
      PROVE  a[i] <= IF i < Len(a) THEN a[i + 1] ELSE pos
  <2>1. CASE i = Len(b) + 1
    BY <1>1, <2>1
  <2>2. CASE i \in 1..Len(b) /\ i < Len(b)
    <3>1. i + 1 \in 1..Len(b) /\ i < Len(a)
      BY <1>1, <2>2
    <3>2. QED  BY <1>1, <1>2, <2>2, <3>1
  <2>3. CASE i = Len(b)
    <3>1. i \in 1..Len(b) /\ i < Len(a) /\ i + 1 = Len(b) + 1
      BY <1>1, <2>3
    <3>2. QED  BY <1>1, <1>2, <2>3, <3>1
  <2>4. i = Len(b) + 1 \/ (i \in 1..Len(b) /\ i < Len(b)) \/ i = Len(b)
    <3>1. Len(b) \in Nat
      BY <1>1
    <3>2. QED  BY <3>1
  <2>5. QED  BY <2>1, <2>2, <2>3, <2>4
<1>4. QED  BY <1>1, <1>2, <1>3 DEF Behind, a

(* Behind is what MarksBehindCursor says.                                   *)
LEMMA MarksBehind ==
  /\ MarksBehindCursor <=> Behind(backtrack, cachedPos, Len(cached))
  /\ MarksBehindCursor' <=> Behind(backtrack', cachedPos', Len(cached'))
BY DEF MarksBehindCursor, Behind

(* CommitBacktrackedTokens and Backtrack take the last mark away.            *)
LEMMA MarksFewer ==
  ASSUME MarksBehindCursor, backtrack \in Seq(Nat), backtrack # <<>>,
         backtrack' = Front(backtrack), cached' = cached,
         cachedPos' \in {cachedPos, Last(backtrack)}, cachedPos \in Nat, Len(cached) \in Nat
  PROVE  MarksBehindCursor' /\ backtrack' \in Seq(Nat) /\ cachedPos' \in Nat
BY MarksBehind, FrontBehind

(* What had been read at the last mark goes away with it.                    *)
LEMMA FrontSaved ==
  ASSUME saved \in Seq(Seq(Token)), backtrack \in Seq(Nat), backtrack # <<>>, Paired
  PROVE  /\ Front(saved) \in Seq(Seq(Token)) /\ Last(saved) \in Seq(Token)
         /\ Len(Front(saved)) = Len(Front(backtrack))
<1>1. Len(backtrack) >= 1 /\ saved # <<>>
  BY DEF Paired
<1>2. QED  BY <1>1, FrontFields DEF Paired

(* A tentative parse begins in caching mode, with a mark at the cursor.      *)
LEMMA EnableBacktrackKeeps == ASSUME IInv, EnableBacktrackAtThisPos PROVE IInv'
<1>1. Stack(lexers') /\ InCachingLexMode(lexers')
  BY EnterStack DEF IInv, EnableBacktrackAtThisPos
<1>2. /\ cachedPos \in Nat /\ backtrack \in Seq(Nat) /\ backtrack' = Append(backtrack, cachedPos)
      /\ cachedPos' = cachedPos /\ cached' = cached
      /\ saved' = Append(saved, read) /\ saved \in Seq(Seq(Token)) /\ read \in Seq(Token)
      /\ UNCHANGED <<calls, ret, read, peek>>
  BY DEF IInv, TypeOK, EnableBacktrackAtThisPos
<1>3. backtrack' \in Seq(Nat) /\ saved' \in Seq(Seq(Token)) /\ Paired'
  BY <1>2 DEF IInv, Paired
<1>4. TypeOK'
  BY <1>1, <1>2, <1>3 DEF IInv, TypeOK, Stack
<1>5. MarksBehindCursor'
  <2>1. Len(cached) \in Nat
    BY DEF IInv, TypeOK
  <2>2. QED  BY <1>2, <2>1, MarksBehind, AppendBehind DEF IInv
<1>6. Modes'
  BY <1>1, <1>2, TentativeMode, IdleModes DEF EnableBacktrackAtThisPos
<1>7. QED  BY <1>1, <1>3, <1>4, <1>5, <1>6 DEF IInv

(* A tentative parse is given up: its mark goes, the cache stays.            *)
LEMMA CommitKeeps == ASSUME IInv, CommitBacktrackedTokens PROVE IInv'
<1>1. /\ cachedPos \in Nat /\ backtrack \in Seq(Nat) /\ backtrack # <<>>
      /\ backtrack' = Front(backtrack) /\ saved' = Front(saved)
      /\ saved \in Seq(Seq(Token)) /\ Len(cached) \in Nat
      /\ UNCHANGED <<lexers, cached, cachedPos, calls, ret, read, peek>>
  BY DEF IInv, TypeOK, CommitBacktrackedTokens, isBacktrackEnabled
<1>2. MarksBehindCursor' /\ backtrack' \in Seq(Nat)
  BY <1>1, MarksFewer DEF IInv
<1>3. saved' \in Seq(Seq(Token)) /\ Paired'
  BY <1>1, FrontSaved DEF IInv, Paired
<1>4. TypeOK' /\ Stack(lexers')
  BY <1>1, <1>2, <1>3 DEF IInv, TypeOK
<1>5. Modes'
  BY <1>1, TentativeMode, IdleModes DEF CommitBacktrackedTokens, Empty
<1>6. QED  BY <1>2, <1>3, <1>4, <1>5 DEF IInv

(* A tentative parse is taken back: the cursor is where its mark was.        *)
LEMMA BacktrackKeeps == ASSUME IInv, Backtrack PROVE IInv'
<1>1. /\ cachedPos \in Nat /\ backtrack \in Seq(Nat) /\ backtrack # <<>>
      /\ backtrack' = Front(backtrack) /\ saved' = Front(saved)
      /\ cachedPos' = Last(backtrack) /\ read' = Last(saved) /\ peek' = None
      /\ saved \in Seq(Seq(Token)) /\ Len(cached) \in Nat
      /\ UNCHANGED <<lexers, cached, calls, ret>>
  BY DEF IInv, TypeOK, Backtrack, isBacktrackEnabled
<1>2. MarksBehindCursor' /\ backtrack' \in Seq(Nat) /\ cachedPos' \in Nat
  BY <1>1, MarksFewer DEF IInv
<1>3. saved' \in Seq(Seq(Token)) /\ read' \in Seq(Token) /\ Paired'
  BY <1>1, FrontSaved DEF IInv, Paired
<1>4. TypeOK' /\ Stack(lexers')
  BY <1>1, <1>2, <1>3 DEF IInv, TypeOK
<1>5. Modes'
  BY <1>1, TentativeMode, IdleModes DEF Backtrack, Empty
<1>6. QED  BY <1>2, <1>3, <1>4, <1>5 DEF IInv

-----------------------------------------------------------------------------
(* Annotations                                                              *)

(* A set of places that is not empty has a last one.                        *)
LEMMA Greatest ==
  ASSUME NEW n \in Nat, NEW S, S \subseteq 1..n, S # {}
  PROVE  \E i \in S : \A j \in S : j <= i
<1> DEFINE T == {n - i : i \in S}
<1>1. T \subseteq Nat /\ T # {}
  <2>1. ASSUME NEW i \in S PROVE n - i \in Nat
    <3>1. i \in 1..n
      OBVIOUS
    <3>2. QED  BY <3>1
  <2>2. PICK i \in S : TRUE
    OBVIOUS
  <2>3. n - i \in T
    BY <2>2
  <2>4. QED  BY <2>1, <2>3
<1>2. PICK m \in T : \A k \in T : m <= k
  <2> HIDE DEF T
  <2>1. QED  BY <1>1, Smallest
<1>3. PICK i \in S : m = n - i
  BY <1>2
<1>4. ASSUME NEW j \in S PROVE j <= i
  <2>1. n - j \in T
    OBVIOUS
  <2>2. n - i <= n - j
    BY <1>2, <1>3, <2>1
  <2>3. i \in 1..n /\ j \in 1..n
    OBVIOUS
  <2>4. QED  BY <2>2, <2>3
<1>5. QED  BY <1>4

(* The token an annotation begins with is one of those it may cover.         *)
LEMMA LastBeginInRange ==
  ASSUME NEW c, NEW pos \in Nat, NEW t, BeginsAt(c, pos, t) # {}
  PROVE  LastBegin(c, pos, t) \in 1..pos
<1> DEFINE B == BeginsAt(c, pos, t)
<1>1. B \subseteq 1..pos
  BY DEF BeginsAt
<1> HIDE DEF B
<1>2. B # {}
  BY DEF B
<1>3. \E i \in B : \A j \in B : j <= i
  BY <1>1, <1>2, Greatest
<1>4. (CHOOSE i \in B : \A j \in B : j <= i) \in B
  BY <1>3
<1>5. LastBegin(c, pos, t) \in B
  BY <1>4 DEF LastBegin, B
<1>6. QED  BY <1>1, <1>5

(* The part of a sequence between two places of it.                         *)
LEMMA Part ==
  ASSUME NEW S, NEW s \in Seq(S), NEW m \in Nat, m >= 1, NEW n \in Nat, n <= Len(s)
  PROVE  /\ SubSeq(s, m, n) \in Seq(S) /\ Len(SubSeq(s, m, n)) \in Nat
         /\ m <= n + 1 => Len(SubSeq(s, m, n)) = n + 1 - m
<1>1. \A i \in m..n : s[i] \in S
  OBVIOUS
<1>2. m \in Int /\ n \in Int
  OBVIOUS
<1>3. /\ SubSeq(s, m, n) \in Seq(S)
      /\ Len(SubSeq(s, m, n)) = IF m <= n THEN n - m + 1 ELSE 0
  BY <1>1, <1>2, SubSeqProperties
<1>4. QED  BY <1>3

(* The cache with an annotation in it reaches up to the annotation at least. *)
LEMMA AnnotatedTyped ==
  ASSUME NEW c \in Seq(Token), NEW pos \in Nat, pos <= Len(c),
         NEW i \in 1..pos + 1, NEW t \in Token
  PROVE  /\ Annotated(c, i, pos, t) \in Seq(Token)
         /\ i <= Len(Annotated(c, i, pos, t))
<1> DEFINE before == SubSeq(c, 1, i - 1)
           after == SubSeq(c, pos + 1, Len(c))
<1>1. /\ Len(c) \in Nat /\ i - 1 \in Nat /\ i - 1 <= Len(c)
      /\ pos + 1 \in Nat /\ pos + 1 >= 1 /\ 1 \in Nat
  OBVIOUS
<1>2. before \in Seq(Token) /\ Len(before) \in Nat /\ after \in Seq(Token) /\ Len(after) \in Nat
  BY <1>1, Part
<1>3. Len(before) = i - 1
  <2>1. 1 <= i - 1 + 1 /\ i - 1 + 1 - 1 = i - 1
    BY <1>1
  <2>2. QED  BY <1>1, <2>1, Part
<1> HIDE DEF before, after
<1> DEFINE a == before \o <<t>>
<1>4. a \in Seq(Token) /\ Len(a) = i
  <2>1. <<t>> \in Seq(Token) /\ Len(<<t>>) = 1
    OBVIOUS
  <2>2. a \in Seq(Token) /\ Len(a) = Len(before) + 1
    <3>1. before \in Seq(Token) /\ Len(before) \in Nat
      BY <1>2
    <3>2. QED  BY <3>1
  <2>3. i \in Nat
    OBVIOUS
  <2>4. QED  BY <1>3, <2>2, <2>3
<1> HIDE DEF a
<1>5. a \o after \in Seq(Token) /\ Len(a \o after) = Len(a) + Len(after)
  BY <1>2, <1>4, ConcatProperties
<1>6. Annotated(c, i, pos, t) = (before \o <<t>>) \o after
  BY DEF Annotated, before, after
<1>7. Annotated(c, i, pos, t) = a \o after
  BY <1>6 DEF a
<1>8. QED  BY <1>1, <1>2, <1>4, <1>5, <1>7

(* AnnotateCachedTokens leaves the cursor in the cache and behind the last mark,
   by its assertion, and without a mark does nothing.                        *)
LEMMA AnnotateTyped ==
  ASSUME cached \in Seq(Token), NEW pos \in Nat, pos <= Len(cached), NEW t \in Token,
         AnnotateCachedTokens(pos, t), backtrack \in Seq(Nat),
         isBacktrackEnabled(backtrack) => Last(backtrack) <= pos
  PROVE  /\ cached' \in Seq(Token) /\ cachedPos' \in Nat /\ cachedPos' <= Len(cached')
         /\ isBacktrackEnabled(backtrack) => Last(backtrack) <= cachedPos'
         /\ ~isBacktrackEnabled(backtrack) => cached' = cached /\ cachedPos' = pos
<1> DEFINE B == BeginsAt(cached, pos, t)
           i == LastBegin(cached, pos, t)
<1>1. CASE ~(pos # 0 /\ isBacktrackEnabled(backtrack))
  BY <1>1 DEF AnnotateCachedTokens
<1>2. CASE pos # 0 /\ isBacktrackEnabled(backtrack) /\ B = {}
  BY <1>2 DEF AnnotateCachedTokens
<1>3. CASE pos # 0 /\ isBacktrackEnabled(backtrack) /\ B # {}
  <2>1. /\ AnnotationAsserted(pos, t)
        /\ cached' = Annotated(cached, i, pos, t) /\ cachedPos' = i
    BY <1>3 DEF AnnotateCachedTokens
  <2>2. Last(backtrack) < i
    BY <1>3, <2>1 DEF AnnotationAsserted
  <2>3. i \in 1..pos
    BY <1>3, LastBeginInRange
  <2>4. Last(backtrack) \in Nat
    BY <1>3, FrontFields DEF isBacktrackEnabled
  <2> HIDE DEF i, B
  <2>5. cached' \in Seq(Token) /\ i <= Len(cached')
    BY <2>1, <2>3, AnnotatedTyped
  <2>6. QED  BY <1>3, <2>1, <2>2, <2>3, <2>4, <2>5
<1>4. QED  BY <1>1, <1>2, <1>3

(* The cursor is behind the last mark, if there is one.                     *)
LEMMA CursorBehindMark ==
  ASSUME IInv
  PROVE  /\ cached \in Seq(Token) /\ backtrack \in Seq(Nat) /\ cachedPos \in Nat
         /\ cachedPos <= Len(cached) /\ Len(cached) \in Nat
         /\ isBacktrackEnabled(backtrack) =>
              Last(backtrack) <= cachedPos /\ Last(backtrack) \in Nat
<1>1. /\ cached \in Seq(Token) /\ backtrack \in Seq(Nat) /\ cachedPos \in Nat
      /\ cachedPos <= Len(cached)
  BY DEF IInv, TypeOK, MarksBehindCursor
<1>2. ASSUME isBacktrackEnabled(backtrack)
      PROVE  Last(backtrack) <= cachedPos /\ Last(backtrack) \in Nat
  <2>1. Len(backtrack) \in Nat /\ Len(backtrack) >= 1 /\ Last(backtrack) \in Nat
    BY <1>1, <1>2, FrontFields DEF isBacktrackEnabled
  <2>2. Len(backtrack) \in DOMAIN backtrack
    BY <1>1, <2>1
  <2>3. QED  BY <2>1, <2>2 DEF IInv, MarksBehindCursor, Last
<1>3. QED  BY <1>1, <1>2

(* A name is annotated in the cache, where there is a mark to keep.          *)
LEMMA AnnotateNameKeeps ==
  ASSUME IInv, NEW j \in 1..Len(read), AnnotateName(j)
  PROVE  IInv'
<1>1. /\ read \in Seq(Token) /\ j \in Nat /\ j >= 1 /\ j <= Len(read)
      /\ AnnotateCachedTokens(cachedPos, Covered(read, j)) /\ read' = Covering(read, j)
      /\ UNCHANGED <<lexers, backtrack, calls, ret, saved, peek>>
  BY DEF IInv, TypeOK, AnnotateName
<1>2. Covered(read, j) \in Token /\ read' \in Seq(Token)
  BY <1>1, CoveredTyped
<1>3. /\ cached' \in Seq(Token) /\ cachedPos' \in Nat /\ cachedPos' <= Len(cached')
      /\ isBacktrackEnabled(backtrack) => Last(backtrack) <= cachedPos'
      /\ ~isBacktrackEnabled(backtrack) => cached' = cached /\ cachedPos' = cachedPos
  BY <1>1, <1>2, CursorBehindMark, AnnotateTyped
<1>4. TypeOK' /\ Stack(lexers') /\ Paired'
  BY <1>1, <1>2, <1>3 DEF IInv, TypeOK, Paired
<1>5. MarksBehindCursor'
  BY <1>1, <1>3, CursorBehindMark, MarksMoved DEF IInv
<1>6. ~InCachingLexMode(lexers') => Empty'
  BY <1>1, <1>3, TentativeMode DEF AnnotateName, Empty, isBacktrackEnabled
<1>7. Modes'
  BY <1>1, <1>6, TentativeMode, IdleModes DEF AnnotateName
<1>8. QED  BY <1>4, <1>5, <1>7 DEF IInv

(* To enter a token is to annotate none.                                    *)
LEMMA EnteredTyped ==
  ASSUME cached \in Seq(Token), cachedPos \in Nat, cachedPos <= Len(cached), NEW t \in Token
  PROVE  Entered(t) \in Seq(Token) /\ cachedPos <= Len(Entered(t)) /\ Len(Entered(t)) \in Nat
<1>1. Entered(t) = Annotated(cached, cachedPos + 1, cachedPos, t)
  BY DEF Entered, Annotated, InsertAt
<1>2. cachedPos + 1 \in 1..cachedPos + 1
  OBVIOUS
<1>3. Entered(t) \in Seq(Token) /\ cachedPos + 1 <= Len(Entered(t))
  BY <1>1, <1>2, AnnotatedTyped
<1>4. Len(Entered(t)) \in Nat
  BY <1>3
<1>5. QED  BY <1>3, <1>4

(* Tok is reverted or entered, and the tokens before it are annotated.       *)
LEMMA AnnotateScopeKeeps ==
  ASSUME IInv, NEW j \in 1..Len(read), NEW isNew \in BOOLEAN, AnnotateScopeToken(j, isNew)
  PROVE  IInv'
<1> DEFINE t == Covered(Front(read), j)
<1>1. /\ read \in Seq(Token) /\ read # <<>> /\ Len(read) > 1 /\ j \in Nat /\ j >= 1
      /\ j <= Len(Front(read)) /\ read' = Covering(Front(read), j) /\ peek' = None
      /\ UNCHANGED <<backtrack, calls, ret, saved>>
  BY DEF IInv, TypeOK, AnnotateScopeToken, CanCover
<1>2. Front(read) \in Seq(Token) /\ Tok \in Token
  BY <1>1, FrontFields DEF Tok
<1>3. t \in Token /\ read' \in Seq(Token)
  BY <1>1, <1>2, CoveredTyped
<1>4. /\ cached' \in Seq(Token) /\ cachedPos' \in Nat /\ cachedPos' <= Len(cached')
      /\ isBacktrackEnabled(backtrack) => Last(backtrack) <= cachedPos'
      /\ Stack(lexers') /\ InCachingLexMode(lexers')
  <2>1. CASE isBacktrackEnabled(backtrack)
    <3>1. /\ cachedPos > Last(backtrack) /\ UNCHANGED lexers
          /\ IF isNew THEN AnnotateCachedTokens(cachedPos - 1, t)
             ELSE cached' = cached /\ cachedPos' = cachedPos - 1
      BY <2>1 DEF AnnotateScopeToken
    <3>2. Stack(lexers') /\ InCachingLexMode(lexers')
      BY <2>1, <3>1, TentativeMode DEF IInv, AnnotateScopeToken
    <3> HIDE DEF t
    <3>3. /\ cachedPos - 1 \in Nat /\ cachedPos - 1 <= Len(cached)
          /\ Last(backtrack) <= cachedPos - 1
      BY <2>1, <3>1, CursorBehindMark
    <3>4. CASE isNew
      BY <1>3, <2>1, <3>1, <3>2, <3>3, <3>4, CursorBehindMark, AnnotateTyped
    <3>5. CASE ~isNew
      BY <3>1, <3>2, <3>3, <3>5, CursorBehindMark
    <3>6. QED  BY <3>4, <3>5
  <2>2. CASE ~isBacktrackEnabled(backtrack)
    <3>1. /\ cached' = Entered(Tok) /\ lexers' = EnterCachingLexMode(lexers)
          /\ cachedPos' = cachedPos
      BY <2>2 DEF AnnotateScopeToken
    <3>2. Stack(lexers') /\ InCachingLexMode(lexers')
      BY <3>1, EnterStack DEF IInv
    <3>3. QED  BY <1>2, <2>2, <3>1, <3>2, CursorBehindMark, EnteredTyped
  <2>3. QED  BY <2>1, <2>2
<1>5. TypeOK' /\ Stack(lexers') /\ Paired'
  BY <1>1, <1>3, <1>4 DEF IInv, TypeOK, Paired, Stack
<1>6. MarksBehindCursor'
  BY <1>1, <1>4, CursorBehindMark, MarksMoved DEF IInv
<1>7. Modes'
  BY <1>1, <1>4, TentativeMode, IdleModes DEF AnnotateScopeToken
<1>8. QED  BY <1>5, <1>6, <1>7 DEF IInv

(* A token that is entered is behind the cursor, in caching mode.            *)
LEMMA EnterTokenKeeps == ASSUME IInv, EnterToken PROVE IInv'
<1>1. /\ read \in Seq(Token) /\ read # <<>> /\ lexers' = EnterCachingLexMode(lexers)
      /\ cached' = Entered(Tok) /\ read' = Append(read, <<>>) /\ peek' = None
      /\ UNCHANGED <<cachedPos, backtrack, calls, ret, saved>>
  BY DEF IInv, TypeOK, EnterToken
<1>2. Tok \in Token /\ <<>> \in Token
  BY <1>1, FrontFields DEF Tok, Token
<1>3. read' \in Seq(Token)
  BY <1>1, <1>2
<1>4. Stack(lexers') /\ InCachingLexMode(lexers')
  BY <1>1, EnterStack DEF IInv
<1>5. cached' \in Seq(Token) /\ cachedPos <= Len(cached')
  BY <1>1, <1>2, CursorBehindMark, EnteredTyped
<1>6. TypeOK' /\ Paired'
  BY <1>1, <1>3, <1>4, <1>5 DEF IInv, TypeOK, Paired, Stack
<1>7. MarksBehindCursor'
  BY <1>1, <1>5, CursorBehindMark, MarksMoved DEF IInv
<1>8. Modes'
  BY <1>1, <1>4, TentativeMode, IdleModes DEF EnterToken
<1>9. QED  BY <1>4, <1>6, <1>7, <1>8 DEF IInv

(* A stream is pushed outside caching mode only, where the cache is empty.   *)
LEMMA EnterTokenStreamKeeps ==
  ASSUME IInv, ~StreamsWhileCaching, NEW s \in Streams, EnterTokenStream(s)
  PROVE  IInv'
<1> DEFINE words == Append(s, Tok)
           x == [kind |-> "stream", words |-> words]
<1>1. /\ read \in Seq(Token) /\ read # <<>> /\ ~InCachingLexMode(lexers)
      /\ lexers' = Append(lexers, x) /\ read' = Front(read) /\ peek' = None
      /\ calls' = <<Calling("ConsumeToken")>>
      /\ UNCHANGED <<cached, cachedPos, backtrack, ret, saved>>
  BY DEF IInv, TypeOK, EnterTokenStream
<1>2. Tok \in Token /\ read' \in Seq(Token)
  BY <1>1, FrontFields DEF Tok
<1>3. s \in Seq(Token)
  BY TokenCacheAssumption
<1>4. words \in Seq(Word)
  <2>1. s \in Seq(Word) /\ Tok \in Word
    BY <1>2, <1>3, SeqMonotonic DEF Word
  <2>2. QED  BY <2>1
<1>5. x \in Lexer /\ x.kind # "caching"
  <2> HIDE DEF words
  <2>1. QED  BY <1>4 DEF Lexer
<1>6. Stack(lexers') /\ ~InCachingLexMode(lexers')
  <2> HIDE DEF x
  <2>1. QED  BY <1>1, <1>5, PushStack DEF IInv
<1>7. TypeOK' /\ Paired'
  BY <1>1, <1>2, <1>6, CallTyped DEF IInv, TypeOK, Paired, Stack
<1>8. MarksBehindCursor'
  BY <1>1 DEF IInv, MarksBehindCursor
<1>9. Empty'
  BY <1>1, TentativeMode DEF EnterTokenStream, Empty
<1>10. Modes'
  BY <1>1, <1>9, ConsumeModes
<1>11. QED  BY <1>6, <1>7, <1>8, <1>10 DEF IInv

-----------------------------------------------------------------------------
(* Lex keeps it, from whatever is on top of the stack                       *)

(* A call waits: there are one or two, and in caching mode one of the parser's. *)
LEMMA Waiting ==
  ASSUME IInv, ~Idle
  PROVE  /\ calls \in Seq(Call) /\ Len(calls) \in {1, 2} /\ Last(calls) = calls[Len(calls)]
         /\ InCachingLexMode(lexers) => Len(calls) = 1 /\ calls[1].fn = "ConsumeToken"
<1>1. calls \in Seq(Call) /\ calls # <<>> /\ Len(calls) <= 2
  BY DEF IInv, TypeOK, Modes, Idle
<1>2. Len(calls) \in {1, 2}
  BY <1>1
<1>3. QED  BY <1>1, <1>2 DEF IInv, Modes, Last

(* Below the cache a lexer hands out a token and another one may take over:
   the calls, the cache and the mode stay.                                  *)
LEMMA BelowCacheKeeps ==
  ASSUME IInv, ~Idle, ~InCachingLexMode(lexers), Stack(lexers'), ~InCachingLexMode(lexers'),
         ret' \in Token \cup {None},
         UNCHANGED <<cached, cachedPos, backtrack, calls, read, saved, peek>>
  PROVE  IInv'
<1>1. TypeOK' /\ Paired'
  BY DEF IInv, TypeOK, Paired, Stack
<1>2. MarksBehindCursor'
  BY DEF IInv, MarksBehindCursor
<1>3. Modes'
  BY DEF IInv, Modes, Idle, Empty
<1>4. QED  BY <1>1, <1>2, <1>3 DEF IInv

(* The lexer that has words is none that caches.                            *)
LEMMA TopWords ==
  ASSUME IInv, Top.words # <<>>
  PROVE  /\ ~InCachingLexMode(lexers)
         /\ Head(Top.words) \in Word /\ Tail(Top.words) \in Seq(Word)
         /\ [Top EXCEPT !.words = Tail(@)] = [Last(lexers) EXCEPT !.words = Tail(Top.words)]
<1>1. lexers \in Seq(Lexer) /\ lexers # <<>>
  BY DEF IInv, TypeOK
<1>2. Top \in Lexer /\ Len(lexers) \in DOMAIN lexers /\ Top = lexers[Len(lexers)]
  BY <1>1 DEF Top, Last
<1>3. Top.words \in Seq(Word)
  BY <1>2 DEF Lexer
<1>4. ~InCachingLexMode(lexers)
  BY <1>2 DEF IInv, Stack, InCachingLexMode, Top
<1>5. QED  BY <1>3, <1>4 DEF Top

(* A word of the text is a token if no macro has its name.                   *)
LEMMA LexKeeps == ASSUME IInv, Lex PROVE IInv'
<1>1. /\ ~Idle /\ Top.words # <<>> /\ Head(Top.words) \notin Macro
      /\ ret' = Head(Top.words)
      /\ lexers' = Append(Front(lexers), [Top EXCEPT !.words = Tail(@)])
      /\ UNCHANGED <<cached, cachedPos, backtrack, calls, read, saved, peek>>
  BY DEF Lex, Waits, Idle, SetTop
<1>2. ret' \in Token
  BY <1>1, TopWords DEF Word
<1>3. Stack(lexers') /\ ~InCachingLexMode(lexers')
  BY <1>1, TopWords, SetTopStack DEF IInv
<1>4. QED  BY <1>1, <1>2, <1>3, TopWords, BelowCacheKeeps

(* The lexer of an expansion is pushed on one that has words, so on none that
   caches.                                                                   *)
LEMMA EnterMacroKeeps == ASSUME IInv, EnterMacro PROVE IInv'
<1> DEFINE under == Append(Front(lexers), [Top EXCEPT !.words = Tail(@)])
           body == Expansion[Head(Top.words)]
           x == [kind |-> "stream", words |-> body]
<1>1. /\ ~Idle /\ ret = None /\ Top.words # <<>> /\ Head(Top.words) \in Macro
      /\ lexers' = IF body = <<>> THEN under ELSE Append(under, x)
      /\ UNCHANGED <<cached, cachedPos, backtrack, calls, ret, read, saved, peek>>
  BY DEF EnterMacro, Waits, Idle
<1>2. Stack(under) /\ ~InCachingLexMode(under)
  BY <1>1, TopWords, SetTopStack DEF IInv
<1>3. x \in Lexer /\ x.kind # "caching"
  <2>1. body \in Seq(Token)
    BY <1>1, TokenCacheAssumption
  <2>2. body \in Seq(Word)
    BY <2>1, SeqMonotonic DEF Word
  <2> HIDE DEF body
  <2>3. QED  BY <2>2 DEF Lexer
<1> HIDE DEF under, x
<1>4. Stack(lexers') /\ ~InCachingLexMode(lexers')
  BY <1>1, <1>2, <1>3, PushStack
<1>5. QED  BY <1>1, <1>4, TopWords, BelowCacheKeeps

(* A lexer at its end is popped; the one under it is no caching lexer.       *)
LEMMA HandleEndKeeps == ASSUME IInv, HandleEndOfTokenLexer PROVE IInv'
<1>1. /\ ~Idle /\ ret = None /\ ~InCachingLexMode(lexers) /\ Len(lexers) > 1
      /\ lexers' = Front(lexers)
      /\ UNCHANGED <<cached, cachedPos, backtrack, calls, ret, read, saved, peek>>
  BY DEF HandleEndOfTokenLexer, Waits, Idle
<1>2. Stack(lexers') /\ ~InCachingLexMode(lexers')
  BY <1>1, FrontStack DEF IInv
<1>3. QED  BY <1>1, <1>2, BelowCacheKeeps

(* A call within a call.                                                    *)
LEMMA TwoCalls ==
  ASSUME NEW s \in Seq(Call), Len(s) = 1, NEW c \in Call
  PROVE  /\ Append(s, c) \in Seq(Call) /\ Len(Append(s, c)) = 2
         /\ Append(s, c)[1] = s[1] /\ Append(s, c)[2] = c
<1>1. /\ Append(s, c) \in Seq(Call) /\ Len(Append(s, c)) = Len(s) + 1
      /\ \A i \in 1..Len(s) : Append(s, c)[i] = s[i]
      /\ Append(s, c)[Len(s) + 1] = c
  BY AppendProperties, ZenonT(60)
<1>2. 1 \in 1..Len(s) /\ Len(s) + 1 = 2
  OBVIOUS
<1>3. QED  BY <1>1, <1>2

(* CachingLex takes a token of the cache, or leaves caching mode with all of the
   cache consumed.                                                           *)
LEMMA CachingLexKeeps == ASSUME IInv, CachingLex PROVE IInv'
<1>1. /\ ~Idle /\ ret = None /\ InCachingLexMode(lexers)
      /\ UNCHANGED <<cached, backtrack, read, saved, peek>>
  BY DEF CachingLex, Waits, Idle
<1>2. /\ calls \in Seq(Call) /\ Len(calls) = 1 /\ calls[1].fn = "ConsumeToken"
  BY <1>1, Waiting
<1>3. CASE cachedPos < Len(cached)
  <2>1. /\ ret' = cached[cachedPos + 1] /\ cachedPos' = cachedPos + 1
        /\ UNCHANGED <<lexers, calls>>
    BY <1>3 DEF CachingLex
  <2>2. ret' \in Token /\ cachedPos' \in Nat /\ cachedPos' <= Len(cached)
    <3>1. cachedPos + 1 \in 1..Len(cached)
      BY <1>3, CursorBehindMark
    <3>2. QED  BY <2>1, <3>1, CursorBehindMark
  <2>3. TypeOK' /\ Stack(lexers') /\ Paired'
    BY <1>1, <2>1, <2>2 DEF IInv, TypeOK, Paired
  <2>4. isBacktrackEnabled(backtrack) => Last(backtrack) <= cachedPos'
    BY <2>1, CursorBehindMark
  <2>5. MarksBehindCursor'
    BY <1>1, <2>2, <2>4, CursorBehindMark, MarksMoved DEF IInv
  <2>6. Modes'
    <3>1. /\ calls' # <<>> /\ Len(calls') = 1 /\ calls'[1].fn = "ConsumeToken"
          /\ InCachingLexMode(lexers')
      BY <1>1, <1>2, <2>1 DEF Idle
    <3>2. QED  BY <3>1 DEF Modes, Idle
  <2>7. QED  BY <2>3, <2>5, <2>6 DEF IInv
<1>4. CASE ~(cachedPos < Len(cached))
  <2> DEFINE c == Calling("CachingLex")
  <2>1. /\ lexers' = ExitCachingLexMode(lexers) /\ calls' = Append(calls, c)
        /\ UNCHANGED <<ret, cachedPos>>
    BY <1>4 DEF CachingLex
  <2>2. c \in Call /\ c.fn = "CachingLex"
    BY CallTyped
  <2> HIDE DEF c
  <2>3. /\ calls' \in Seq(Call) /\ Len(calls') = 2 /\ calls' # <<>>
        /\ calls'[1] = calls[1] /\ calls'[2] = c
    <3>1. /\ Append(calls, c) \in Seq(Call) /\ Len(Append(calls, c)) = 2
          /\ Append(calls, c)[1] = calls[1] /\ Append(calls, c)[2] = c
      BY <1>2, <2>2, TwoCalls
    <3>2. Append(calls, c) # <<>>
      BY <3>1
    <3>3. QED  BY <2>1, <3>1, <3>2
  <2>4. Stack(lexers') /\ ~InCachingLexMode(lexers')
    BY <2>1, ExitStack DEF IInv
  <2>5. TypeOK' /\ Paired'
    BY <1>1, <2>1, <2>3, <2>4 DEF IInv, TypeOK, Paired, Stack
  <2>6. MarksBehindCursor'
    BY <1>1, <2>1 DEF IInv, MarksBehindCursor
  <2>7. cachedPos' = Len(cached')
    BY <1>1, <1>4, <2>1, CursorBehindMark
  <2>8. Modes'
    BY <1>2, <2>2, <2>3, <2>4, <2>7 DEF Modes, Idle
  <2>9. QED  BY <2>4, <2>5, <2>6, <2>8 DEF IInv
<1>5. QED  BY <1>3, <1>4

-----------------------------------------------------------------------------
(* The calls keep it when they return                                       *)

(* Which call has its token, and that it has one.                           *)
LEMMA Returning ==
  ASSUME IInv, NEW fn, Returns(fn)
  PROVE  /\ ~Idle /\ ret \in Token /\ calls \in Seq(Call) /\ calls # <<>>
         /\ fn = "CachingLex" => Len(calls) = 2
         /\ fn # "CachingLex" => Len(calls) = 1 /\ calls[1].fn = fn
         /\ Last(calls) = calls[Len(calls)] /\ Len(Front(calls)) = Len(calls) - 1
         /\ Front(calls) \in Seq(Call)
         /\ Len(calls) = 2 => Front(calls)[1] = calls[1]
<1>1. /\ ~Idle /\ ret # None /\ Last(calls).fn = fn
      /\ ret \in Token \cup {None} /\ calls \in Seq(Call) /\ calls # <<>>
  BY DEF Returns, IInv, TypeOK, Idle
<1>2. /\ Len(calls) \in {1, 2} /\ Last(calls) = calls[Len(calls)]
  BY <1>1, Waiting
<1>3. /\ Front(calls) \in Seq(Call) /\ Len(Front(calls)) = Len(calls) - 1
      /\ \A i \in 1..Len(calls) - 1 : Front(calls)[i] = calls[i]
  BY <1>1, FrontFields
<1>4. /\ Len(calls) = 1 => calls[1].fn \in {"ConsumeToken", "PeekAhead"}
      /\ Len(calls) = 2 => calls[2].fn = "CachingLex"
  BY DEF IInv, Modes
<1>5. /\ fn = "CachingLex" => Len(calls) = 2
      /\ fn # "CachingLex" => Len(calls) = 1 /\ calls[1].fn = fn
  BY <1>1, <1>2, <1>4
<1>6. Len(calls) = 2 => Front(calls)[1] = calls[1]
  <2>1. \A n \in Nat : n = 2 => 1 \in 1..n - 1
    OBVIOUS
  <2>2. QED  BY <1>2, <1>3, <2>1
<1>7. QED  BY <1>1, <1>2, <1>3, <1>5, <1>6

(* The token that CachingLex has lexed is cached for a tentative parse; without
   one, all of the cache has been consumed and goes.                         *)
LEMMA CachingLexReturnsKeeps == ASSUME IInv, CachingLexReturns PROVE IInv'
<1>1. Returns("CachingLex") /\ calls' = Front(calls) /\ UNCHANGED <<backtrack, ret, read, saved, peek>>
  BY DEF CachingLexReturns
<1>2. ret \in Token /\ Len(calls) = 2 /\ calls' \in Seq(Call) /\ calls'[1] = calls[1]
  <2>1. ret \in Token /\ Len(calls) = 2 /\ Front(calls) \in Seq(Call)
        /\ Front(calls)[1] = calls[1]
    BY <1>1, Returning
  <2>2. QED  BY <1>1, <2>1
<1>3. Len(calls') = 1 /\ calls' # <<>> /\ calls'[1].fn = "ConsumeToken"
  <2>1. Len(Front(calls)) = 1
    BY <1>1, <1>2, Returning
  <2>2. Front(calls) # <<>>
    BY <2>1
  <2>3. calls[1].fn = "ConsumeToken"
    BY <1>2 DEF IInv, Modes
  <2>4. QED  BY <1>1, <1>2, <2>1, <2>2, <2>3
<1>4. ~InCachingLexMode(lexers) /\ cachedPos = Len(cached)
  BY <1>2 DEF IInv, Modes
<1>5. CASE isBacktrackEnabled(backtrack)
  <2>1. /\ cached' = Append(cached, ret) /\ cachedPos' = cachedPos + 1
        /\ lexers' = EnterCachingLexMode(lexers)
    BY <1>5 DEF CachingLexReturns
  <2>2. Stack(lexers') /\ InCachingLexMode(lexers')
    BY <2>1, EnterStack DEF IInv
  <2>3. /\ cached' \in Seq(Token) /\ cachedPos' \in Nat /\ cachedPos' <= Len(cached')
        /\ Last(backtrack) <= cachedPos'
    <3>1. /\ Append(cached, ret) \in Seq(Token) /\ Len(Append(cached, ret)) = Len(cached) + 1
      BY <1>2, CursorBehindMark, AppendProperties
    <3>2. /\ cachedPos + 1 \in Nat /\ cachedPos + 1 <= Len(cached) + 1
          /\ Last(backtrack) <= cachedPos + 1
      BY <1>5, CursorBehindMark
    <3>3. QED  BY <2>1, <3>1, <3>2
  <2>4. TypeOK' /\ Paired'
    BY <1>1, <1>2, <2>2, <2>3 DEF IInv, TypeOK, Paired, Stack
  <2>5. MarksBehindCursor'
    BY <1>1, <2>3, CursorBehindMark, MarksMoved DEF IInv
  <2>6. Modes'
    BY <1>3, <2>2 DEF Modes, Idle
  <2>7. QED  BY <2>2, <2>4, <2>5, <2>6 DEF IInv
<1>6. CASE ~isBacktrackEnabled(backtrack)
  <2>1. ~(cachedPos < Len(cached))
    BY <1>4, CursorBehindMark
  <2>2. cached' = <<>> /\ cachedPos' = 0 /\ UNCHANGED lexers
    BY <1>6, <2>1 DEF CachingLexReturns
  <2>3. backtrack' = <<>>
    BY <1>1, <1>6 DEF isBacktrackEnabled
  <2>4. TypeOK' /\ Stack(lexers') /\ Paired'
    BY <1>1, <1>2, <2>2 DEF IInv, TypeOK, Paired
  <2>5. MarksBehindCursor'
    BY <2>2, <2>3 DEF MarksBehindCursor
  <2>6. Modes'
    <3>1. Empty'
      BY <2>2, <2>3 DEF Empty
    <3>2. QED  BY <1>3, <3>1 DEF Modes, Idle
  <2>7. QED  BY <2>4, <2>5, <2>6 DEF IInv
<1>7. QED  BY <1>5, <1>6

(* The parser has its token: no call waits any more.                         *)
LEMMA ConsumeTokenReturnsKeeps == ASSUME IInv, ConsumeTokenReturns PROVE IInv'
<1>1. /\ Returns("ConsumeToken") /\ calls' = Front(calls) /\ ret' = None
      /\ read' = Append(read, ret)
      /\ UNCHANGED <<lexers, cached, cachedPos, backtrack, saved>>
  BY DEF ConsumeTokenReturns
<1>2. /\ ret \in Token /\ Len(calls) = 1 /\ calls[1].fn = "ConsumeToken"
  BY <1>1, Returning
<1>3. calls' = <<>>
  <2>1. Front(calls) \in Seq(Call) /\ Len(Front(calls)) = Len(calls) - 1
    BY <1>1, Returning
  <2>2. Front(calls) = <<>>
    BY <1>2, <2>1
  <2>3. QED  BY <1>1, <2>2
<1>4. peek' \in Peek \cup {None}
  <2>1. peek \in Peek \cup {None}
    BY DEF IInv, TypeOK, Peek
  <2>2. CASE peek = None
    BY <2>2 DEF ConsumeTokenReturns
  <2>3. CASE peek # None
    <3>1. peek \in Peek /\ peek.n \in Nat /\ peek.tok \in Token \cup {None}
      BY <2>1, <2>3 DEF Peek
    <3>2. CASE peek.n = 0
      BY <2>3, <3>2 DEF ConsumeTokenReturns
    <3>3. CASE peek.n # 0
      <4>1. peek' = [peek EXCEPT !.n = @ - 1]
        BY <2>3, <3>3 DEF ConsumeTokenReturns
      <4>2. peek.n - 1 \in Nat
        BY <3>1, <3>3
      <4>3. peek' \in Peek
        BY <3>1, <4>1, <4>2 DEF Peek
      <4>4. QED  BY <4>3
    <3>4. QED  BY <3>2, <3>3
  <2>4. QED  BY <2>2, <2>3
<1>5. read' \in Seq(Token)
  <2>1. read \in Seq(Token)
    BY DEF IInv, TypeOK
  <2>2. QED  BY <1>1, <1>2, <2>1, AppendProperties
<1>6. calls' \in Seq(Call)
  BY <1>3
<1>7. TypeOK' /\ Stack(lexers') /\ Paired'
  BY <1>1, <1>4, <1>5, <1>6 DEF IInv, TypeOK, Paired, Peek
<1>8. MarksBehindCursor'
  BY <1>1 DEF IInv, MarksBehindCursor
<1>9. ~InCachingLexMode(lexers') => Empty'
  <2>1. ~InCachingLexMode(lexers) => Empty
    BY <1>2 DEF IInv, Modes
  <2>2. QED  BY <1>1, <2>1 DEF Empty
<1>10. Modes'
  BY <1>1, <1>3, <1>9, IdleModes
<1>11. QED  BY <1>7, <1>8, <1>10 DEF IInv

(* PeekAhead fills its slot, and goes on to the next one or back to caching mode. *)
LEMMA PeekAheadReturnsKeeps == ASSUME IInv, PeekAheadReturns PROVE IInv'
<1> DEFINE call == Last(calls)
           stored == [cached EXCEPT ![call.slot] = ret]
<1>1. Returns("PeekAhead") /\ ret' = None /\ UNCHANGED <<cachedPos, backtrack, read, saved>>
  BY DEF PeekAheadReturns
<1>2. /\ ret \in Token /\ calls \in Seq(Call) /\ Len(calls) = 1
      /\ call = calls[1] /\ call \in Call /\ call.fn = "PeekAhead"
  BY <1>1, Returning
<1>3. /\ ~InCachingLexMode(lexers) /\ call.slot = Len(cached)
      /\ cachedPos < Len(cached) /\ peek \in Peek
  BY <1>2 DEF IInv, Modes
<1> HIDE DEF call
<1>4. /\ stored \in Seq(Token) /\ Len(stored) = Len(cached) /\ stored # <<>>
  <2>1. Len(cached) \in 1..Len(cached)
    BY <1>3, CursorBehindMark
  <2>2. /\ stored \in Seq(Token) /\ Len(stored) = Len(cached)
    BY <1>2, <1>3, <2>1, CursorBehindMark, ExceptSeq
  <2> HIDE DEF stored
  <2>3. stored # <<>>
    BY <2>1, <2>2
  <2>4. QED  BY <2>2, <2>3
<1> HIDE DEF stored
<1>5. CASE call.left > 0
  <2> DEFINE next == [call EXCEPT !.left = @ - 1, !.slot = Len(cached) + 1]
  <2>1. /\ cached' = Append(stored, <<>>) /\ calls' = <<next>> /\ UNCHANGED <<lexers, peek>>
    BY <1>5 DEF PeekAheadReturns, call, stored
  <2>2. next \in Call /\ next.fn = "PeekAhead" /\ next.slot = Len(cached) + 1
    <3>1. call.left - 1 \in Nat /\ Len(cached) + 1 \in Nat
      BY <1>2, <1>5, CursorBehindMark DEF Call
    <3>2. QED  BY <1>2, <3>1 DEF Call
  <2> HIDE DEF next
  <2>3. cached' \in Seq(Token) /\ Len(cached') = Len(cached) + 1
    <3>1. <<>> \in Token
      BY DEF Token
    <3>2. QED  BY <1>4, <2>1, <3>1, AppendProperties
  <2>4. calls' \in Seq(Call) /\ Len(calls') = 1 /\ calls'[1] = next /\ calls' # <<>>
    BY <2>1, <2>2
  <2>5. TypeOK' /\ Stack(lexers') /\ Paired'
    BY <1>1, <2>1, <2>3, <2>4 DEF IInv, TypeOK, Paired
  <2>6. MarksBehindCursor'
    <3>1. Len(cached) <= Len(cached') /\ Len(cached') \in Nat
      BY <2>3, CursorBehindMark
    <3>2. QED  BY <1>1, <3>1, CursorBehindMark, MarksKept DEF IInv
  <2>7. ~InCachingLexMode(lexers') /\ cachedPos' < Len(cached') /\ peek' \in Peek
    BY <1>1, <1>3, <2>1, <2>3, CursorBehindMark
  <2>8. Modes'
    BY <2>2, <2>3, <2>4, <2>7 DEF Modes, Idle
  <2>9. QED  BY <2>5, <2>6, <2>8 DEF IInv
<1>6. CASE ~(call.left > 0)
  <2>1. /\ cached' = stored /\ calls' = Front(calls) /\ lexers' = EnterCachingLexMode(lexers)
        /\ peek' = [peek EXCEPT !.tok = Last(stored)]
    BY <1>6 DEF PeekAheadReturns, call, stored
  <2>2. calls' = <<>>
    <3>1. Front(calls) \in Seq(Call) /\ Len(Front(calls)) = Len(calls) - 1
      BY <1>1, Returning
    <3>2. Front(calls) = <<>>
      BY <1>2, <3>1
    <3>3. QED  BY <2>1, <3>2
  <2>3. Stack(lexers') /\ InCachingLexMode(lexers')
    BY <2>1, EnterStack DEF IInv
  <2>4. peek' \in Peek
    <3>1. Last(stored) \in Token
      BY <1>4, FrontFields
    <3>2. QED  BY <1>3, <2>1, <3>1 DEF Peek
  <2>5. calls' \in Seq(Call) /\ cached' \in Seq(Token)
    BY <1>4, <2>1, <2>2
  <2>6. TypeOK' /\ Paired'
    BY <1>1, <2>3, <2>4, <2>5 DEF IInv, TypeOK, Paired, Stack, Peek
  <2>7. MarksBehindCursor'
    <3>1. Len(cached) <= Len(cached') /\ Len(cached') \in Nat
      BY <1>4, <2>1, CursorBehindMark
    <3>2. QED  BY <1>1, <3>1, CursorBehindMark, MarksKept DEF IInv
  <2>8. Modes'
    BY <1>1, <2>2, <2>3, IdleModes
  <2>9. QED  BY <2>3, <2>6, <2>7, <2>8 DEF IInv
<1>7. QED  BY <1>5, <1>6

-----------------------------------------------------------------------------
(* The invariant of the specification, and what follows from it             *)

(* The preprocessor starts with the main file and nothing cached.            *)
LEMMA InitKeeps == Init => IInv
<1> SUFFICES ASSUME Init PROVE IInv
  OBVIOUS
<1> DEFINE x == [kind |-> "file", words |-> File]
<1>1. /\ lexers = <<x>> /\ cached = <<>> /\ cachedPos = 0 /\ backtrack = <<>>
      /\ calls = <<>> /\ ret = None /\ read = <<>> /\ saved = <<>> /\ peek = None
  BY DEF Init
<1>2. x \in Lexer /\ x.kind = "file"
  BY TokenCacheAssumption DEF Lexer
<1> HIDE DEF x
<1>3. /\ lexers \in Seq(Lexer) /\ lexers # <<>> /\ lexers[1] = x
      /\ \A i \in DOMAIN lexers : lexers[i] = x
  BY <1>1, <1>2
<1>4. Stack(lexers)
  BY <1>2, <1>3 DEF Stack
<1>5. TypeOK
  BY <1>1, <1>3 DEF TypeOK
<1>6. MarksBehindCursor /\ Paired
  BY <1>1 DEF MarksBehindCursor, Paired
<1>7. Modes
  BY <1>1 DEF Modes, Idle, Empty
<1>8. QED  BY <1>4, <1>5, <1>6, <1>7 DEF IInv

(* A step that changes nothing.                                              *)
LEMMA StutterKeeps == ASSUME IInv, UNCHANGED vars PROVE IInv'
<1>1. TypeOK' /\ Stack(lexers') /\ Paired'
  BY DEF IInv, TypeOK, Paired, vars
<1>2. MarksBehindCursor'
  BY DEF IInv, MarksBehindCursor, vars
<1>3. Modes'
  BY DEF IInv, Modes, Idle, Empty, vars
<1>4. QED  BY <1>1, <1>2, <1>3 DEF IInv

(* Every step keeps the invariant, provided that no stream is entered in
   caching mode.                                                             *)
LEMMA NextKeeps ==
  ASSUME ~StreamsWhileCaching, IInv, [Next]_vars
  PROVE  IInv'
<1>1. CASE ConsumeToken
  BY <1>1, ConsumeTokenKeeps
<1>2. CASE \E n \in 0..MaxPeek : LookAhead(n)
  BY <1>2, LookAheadKeeps
<1>3. CASE EnableBacktrackAtThisPos
  BY <1>3, EnableBacktrackKeeps
<1>4. CASE CommitBacktrackedTokens
  BY <1>4, CommitKeeps
<1>5. CASE Backtrack
  BY <1>5, BacktrackKeeps
<1>6. ASSUME NEW j \in 1..Len(read), AnnotateName(j) PROVE IInv'
  BY <1>6, AnnotateNameKeeps
<1>7. ASSUME NEW j \in 1..Len(read), NEW isNew \in BOOLEAN, AnnotateScopeToken(j, isNew)
      PROVE  IInv'
  BY <1>7, AnnotateScopeKeeps
<1>8. CASE EnterToken
  BY <1>8, EnterTokenKeeps
<1>9. CASE \E s \in Streams : EnterTokenStream(s)
  BY <1>9, EnterTokenStreamKeeps
<1>10. CASE CachingLex
  BY <1>10, CachingLexKeeps
<1>11. CASE Lex
  BY <1>11, LexKeeps
<1>12. CASE EnterMacro
  BY <1>12, EnterMacroKeeps
<1>13. CASE HandleEndOfTokenLexer
  BY <1>13, HandleEndKeeps
<1>14. CASE CachingLexReturns
  BY <1>14, CachingLexReturnsKeeps
<1>15. CASE ConsumeTokenReturns
  BY <1>15, ConsumeTokenReturnsKeeps
<1>16. CASE PeekAheadReturns
  BY <1>16, PeekAheadReturnsKeeps
<1>17. CASE Finished \/ UNCHANGED vars
  BY <1>17, StutterKeeps DEF Finished
<1>18. QED
  BY <1>1, <1>2, <1>3, <1>4, <1>5, <1>6, <1>7, <1>8, <1>9, <1>10, <1>11, <1>12,
     <1>13, <1>14, <1>15, <1>16, <1>17 DEF Next

(* The invariant holds if no stream is entered in caching mode, which is
   what the parser's calls have to see to.                                  *)
THEOREM CacheInvariant ==
  ASSUME ~StreamsWhileCaching
  PROVE  Spec => []IInv
<1>1. Init => IInv
  BY InitKeeps
<1>2. IInv /\ [Next]_vars => IInv'
  BY NextKeeps
<1>3. QED  BY <1>1, <1>2, PTL DEF Spec

(* Every variable of the preprocessor's cache has its type, the stack of
   lexers is never empty.                                                   *)
THEOREM CacheTyped ==
  ASSUME ~StreamsWhileCaching
  PROVE  Spec => []TypeOK
<1>1. IInv => TypeOK
  BY DEF IInv
<1>2. QED  BY <1>1, CacheInvariant, PTL

(* No backtrack position is corrupted: the cache keeps every token from the
   first mark to the cursor, however often the cache grows, is annotated or
   is forgotten between EnableBacktrackAtThisPos and Backtrack.             *)
THEOREM MarksNeverCorrupted ==
  ASSUME ~StreamsWhileCaching
  PROVE  Spec => []MarksBehindCursor
<1>1. IInv => MarksBehindCursor
  BY DEF IInv
<1>2. QED  BY <1>1, CacheInvariant, PTL

(* No lexer is ever pushed on top of the caching lexer.                     *)
THEOREM CachingStaysOnTop ==
  ASSUME ~StreamsWhileCaching
  PROVE  Spec => []CachingOnTopOnly
<1>1. IInv => CachingOnTopOnly
  BY DEF IInv, Stack, CachingOnTopOnly
<1>2. QED  BY <1>1, CacheInvariant, PTL

(* Between the parser's calls the cache is empty outside caching mode: no
   cached token is passed over by a Lex that goes straight to a lexer.      *)
THEOREM NothingPassedOver ==
  ASSUME ~StreamsWhileCaching
  PROVE  Spec => []NothingCachedOutside
<1>1. IInv => NothingCachedOutside
  BY DEF IInv, Modes, Empty, NothingCachedOutside
<1>2. QED  BY <1>1, CacheInvariant, PTL

-----------------------------------------------------------------------------
(* Parts of sequences                                                       *)

(* A part of a sequence is put together of two parts that meet, of all but its
   last element and that, of its first element and the rest.                *)
LEMMA PartsMeet ==
  ASSUME NEW T, NEW s \in Seq(T), NEW m \in Nat, NEW k \in Nat, NEW n \in Nat,
         m <= k, k <= n, n <= Len(s)
  PROVE  /\ SubSeq(s, m + 1, n) = SubSeq(s, m + 1, k) \o SubSeq(s, k + 1, n)
         /\ SubSeq(s, m + 1, n) \in Seq(T) /\ SubSeq(s, m + 1, k) \in Seq(T)
         /\ SubSeq(s, k + 1, n) \in Seq(T)
<1>1. Len(s) \in Nat
  BY LenProperties
<1>2. m + 1 \in 1..Len(s) + 1 /\ k \in (m + 1) - 1..Len(s) /\ n \in k..Len(s)
  BY <1>1
<1>3. SubSeq(s, m + 1, k) \o SubSeq(s, k + 1, n) = SubSeq(s, m + 1, n)
  BY <1>2, ConcatAdjacentSubSeq
<1>4. m + 1 \in Nat /\ m + 1 >= 1 /\ k + 1 \in Nat /\ k + 1 >= 1 /\ k <= Len(s)
  BY <1>1
<1>5. QED  BY <1>3, <1>4, Part

(* The last element of a part of a sequence.                               *)
LEMMA LastOfPart ==
  ASSUME NEW T, NEW s \in Seq(T), NEW m \in Nat, NEW n \in Nat, m <= n, n < Len(s)
  PROVE  /\ SubSeq(s, m + 1, n + 1) = Append(SubSeq(s, m + 1, n), s[n + 1])
         /\ SubSeq(s, m + 1, n) \in Seq(T) /\ s[n + 1] \in T
<1>1. Len(s) \in Nat
  BY LenProperties
<1>2. m + 1 \in 1..Len(s) /\ n + 1 \in m + 1..Len(s) /\ (n + 1) - 1 = n /\ n + 1 \in 1..Len(s)
  BY <1>1
<1>3. SubSeq(s, m + 1, n + 1) = SubSeq(s, m + 1, (n + 1) - 1) \o <<s[n + 1]>>
  BY <1>2, SubSeqRecursiveSecond
<1>4. m + 1 \in Nat /\ m + 1 >= 1 /\ n <= Len(s)
  BY <1>1
<1>5. SubSeq(s, m + 1, n) \in Seq(T) /\ s[n + 1] \in T
  BY <1>2, <1>4, Part, ElementOfSeq
<1>6. Append(SubSeq(s, m + 1, n), s[n + 1]) = SubSeq(s, m + 1, n) \o <<s[n + 1]>>
  BY <1>5, AppendIsConcat
<1>7. QED  BY <1>2, <1>3, <1>5, <1>6

(* The first element of a part of a sequence.                              *)
LEMMA FirstOfPart ==
  ASSUME NEW T, NEW s \in Seq(T), NEW n \in Nat, n < Len(s)
  PROVE  /\ SubSeq(s, n + 1, Len(s)) = <<s[n + 1]>> \o SubSeq(s, n + 2, Len(s))
         /\ SubSeq(s, n + 2, Len(s)) \in Seq(T) /\ s[n + 1] \in T
<1>1. Len(s) \in Nat
  BY LenProperties
<1>2. n + 1 \in 1..Len(s) /\ Len(s) \in n + 1..Len(s) /\ (n + 1) + 1 = n + 2
  BY <1>1
<1>3. SubSeq(s, n + 1, Len(s)) = <<s[n + 1]>> \o SubSeq(s, (n + 1) + 1, Len(s))
  BY <1>2, SubSeqRecursiveFirst
<1>4. n + 2 \in Nat /\ n + 2 >= 1 /\ Len(s) <= Len(s)
  BY <1>1
<1>5. QED  BY <1>1, <1>2, <1>3, <1>4, Part, ElementOfSeq

(* Two sequences that agree up to a place have the same parts before it.     *)
LEMMA PartsAgree ==
  ASSUME NEW T, NEW s \in Seq(T), NEW t \in Seq(T), NEW n \in Nat,
         n <= Len(s), n <= Len(t), \A i \in 1..n : s[i] = t[i],
         NEW m \in Nat, NEW k \in Nat, k <= n
  PROVE  SubSeq(s, m + 1, k) = SubSeq(t, m + 1, k)
<1> DEFINE a == SubSeq(s, m + 1, k)
           b == SubSeq(t, m + 1, k)
<1>1. Len(s) \in Nat /\ Len(t) \in Nat /\ m + 1 \in Int /\ k \in Int
  BY LenProperties
<1>2. \A i \in m + 1..k : s[i] \in T /\ t[i] \in T /\ s[i] = t[i]
  <2>1. \A i \in m + 1..k : i \in 1..n /\ i \in 1..Len(s) /\ i \in 1..Len(t)
    BY <1>1
  <2>2. QED  BY <2>1, ElementOfSeq
<1>3. /\ a \in Seq(T) /\ Len(a) = (IF m + 1 <= k THEN k - (m + 1) + 1 ELSE 0)
      /\ \A i \in 1..k - (m + 1) + 1 : a[i] = s[(m + 1) + i - 1]
  BY <1>1, <1>2, SubSeqProperties
<1>4. /\ b \in Seq(T) /\ Len(b) = (IF m + 1 <= k THEN k - (m + 1) + 1 ELSE 0)
      /\ \A i \in 1..k - (m + 1) + 1 : b[i] = t[(m + 1) + i - 1]
  BY <1>1, <1>2, SubSeqProperties
<1> HIDE DEF a, b
<1>5. ASSUME NEW i \in 1..Len(a) PROVE a[i] = b[i]
  <2>1. i \in 1..k - (m + 1) + 1 /\ (m + 1) + i - 1 \in m + 1..k
    BY <1>3
  <2>2. QED  BY <1>2, <1>3, <1>4, <2>1
<1>6. a = b
  BY <1>3, <1>4, <1>5, SeqEqual
<1>7. QED  BY <1>6 DEF a, b

(* A sequence that is another with an element before it.                    *)
LEMMA PutBefore ==
  ASSUME NEW T, NEW x \in T, NEW s \in Seq(T), NEW v \in Seq(T), Len(v) = Len(s) + 1,
         v[1] = x, \A i \in 1..Len(s) : v[i + 1] = s[i]
  PROVE  v = <<x>> \o s /\ <<x>> \in Seq(T)
<1> DEFINE o == <<x>>
           u == o \o s
<1>1. o \in Seq(T) /\ Len(o) = 1 /\ o[1] = x
  OBVIOUS
<1> HIDE DEF o
<1>2. /\ u \in Seq(T) /\ Len(u) = 1 + Len(s)
      /\ \A i \in 1..1 + Len(s) : u[i] = IF i <= 1 THEN o[i] ELSE s[i - 1]
  <2>1. /\ u \in Seq(T) /\ Len(u) = Len(o) + Len(s)
        /\ \A i \in 1..Len(o) + Len(s) : u[i] = IF i <= Len(o) THEN o[i] ELSE s[i - Len(o)]
    BY <1>1, ConcatProperties
  <2>2. QED  BY <1>1, <2>1
<1> HIDE DEF u
<1>3. Len(s) \in Nat
  BY LenProperties
<1>4. ASSUME NEW i \in 1..Len(v) PROVE v[i] = u[i]
  <2>1. i \in 1..1 + Len(s)
    BY <1>3
  <2>2. CASE i = 1
    BY <1>1, <1>2, <2>1, <2>2
  <2>3. CASE i # 1
    <3>1. i - 1 \in 1..Len(s) /\ (i - 1) + 1 = i /\ ~(i <= 1)
      BY <1>3, <2>1, <2>3
    <3>2. v[i] = s[i - 1]
      <4> DEFINE k == i - 1
      <4>1. k \in 1..Len(s) /\ k + 1 = i
        BY <3>1
      <4> HIDE DEF k
      <4>2. v[k + 1] = s[k]
        BY <4>1
      <4>3. QED  BY <4>1, <4>2 DEF k
    <3>3. u[i] = s[i - 1]
      BY <1>2, <2>1, <3>1
    <3>4. QED  BY <3>2, <3>3
  <2>4. QED  BY <2>2, <2>3
<1>5. Len(v) = Len(u)
  BY <1>2, <1>3
<1>6. v = u
  BY <1>2, <1>4, <1>5, SeqEqual
<1>7. QED  BY <1>1, <1>6 DEF u, o

(* Sequences of one element each, put end to end.                           *)
LEMMA FlattenSingles ==
  ASSUME NEW T, NEW s \in Seq(T)
  PROVE  FlattenSeq([i \in DOMAIN s |-> <<s[i]>>]) = s
<1> DEFINE u == [i \in DOMAIN s |-> <<s[i]>>]
<1>1. Len(s) \in Nat /\ DOMAIN s = 1..Len(s) /\ \A i \in 1..Len(s) : s[i] \in T
  BY LenProperties, ElementOfSeq
<1>2. u \in Seq(Seq(T)) /\ Len(u) = Len(s) /\ \A i \in 1..Len(s) : u[i] = <<s[i]>>
  <2>1. \A i \in 1..Len(s) : <<s[i]>> \in Seq(T)
    BY <1>1
  <2>2. QED  BY <1>1, <2>1
<1> HIDE DEF u
<1>3. PICK f : /\ f[0] = <<>> /\ f[Len(u)] = FlattenSeq(u)
               /\ \A i \in 1..Len(u) : f[i] = f[i - 1] \o u[i]
  BY <1>2, FlattenSteps
<1> DEFINE Same == {i \in 0..Len(s) : f[i] = SubSeq(s, 1, i)}
<1>4. 0..Len(s) \subseteq Same
  <2>1. 0 \in Same
    <3>1. SubSeq(s, 1, 0) = <<>> /\ 0 \in 0..Len(s)
      BY <1>1, SubSeqEmpty
    <3>2. QED  BY <1>3, <3>1
  <2>2. ASSUME NEW i \in 0..Len(s) - 1, i \in Same PROVE i + 1 \in Same
    <3>1. /\ i + 1 \in 1..Len(s) /\ i + 1 \in 1..Len(u) /\ (i + 1) - 1 = i
          /\ i + 1 \in 0..Len(s) /\ 1 \in 1..Len(s)
      BY <1>1, <1>2
    <3>2. f[i + 1] = f[i] \o <<s[i + 1]>>
      BY <1>2, <1>3, <3>1
    <3>3. SubSeq(s, 1, i + 1) = SubSeq(s, 1, (i + 1) - 1) \o <<s[i + 1]>>
      BY <3>1, SubSeqRecursiveSecond
    <3>4. QED  BY <2>2, <3>1, <3>2, <3>3
  <2>3. 0 \in Nat /\ Len(s) \in Nat
    BY <1>1
  <2> HIDE DEF Same
  <2>4. QED  BY <2>1, <2>2, <2>3, Reaches
<1>5. f[Len(s)] = SubSeq(s, 1, Len(s))
  BY <1>1, <1>4
<1>6. SubSeq(s, 1, Len(s)) = s
  BY SubSeqFull
<1>7. QED  BY <1>2, <1>3, <1>5, <1>6 DEF u

-----------------------------------------------------------------------------
(* What is still to be lexed                                                *)

(* The tokens that words expand to, and those of a stack of lexers.          *)
ExpandAll(ws) == FlattenSeq([i \in DOMAIN ws |-> Expand(ws[i])])
ToLex(l) == FlattenSeq([i \in DOMAIN l |-> ExpandAll(Reverse(l)[i].words)])

(* That is what Uncached says of the lexers.                                *)
LEMMA UncachedIs == Uncached = ToLex(lexers) /\ Uncached' = ToLex(lexers')
BY DEF Uncached, ToLex, ExpandAll

(* A word expands to tokens.                                                *)
LEMMA ExpandTyped ==
  ASSUME NEW w \in Word
  PROVE  Expand(w) \in Seq(Token)
<1>1. w \notin Macro => w \in Token
  BY DEF Word
<1>2. QED  BY <1>1, TokenCacheAssumption DEF Expand

(* Words expand to what they expand to one by one, and tokens to themselves.  *)
LEMMA ExpandSteps ==
  ASSUME NEW ws \in Seq(Word)
  PROVE  /\ ExpandAll(ws) \in Seq(Token)
         /\ ws = <<>> => ExpandAll(ws) = <<>>
         /\ ws # <<>> => ExpandAll(ws) = Expand(Head(ws)) \o ExpandAll(Tail(ws))
         /\ ws \in Seq(Token) => ExpandAll(ws) = ws
<1> DEFINE E(vs) == [i \in DOMAIN vs |-> Expand(vs[i])]
<1>1. ASSUME NEW vs \in Seq(Word)
      PROVE  /\ E(vs) \in Seq(Seq(Token)) /\ Len(E(vs)) = Len(vs)
             /\ \A i \in 1..Len(vs) : E(vs)[i] = Expand(vs[i])
  <2>1. Len(vs) \in Nat /\ DOMAIN vs = 1..Len(vs) /\ \A i \in 1..Len(vs) : vs[i] \in Word
    BY LenProperties, ElementOfSeq
  <2>2. \A i \in 1..Len(vs) : Expand(vs[i]) \in Seq(Token)
    BY <2>1, ExpandTyped
  <2>3. QED  BY <2>1, <2>2
<1>2. ExpandAll(ws) \in Seq(Token)
  <2> HIDE DEF E
  <2>1. FlattenSeq(E(ws)) \in Seq(Token)
    BY <1>1, FlattenTyped
  <2>2. QED  BY <2>1 DEF ExpandAll, E
<1>3. ASSUME ws = <<>> PROVE ExpandAll(ws) = <<>>
  <2>1. E(ws) = <<>>
    BY <1>3
  <2>2. ExpandAll(ws) = FlattenSeq(E(ws))
    BY DEF ExpandAll
  <2> HIDE DEF E
  <2>3. QED  BY <2>1, <2>2, FlattenOne
<1>4. ASSUME ws # <<>> PROVE ExpandAll(ws) = Expand(Head(ws)) \o ExpandAll(Tail(ws))
  <2> DEFINE h == Head(ws)
             t == Tail(ws)
  <2>1. /\ h \in Word /\ h = ws[1] /\ t \in Seq(Word) /\ Len(t) = Len(ws) - 1
        /\ \A i \in 1..Len(ws) - 1 : t[i] = ws[i + 1]
        /\ Len(ws) \in Nat /\ Len(ws) >= 1
    BY <1>4, HeadTailProperties
  <2> HIDE DEF h, t
  <2>2. Expand(h) \in Seq(Token)
    BY <2>1, ExpandTyped
  <2>3. /\ E(ws) \in Seq(Seq(Token)) /\ Len(E(ws)) = Len(ws)
        /\ \A i \in 1..Len(ws) : E(ws)[i] = Expand(ws[i])
        /\ E(t) \in Seq(Seq(Token)) /\ Len(E(t)) = Len(t)
        /\ \A i \in 1..Len(t) : E(t)[i] = Expand(t[i])
    <3> HIDE DEF E
    <3>1. QED  BY <1>1, <2>1
  <2> HIDE DEF E
  <2> DEFINE x == <<Expand(h)>>
  <2>4. E(ws)[1] = Expand(h) /\ 1 \in 1..Len(ws)
    BY <2>1, <2>3
  <2>5. ASSUME NEW i \in 1..Len(E(t)) PROVE E(ws)[i + 1] = E(t)[i]
    <3>1. i + 1 \in 1..Len(ws) /\ i \in 1..Len(ws) - 1 /\ i \in 1..Len(t)
      BY <2>1, <2>3
    <3>2. E(ws)[i + 1] = Expand(ws[i + 1]) /\ E(t)[i] = Expand(t[i]) /\ t[i] = ws[i + 1]
      BY <2>1, <2>3, <3>1
    <3>3. QED  BY <3>2
  <2>6. Len(E(ws)) = Len(E(t)) + 1
    BY <2>1, <2>3
  <2>7. E(ws) = x \o E(t) /\ x \in Seq(Seq(Token))
    BY <2>2, <2>3, <2>4, <2>5, <2>6, PutBefore
  <2> HIDE DEF x
  <2>8. FlattenSeq(x \o E(t)) = FlattenSeq(x) \o FlattenSeq(E(t))
    BY <2>3, <2>7, FlattenConcat
  <2>9. FlattenSeq(x) = Expand(h)
    BY <2>2, FlattenOne DEF x
  <2>10. ExpandAll(ws) = FlattenSeq(E(ws)) /\ ExpandAll(t) = FlattenSeq(E(t))
    BY DEF ExpandAll, E
  <2>11. QED  BY <2>7, <2>8, <2>9, <2>10 DEF h, t
<1>5. ASSUME ws \in Seq(Token) PROVE ExpandAll(ws) = ws
  <2>1. \A i \in DOMAIN ws : Expand(ws[i]) = <<ws[i]>>
    <3>1. \A i \in DOMAIN ws : ws[i] \in Token
      BY <1>5
    <3>2. QED  BY <3>1, TokenCacheAssumption DEF Expand
  <2>2. E(ws) = [i \in DOMAIN ws |-> <<ws[i]>>]
    BY <2>1
  <2> HIDE DEF E
  <2>3. FlattenSeq(E(ws)) = ws
    BY <1>5, <2>2, FlattenSingles
  <2>4. QED  BY <2>3 DEF ExpandAll, E
<1>6. QED  BY <1>2, <1>3, <1>4, <1>5

(* A stack of lexers lexes what is on top and then what is under it.         *)
LEMMA ToLexAppend ==
  ASSUME NEW l \in Seq(Lexer), NEW x \in Lexer
  PROVE  /\ ToLex(Append(l, x)) = ExpandAll(x.words) \o ToLex(l)
         /\ ToLex(l) \in Seq(Token) /\ ExpandAll(x.words) \in Seq(Token)
<1> DEFINE W(k) == [i \in DOMAIN k |-> ExpandAll(Reverse(k)[i].words)]
           a == Append(l, x)
<1>1. ASSUME NEW k \in Seq(Lexer)
      PROVE  /\ W(k) \in Seq(Seq(Token)) /\ Len(W(k)) = Len(k)
             /\ \A i \in 1..Len(k) : W(k)[i] = ExpandAll(k[Len(k) - i + 1].words)
             /\ Len(k) \in Nat /\ \A i \in 1..Len(k) : k[i] \in Lexer
  <2>1. Len(k) \in Nat /\ DOMAIN k = 1..Len(k) /\ \A i \in 1..Len(k) : k[i] \in Lexer
    BY LenProperties, ElementOfSeq
  <2>2. ASSUME NEW i \in 1..Len(k)
        PROVE  Reverse(k)[i] = k[Len(k) - i + 1] /\ k[Len(k) - i + 1] \in Lexer
    <3>1. Reverse(k)[i] = k[Len(k) - i + 1]
      BY DEF Reverse
    <3>2. Len(k) - i + 1 \in 1..Len(k)
      BY <2>1
    <3>3. QED  BY <2>1, <3>1, <3>2
  <2>3. \A y \in Lexer : y.words \in Seq(Word)
    BY DEF Lexer
  <2>4. \A i \in 1..Len(k) : /\ ExpandAll(Reverse(k)[i].words) \in Seq(Token)
                             /\ Reverse(k)[i] = k[Len(k) - i + 1]
    BY <2>2, <2>3, ExpandSteps
  <2>5. QED  BY <2>1, <2>4
<1>2. /\ a \in Seq(Lexer) /\ Len(a) = Len(l) + 1 /\ a[Len(l) + 1] = x
      /\ \A i \in 1..Len(l) : a[i] = l[i]
  BY AppendProperties
<1> HIDE DEF W, a
<1>3. ExpandAll(x.words) \in Seq(Token)
  <2>1. x.words \in Seq(Word)
    BY DEF Lexer
  <2>2. QED  BY <2>1, ExpandSteps
<1> DEFINE y == <<ExpandAll(x.words)>>
<1>6. /\ W(a) \in Seq(Seq(Token)) /\ Len(W(a)) = Len(a) /\ Len(l) \in Nat
      /\ W(l) \in Seq(Seq(Token)) /\ Len(W(l)) = Len(l)
      /\ \A i \in 1..Len(a) : W(a)[i] = ExpandAll(a[Len(a) - i + 1].words)
      /\ \A i \in 1..Len(l) : W(l)[i] = ExpandAll(l[Len(l) - i + 1].words)
  BY <1>1, <1>2
<1>4. W(a)[1] = ExpandAll(x.words)
  <2>1. 1 \in 1..Len(a) /\ Len(a) - 1 + 1 = Len(l) + 1
    BY <1>2, <1>6
  <2>2. QED  BY <1>2, <1>6, <2>1
<1>5. ASSUME NEW i \in 1..Len(W(l)) PROVE W(a)[i + 1] = W(l)[i]
  <2>1. /\ i \in 1..Len(l) /\ i + 1 \in 1..Len(a)
        /\ Len(a) - (i + 1) + 1 = Len(l) - i + 1 /\ Len(l) - i + 1 \in 1..Len(l)
    BY <1>2, <1>6
  <2>2. W(a)[i + 1] = ExpandAll(a[Len(l) - i + 1].words)
    BY <1>6, <2>1
  <2>3. W(l)[i] = ExpandAll(l[Len(l) - i + 1].words) /\ a[Len(l) - i + 1] = l[Len(l) - i + 1]
    BY <1>2, <1>6, <2>1
  <2>4. QED  BY <2>2, <2>3
<1>7. Len(W(a)) = Len(W(l)) + 1
  BY <1>2, <1>6
<1>8. W(a) = y \o W(l) /\ y \in Seq(Seq(Token))
  BY <1>3, <1>4, <1>5, <1>6, <1>7, PutBefore
<1> HIDE DEF y
<1>9. FlattenSeq(y \o W(l)) = FlattenSeq(y) \o FlattenSeq(W(l))
  BY <1>6, <1>8, FlattenConcat
<1>10. FlattenSeq(y) = ExpandAll(x.words)
  BY <1>3, FlattenOne DEF y
<1>11. ToLex(a) = FlattenSeq(W(a)) /\ ToLex(l) = FlattenSeq(W(l))
  BY DEF ToLex, W
<1>12. ToLex(l) \in Seq(Token)
  BY <1>1, <1>11, FlattenTyped
<1>13. QED  BY <1>3, <1>8, <1>9, <1>10, <1>11, <1>12 DEF a

(* A stack that is not empty is what is under the top with the top on it.     *)
LEMMA FrontAndLast ==
  ASSUME NEW T, NEW s \in Seq(T), s # <<>>
  PROVE  s = Append(Front(s), Last(s)) /\ Front(s) \in Seq(T) /\ Last(s) \in T
<1> DEFINE f == Front(s)
           a == Append(f, Last(s))
<1>1. /\ f \in Seq(T) /\ Len(f) = Len(s) - 1 /\ \A i \in 1..Len(s) - 1 : f[i] = s[i]
      /\ Len(s) \in Nat /\ Len(s) >= 1 /\ Last(s) \in T
  BY FrontFields
<1> HIDE DEF f
<1>2. /\ a \in Seq(T) /\ Len(a) = Len(f) + 1 /\ a[Len(f) + 1] = Last(s)
      /\ \A i \in 1..Len(f) : a[i] = f[i]
  BY <1>1, AppendProperties
<1> HIDE DEF a
<1>3. ASSUME NEW i \in 1..Len(s) PROVE s[i] = a[i]
  <2>1. CASE i = Len(s)
    BY <1>1, <1>2, <2>1 DEF Last
  <2>2. CASE i # Len(s)
    <3>1. i \in 1..Len(s) - 1 /\ i \in 1..Len(f)
      BY <1>1, <2>2
    <3>2. QED  BY <1>1, <1>2, <3>1
  <2>3. QED  BY <2>1, <2>2
<1>4. s = a
  <2>1. Len(s) = Len(a)
    BY <1>1, <1>2
  <2>2. QED  BY <1>2, <1>3, <2>1, SeqEqual
<1>5. QED  BY <1>1, <1>4 DEF a, f

(* What a stack lexes: what its top does, then what the rest does.           *)
LEMMA ToLexTop ==
  ASSUME NEW l \in Seq(Lexer), l # <<>>
  PROVE  /\ ToLex(l) = ExpandAll(Last(l).words) \o ToLex(Front(l))
         /\ Front(l) \in Seq(Lexer) /\ Last(l) \in Lexer
<1>1. l = Append(Front(l), Last(l)) /\ Front(l) \in Seq(Lexer) /\ Last(l) \in Lexer
  BY FrontAndLast
<1>2. QED  BY <1>1, ToLexAppend

(* What a stack of lexers holds to be lexed are tokens.                    *)
LEMMA ToLexTyped ==
  ASSUME NEW l \in Seq(Lexer)
  PROVE  ToLex(l) \in Seq(Token)
<1> DEFINE x == [kind |-> "file", words |-> <<>>]
<1>1. x \in Lexer
  BY EmptySeq DEF Lexer
<1>2. QED  BY <1>1, ToLexAppend

(* The caching lexer has nothing to lex itself: entering and leaving caching
   mode changes nothing of what is to be lexed.                              *)
LEMMA CachingLexesNothing ==
  ASSUME NEW l, Stack(l)
  PROVE  /\ ToLex(EnterCachingLexMode(l)) = ToLex(l)
         /\ ToLex(ExitCachingLexMode(l)) = ToLex(l)
<1>1. l \in Seq(Lexer) /\ l # <<>>
  BY DEF Stack
<1>2. ToLex(EnterCachingLexMode(l)) = ToLex(l)
  <2>1. CASE InCachingLexMode(l)
    BY <2>1 DEF EnterCachingLexMode
  <2>2. CASE ~InCachingLexMode(l)
    <3> DEFINE c == [kind |-> "caching", words |-> <<>>]
    <3>1. c \in Lexer /\ c.words = <<>> /\ EnterCachingLexMode(l) = Append(l, c)
      BY <2>2, EmptySeq DEF Lexer, EnterCachingLexMode
    <3> HIDE DEF c
    <3>2. /\ ToLex(Append(l, c)) = ExpandAll(c.words) \o ToLex(l)
          /\ ToLex(l) \in Seq(Token)
      BY <1>1, <3>1, ToLexAppend
    <3>3. ExpandAll(c.words) = <<>>
      BY <3>1, EmptySeq, ExpandSteps
    <3>4. <<>> \o ToLex(l) = ToLex(l)
      BY <3>2, ConcatEmptySeq
    <3>5. QED  BY <3>1, <3>2, <3>3, <3>4
  <2>3. QED  BY <2>1, <2>2
<1>3. ToLex(ExitCachingLexMode(l)) = ToLex(l)
  <2>1. CASE ~InCachingLexMode(l)
    BY <2>1 DEF ExitCachingLexMode
  <2>2. CASE InCachingLexMode(l)
    <3>1. ExitCachingLexMode(l) = Front(l) /\ Last(l).words = <<>>
      <4>1. Len(l) \in DOMAIN l
        BY <1>1
      <4>2. QED  BY <2>2, <4>1 DEF ExitCachingLexMode, Stack, InCachingLexMode, Last
    <3>2. ToLex(l) = ExpandAll(Last(l).words) \o ToLex(Front(l)) /\ Front(l) \in Seq(Lexer)
      BY <1>1, ToLexTop
    <3>3. ExpandAll(<<>>) = <<>>
      BY EmptySeq, ExpandSteps
    <3>4. <<>> \o ToLex(Front(l)) = ToLex(Front(l))
      BY <3>2, ToLexTyped, ConcatEmptySeq
    <3>5. QED  BY <3>1, <3>2, <3>3, <3>4
  <2>3. QED  BY <2>1, <2>2
<1>4. QED  BY <1>2, <1>3

-----------------------------------------------------------------------------
(* What the parser is still to read                                         *)

(* The token on its way, what is ahead in a cache, and with what the lexers
   have left the tokens that are still to be read: a look ahead fills the last
   slot of the cache, which is empty until it is done.                       *)
Pending == IF ret = None THEN <<>> ELSE <<ret>>
After(c, pos) == SubSeq(c, pos + 1, Len(c))
BeforeSlot(c, pos) == SubSeq(c, pos + 1, Len(c) - 1)
Upcoming == IF Peeking THEN BeforeSlot(cached, cachedPos) \o (Pending \o ToLex(lexers))
            ELSE Pending \o (After(cached, cachedPos) \o ToLex(lexers))

Tokens ==
  /\ Pending \in Seq(Token) /\ After(cached, cachedPos) \in Seq(Token)
  /\ Peeking => BeforeSlot(cached, cachedPos) \in Seq(Token)
  /\ ToLex(lexers) \in Seq(Token) /\ Upcoming \in Seq(Token)

(* What is ahead in a cache, from an earlier place on and from the next one.  *)
LEMMA AfterMeets ==
  ASSUME NEW T, NEW s \in Seq(T), NEW m \in Nat, NEW k \in Nat, m <= k, k <= Len(s)
  PROVE  /\ After(s, m) = SubSeq(s, m + 1, k) \o After(s, k)
         /\ SubSeq(s, m + 1, k) \in Seq(T) /\ After(s, k) \in Seq(T)
<1> DEFINE n == Len(s)
<1>1. n \in Nat /\ n <= Len(s)
  BY LenProperties
<1>2. k <= n
  OBVIOUS
<1> HIDE DEF n
<1>3. /\ SubSeq(s, m + 1, n) = SubSeq(s, m + 1, k) \o SubSeq(s, k + 1, n)
      /\ SubSeq(s, m + 1, k) \in Seq(T) /\ SubSeq(s, k + 1, n) \in Seq(T)
  BY <1>1, <1>2, PartsMeet
<1>4. QED  BY <1>3 DEF n, After

(* What is after the first token in the cache.                             *)
LEMMA AfterFirst ==
  ASSUME NEW T, NEW s \in Seq(T), NEW n \in Nat, n < Len(s)
  PROVE  /\ After(s, n) = <<s[n + 1]>> \o After(s, n + 1)
         /\ After(s, n + 1) \in Seq(T) /\ s[n + 1] \in T /\ n + 1 <= Len(s)
<1>1. Len(s) \in Nat /\ (n + 1) + 1 = n + 2
  BY LenProperties
<1>2. QED  BY <1>1, FirstOfPart DEF After

(* Nothing is after the whole cache.                                       *)
LEMMA AfterAll ==
  ASSUME NEW T, NEW s \in Seq(T)
  PROVE  After(s, Len(s)) = <<>>
<1>1. Len(s) \in Int /\ Len(s) + 1 \in Int /\ Len(s) < Len(s) + 1
  BY LenProperties
<1>2. QED  BY <1>1, SubSeqEmpty DEF After

(* Tokens put before and behind tokens, whichever comes first.             *)
LEMMA Concatenates ==
  ASSUME NEW T
  PROVE  /\ \A a, b \in Seq(T) : a \o b \in Seq(T)
         /\ \A a \in Seq(T) : a \o <<>> = a /\ <<>> \o a = a
         /\ \A a, b, c \in Seq(T) : (a \o b) \o c = a \o (b \o c)
         /\ <<>> \in Seq(T)
<1>1. \A a, b \in Seq(T) : a \o b \in Seq(T)
  BY ConcatProperties
<1>2. \A a \in Seq(T) : a \o <<>> = a /\ <<>> \o a = a
  BY ConcatEmptySeq
<1>3. QED  BY <1>1, <1>2, Associative, EmptySeq

(* Which calls wait, by what the invariant says of them.                     *)
LEMMA WaitingCalls ==
  ASSUME IInv
  PROVE  /\ Idle => ~Peeking /\ ret = None
         /\ Len(calls) = 2 => ~Peeking
         /\ Peeking => /\ Len(calls) = 1 /\ calls[1].fn = "PeekAhead"
                       /\ calls[1].slot = Len(cached) /\ cachedPos < Len(cached)
         /\ ~Idle => Len(calls) = 1 \/ Len(calls) = 2
         /\ ~Idle /\ ~Peeking /\ Len(calls) = 1 => calls[1].fn = "ConsumeToken"
<1>1. calls \in Seq(Call) /\ Len(calls) \in Nat /\ Len(calls) <= 2
  BY DEF IInv, TypeOK, Modes
<1>2. ASSUME ~Idle PROVE Len(calls) = 1 \/ Len(calls) = 2
  <2> DEFINE n == Len(calls)
  <2>1. n # 0
    BY <1>1, <1>2 DEF Idle
  <2>2. n \in Nat /\ n <= 2
    BY <1>1
  <2> HIDE DEF n
  <2>3. n = 1 \/ n = 2
    BY <2>1, <2>2
  <2>4. QED  BY <2>3 DEF n
<1>3. Len(calls) = 2 => calls[1].fn = "ConsumeToken"
  BY DEF IInv, Modes
<1>4. Peeking => Len(calls) = 1 /\ calls[1].fn = "PeekAhead"
  BY <1>2, <1>3 DEF Peeking
<1>5. QED  BY <1>2, <1>3, <1>4 DEF IInv, Modes, Peeking

(* They are tokens all.                                                     *)
LEMMA TokensTyped == IInv => Tokens
<1> SUFFICES ASSUME IInv PROVE Tokens
  OBVIOUS
<1>1. /\ cached \in Seq(Token) /\ cachedPos \in Nat /\ cachedPos <= Len(cached)
      /\ ret \in Token \cup {None} /\ lexers \in Seq(Lexer) /\ Len(cached) \in Nat
  BY DEF IInv, TypeOK, MarksBehindCursor
<1>2. Pending \in Seq(Token)
  BY <1>1 DEF Pending
<1>3. After(cached, cachedPos) \in Seq(Token)
  <2>1. cachedPos + 1 \in Nat /\ cachedPos + 1 >= 1 /\ Len(cached) <= Len(cached)
    BY <1>1
  <2>2. QED  BY <1>1, <2>1, Part DEF After
<1>4. ASSUME Peeking PROVE BeforeSlot(cached, cachedPos) \in Seq(Token)
  <2>1. cachedPos < Len(cached)
    BY <1>4, WaitingCalls
  <2>2. /\ cachedPos + 1 \in Nat /\ cachedPos + 1 >= 1
        /\ Len(cached) - 1 \in Nat /\ Len(cached) - 1 <= Len(cached)
    BY <1>1, <2>1
  <2>3. QED  BY <1>1, <2>2, Part DEF BeforeSlot
<1>5. ToLex(lexers) \in Seq(Token)
  BY <1>1, ToLexTyped
<1>6. Upcoming \in Seq(Token)
  <2>1. \A a, b \in Seq(Token) : a \o b \in Seq(Token)
    BY Concatenates
  <2>2. QED  BY <1>2, <1>3, <1>4, <1>5, <2>1, Zenon DEF Upcoming
<1>7. QED  BY <1>2, <1>3, <1>4, <1>5, <1>6 DEF Tokens

(* The parts of the next tokens are sequences of tokens after a step.      *)
LEMMA TokensTypedNext == IInv' => Tokens'
BY TokensTyped, PTL


-----------------------------------------------------------------------------
(* What each step does to what is still to be read                          *)

(* Between calls nothing is on its way.                                     *)
LEMMA UpcomingIdle ==
  ASSUME IInv, Idle
  PROVE  Upcoming = After(cached, cachedPos) \o ToLex(lexers)
<1>1. ~Peeking /\ ret = None
  BY WaitingCalls
<1>2. Tokens
  BY TokensTyped
<1>3. \A a, b \in Seq(Token) : a \o b \in Seq(Token)
  BY Concatenates
<1>4. \A a \in Seq(Token) : <<>> \o a = a
  BY Concatenates
<1>5. QED  BY <1>1, <1>2, <1>3, <1>4, Zenon DEF Upcoming, Pending, Tokens

AllAhead == Upcoming = After(cached, cachedPos) \o ToLex(lexers)

(* What comes next when no call waits, after a step.                       *)
LEMMA UpcomingIdleNext ==
  IInv' /\ Idle' => Upcoming' = After(cached', cachedPos') \o ToLex(lexers')
<1>1. IInv /\ Idle => AllAhead
  BY UpcomingIdle DEF AllAhead
<1>2. IInv' /\ Idle' => AllAhead'
  BY <1>1, PTL
<1>3. QED  BY <1>2 DEF AllAhead

(* A call of Lex by the parser, a tentative parse that begins or is given up
   leave everything to be read as it was.                                    *)
LEMMA ConsumeTokenUpcoming == ASSUME IInv, IInv', ConsumeToken PROVE Upcoming' = Upcoming
<1>1. /\ Idle /\ calls' = <<Calling("ConsumeToken")>>
      /\ UNCHANGED <<lexers, cached, cachedPos, ret>>
  BY DEF ConsumeToken
<1>2. ~Peeking
  BY <1>1, WaitingCalls
<1>3. ~Peeking'
  <2> DEFINE c == Calling("ConsumeToken")
  <2>1. c.fn = "ConsumeToken"
    BY CallTyped
  <2> HIDE DEF c
  <2>2. calls' = <<c>>
    BY <1>1 DEF c
  <2>3. calls'[1] = c
    BY <2>2
  <2>4. QED  BY <2>1, <2>3 DEF Peeking
<1>4. QED  BY <1>1, <1>2, <1>3 DEF Upcoming, Pending

(* A mark leaves what comes next.                                          *)
LEMMA EnableBacktrackUpcoming ==
  ASSUME IInv, IInv', EnableBacktrackAtThisPos
  PROVE  Upcoming' = Upcoming
<1>1. /\ Idle /\ Idle' /\ lexers' = EnterCachingLexMode(lexers)
      /\ UNCHANGED <<cached, cachedPos>>
  BY DEF EnableBacktrackAtThisPos, Idle
<1>2. ToLex(lexers') = ToLex(lexers)
  BY <1>1, CachingLexesNothing DEF IInv
<1>3. QED  BY <1>1, <1>2, UpcomingIdle, UpcomingIdleNext

(* Taking a mark away leaves what comes next.                              *)
LEMMA CommitUpcoming ==
  ASSUME IInv, IInv', CommitBacktrackedTokens
  PROVE  Upcoming' = Upcoming
<1>1. Idle /\ Idle' /\ UNCHANGED <<lexers, cached, cachedPos>>
  BY DEF CommitBacktrackedTokens, Idle
<1>2. QED  BY <1>1, UpcomingIdle, UpcomingIdleNext

(* Backtrack: what has been read since the mark is to be read again.         *)
LEMMA BacktrackUpcoming ==
  ASSUME IInv, IInv', Backtrack
  PROVE  Upcoming' = SubSeq(cached, Last(backtrack) + 1, cachedPos) \o Upcoming
<1>1. Idle /\ Idle' /\ UNCHANGED <<lexers, cached>> /\ cachedPos' = Last(backtrack)
  BY DEF Backtrack, Idle
<1>2. /\ cached \in Seq(Token) /\ cachedPos \in Nat /\ cachedPos <= Len(cached)
      /\ Len(cached) \in Nat /\ Last(backtrack) \in Nat /\ Last(backtrack) <= cachedPos
  BY CursorBehindMark DEF Backtrack
<1> DEFINE A == SubSeq(cached, Last(backtrack) + 1, cachedPos)
           B == After(cached, cachedPos)
           L == ToLex(lexers)
<1>3. /\ After(cached, Last(backtrack)) = A \o B
      /\ A \in Seq(Token) /\ B \in Seq(Token)
  BY <1>2, AfterMeets
<1>4. L \in Seq(Token)
  BY TokensTyped DEF Tokens
<1>5. Upcoming = B \o L /\ Upcoming' = (A \o B) \o L
  BY <1>1, <1>3, UpcomingIdle, UpcomingIdleNext
<1> HIDE DEF A, B, L
<1>6. (A \o B) \o L = A \o (B \o L)
  BY <1>3, <1>4, Concatenates
<1>7. QED  BY <1>5, <1>6 DEF A

(* A look ahead leaves a slot at the end of the cache to be filled.          *)
LEMMA LookAheadUpcoming ==
  ASSUME IInv, IInv', NEW n \in 0..MaxPeek, LookAhead(n)
  PROVE  Upcoming' = Upcoming
<1>1. Idle /\ cachedPos' = cachedPos /\ ret' = ret /\ ret = None /\ ~Peeking
  BY WaitingCalls DEF LookAhead
<1>2. CASE n < Len(Ahead)
  <2>1. Idle' /\ UNCHANGED <<lexers, cached, cachedPos>>
    BY <1>1, <1>2 DEF LookAhead, Idle
  <2>2. QED  BY <1>1, <2>1, UpcomingIdle, UpcomingIdleNext
<1>3. CASE ~(n < Len(Ahead))
  <2> DEFINE c == [fn |-> "PeekAhead", left |-> n - Len(Ahead), slot |-> Len(cached) + 1]
  <2>1. /\ calls' = <<c>> /\ cached' = Append(cached, <<>>) /\ lexers' = ExitCachingLexMode(lexers)
    BY <1>3 DEF LookAhead
  <2>2. c.fn = "PeekAhead"
    OBVIOUS
  <2> HIDE DEF c
  <2>3. Peeking'
    <3>1. calls'[1] = c /\ calls' # <<>>
      BY <2>1
    <3>2. QED  BY <2>2, <3>1 DEF Peeking, Idle
  <2>4. ToLex(lexers') = ToLex(lexers)
    BY <2>1, CachingLexesNothing DEF IInv
  <2>5. BeforeSlot(cached', cachedPos') = After(cached, cachedPos)
    <3>1. cached \in Seq(Token) /\ cachedPos \in Nat /\ Len(cached) \in Nat /\ <<>> \in Token
      BY CursorBehindMark, EmptySeq DEF Token
    <3> DEFINE m == Len(cached)
    <3>2. /\ cached' \in Seq(Token) /\ Len(cached') = m + 1
          /\ \A i \in 1..m : cached'[i] = cached[i]
      BY <2>1, <3>1, AppendProperties
    <3>3. m \in Nat /\ m <= Len(cached) /\ m <= Len(cached') /\ Len(cached') - 1 = m
      BY <3>1, <3>2
    <3>4. After(cached, cachedPos) = SubSeq(cached, cachedPos + 1, m)
      BY DEF After
    <3> HIDE DEF m
    <3>5. SubSeq(cached', cachedPos + 1, m) = SubSeq(cached, cachedPos + 1, m)
      <4>1. \A c1, c2 : c1 = cached' /\ c2 = cached =>
              SubSeq(c1, cachedPos + 1, m) = SubSeq(c2, cachedPos + 1, m)
        <5> TAKE c1, c2
        <5> HAVE c1 = cached' /\ c2 = cached
        <5>1. /\ c1 \in Seq(Token) /\ c2 \in Seq(Token) /\ m <= Len(c1) /\ m <= Len(c2)
              /\ \A i \in 1..m : c1[i] = c2[i]
          BY <3>1, <3>2, <3>3
        <5>2. m \in Nat /\ cachedPos \in Nat /\ m <= m
          BY <3>1, <3>3
        <5>3. QED  BY <5>1, <5>2, PartsAgree
      <4>2. QED  BY <4>1
    <3>6. QED  BY <1>1, <3>3, <3>4, <3>5 DEF BeforeSlot
  <2>6. Pending' = <<>> /\ Pending = <<>>
    BY <1>1 DEF Pending
  <2>7. After(cached, cachedPos) \in Seq(Token) /\ ToLex(lexers) \in Seq(Token)
    BY TokensTyped DEF Tokens
  <2>8. <<>> \o ToLex(lexers) = ToLex(lexers)
    BY <2>7, Concatenates
  <2>9. Upcoming' = BeforeSlot(cached', cachedPos') \o (Pending' \o ToLex(lexers'))
    BY <2>3 DEF Upcoming
  <2>10. QED  BY <1>1, <2>4, <2>5, <2>6, <2>8, <2>9, UpcomingIdle
<1>4. QED  BY <1>2, <1>3

(* What CachingLex takes from the cache is on its way; without anything in it
   the call goes to the lexers.                                              *)
LEMMA CachingLexUpcoming == ASSUME IInv, IInv', CachingLex PROVE Upcoming' = Upcoming
<1>1. /\ ~Idle /\ ret = None /\ InCachingLexMode(lexers) /\ cached' = cached
      /\ calls \in Seq(Call) /\ Len(calls) = 1 /\ calls[1].fn = "ConsumeToken"
  BY Waiting DEF CachingLex, Waits, Idle
<1>2. ~Peeking
  BY <1>1 DEF Peeking
<1>3. /\ cached \in Seq(Token) /\ cachedPos \in Nat /\ Len(cached) \in Nat
      /\ cachedPos <= Len(cached)
  BY CursorBehindMark
<1> DEFINE A == After(cached, cachedPos)
           L == ToLex(lexers)
<1>4. A \in Seq(Token) /\ L \in Seq(Token)
  BY TokensTyped DEF Tokens
<1>5. Upcoming = A \o L
  <2>1. Upcoming = <<>> \o (A \o L)
    BY <1>1, <1>2 DEF Upcoming, Pending
  <2> HIDE DEF A, L
  <2>2. A \o L \in Seq(Token)
    BY <1>4, Concatenates
  <2>3. QED  BY <2>1, <2>2, Concatenates
<1>6. CASE cachedPos < Len(cached)
  <2> DEFINE x == cached[cachedPos + 1]
             B == After(cached, cachedPos + 1)
  <2>1. ret' = x /\ cachedPos' = cachedPos + 1 /\ UNCHANGED <<lexers, calls>>
    BY <1>6 DEF CachingLex
  <2>2. A = <<x>> \o B /\ B \in Seq(Token) /\ x \in Token
    BY <1>3, <1>6, AfterFirst
  <2>3. Upcoming' = <<x>> \o (B \o L)
    <3>1. ~Peeking'
      BY <1>2, <2>1 DEF Peeking, Idle
    <3>2. Pending' = <<x>>
      BY <2>1, <2>2, NoneIsNoToken DEF Pending
    <3>3. QED  BY <1>1, <2>1, <3>1, <3>2 DEF Upcoming
  <2> HIDE DEF x, A, B, L
  <2>4. <<x>> \in Seq(Token)
    BY <2>2
  <2>5. (<<x>> \o B) \o L = <<x>> \o (B \o L)
    BY <1>4, <2>2, <2>4, Concatenates
  <2>6. QED  BY <1>5, <2>2, <2>3, <2>5
<1>7. CASE ~(cachedPos < Len(cached))
  <2>1. /\ lexers' = ExitCachingLexMode(lexers) /\ calls' = Append(calls, Calling("CachingLex"))
        /\ UNCHANGED <<ret, cachedPos>>
    BY <1>7 DEF CachingLex
  <2>2. ~Peeking'
    <3>1. calls'[1] = calls[1]
      BY <1>1, <2>1, CallTyped, TwoCalls
    <3>2. QED  BY <1>1, <3>1 DEF Peeking
  <2>3. ToLex(lexers') = ToLex(lexers)
    BY <2>1, CachingLexesNothing DEF IInv
  <2>4. QED  BY <1>1, <1>2, <2>1, <2>2, <2>3 DEF Upcoming, Pending
<1>8. QED  BY <1>6, <1>7

(* Below the cache nothing is ahead in it, unless the cache looks ahead.     *)
LEMMA NothingAhead ==
  ASSUME IInv, ~Idle, ~InCachingLexMode(lexers), ~Peeking
  PROVE  After(cached, cachedPos) = <<>>
<1>1. cached \in Seq(Token) /\ calls \in Seq(Call) /\ Len(calls) \in {1, 2}
  BY Waiting, CursorBehindMark
<1>2. CASE Len(calls) = 2
  <2>1. cachedPos = Len(cached)
    BY <1>2 DEF IInv, Modes
  <2>2. QED  BY <1>1, <2>1, AfterAll
<1>3. CASE Len(calls) = 1
  <2>1. cached = <<>> /\ cachedPos = 0
    BY <1>3, WaitingCalls DEF IInv, Modes, Empty
  <2>2. cachedPos = Len(cached)
    BY <2>1
  <2>3. QED  BY <1>1, <2>2, AfterAll
<1>4. QED  BY <1>1, <1>2, <1>3

(* A lexer hands out its first word.                                        *)
LEMMA TopMoves ==
  ASSUME NEW l \in Seq(Lexer), l # <<>>, NEW ws \in Seq(Word), Last(l).words # <<>>,
         ws = Tail(Last(l).words)
  PROVE  /\ Append(Front(l), [Last(l) EXCEPT !.words = ws]) \in Seq(Lexer)
         /\ ToLex(l) = Expand(Head(Last(l).words))
                       \o ToLex(Append(Front(l), [Last(l) EXCEPT !.words = ws]))
<1> DEFINE w == Last(l).words
           x == [Last(l) EXCEPT !.words = ws]
           F == ToLex(Front(l))
<1>1. ToLex(l) = ExpandAll(w) \o F /\ Front(l) \in Seq(Lexer) /\ Last(l) \in Lexer
  BY ToLexTop
<1>2. w \in Seq(Word) /\ x \in Lexer /\ x.words = ws
  BY <1>1 DEF Lexer
<1>3. ToLex(Append(Front(l), x)) = ExpandAll(ws) \o F /\ F \in Seq(Token) /\ ExpandAll(ws) \in Seq(Token)
  BY <1>1, <1>2, ToLexAppend
<1>4. ExpandAll(w) = Expand(Head(w)) \o ExpandAll(ws)
  BY <1>2, ExpandSteps
<1>5. Head(w) \in Word
  BY <1>2, HeadTailProperties
<1>6. Expand(Head(w)) \in Seq(Token)
  BY <1>5, ExpandTyped
<1>7. Append(Front(l), x) \in Seq(Lexer)
  BY <1>1, <1>2, AppendProperties
<1> HIDE DEF w, x, F
<1>8. (Expand(Head(w)) \o ExpandAll(ws)) \o F = Expand(Head(w)) \o (ExpandAll(ws) \o F)
  BY <1>3, <1>6, Concatenates, SMTT(30)
<1>9. ToLex(l) = Expand(Head(w)) \o ToLex(Append(Front(l), x))
  BY <1>1, <1>3, <1>4, <1>8
<1>10. QED  BY <1>7, <1>9 DEF w, x

(* A token of a lexer is on its way.                                        *)
LEMMA LexUpcoming == ASSUME IInv, IInv', Lex PROVE Upcoming' = Upcoming
<1> DEFINE h == Head(Top.words)
           L == ToLex(lexers')
<1>1. /\ ~Idle /\ ret = None /\ Top.words # <<>> /\ h \notin Macro /\ ret' = h
      /\ lexers' = Append(Front(lexers), [Top EXCEPT !.words = Tail(@)])
      /\ UNCHANGED <<cached, cachedPos, calls>>
  BY DEF Lex, Waits, Idle, SetTop
<1>2. /\ ~InCachingLexMode(lexers) /\ h \in Word /\ Tail(Top.words) \in Seq(Word)
      /\ [Top EXCEPT !.words = Tail(@)] = [Last(lexers) EXCEPT !.words = Tail(Top.words)]
      /\ lexers \in Seq(Lexer) /\ lexers # <<>>
  BY <1>1, TopWords DEF IInv, TypeOK
<1>3. ToLex(lexers) = Expand(h) \o L
  <2> DEFINE ws == Tail(Top.words)
  <2>1. ws \in Seq(Word) /\ Last(lexers).words # <<>> /\ ws = Tail(Last(lexers).words)
    BY <1>1, <1>2 DEF Top
  <2>2. lexers' = Append(Front(lexers), [Last(lexers) EXCEPT !.words = ws])
    BY <1>1, <1>2
  <2> HIDE DEF ws
  <2>3. ToLex(lexers) = Expand(Head(Last(lexers).words))
                        \o ToLex(Append(Front(lexers), [Last(lexers) EXCEPT !.words = ws]))
    BY <1>2, <2>1, TopMoves
  <2>4. QED  BY <2>2, <2>3 DEF Top
<1>4. Expand(h) = <<h>> /\ h \in Token /\ h # None
  BY <1>1, <1>2, NoneIsNoToken DEF Expand, Word
<1>5. Pending = <<>> /\ Pending' = <<h>>
  BY <1>1, <1>4 DEF Pending
<1>6. Peeking' <=> Peeking
  BY <1>1 DEF Peeking, Idle
<1>7. L \in Seq(Token) /\ ToLex(lexers) \in Seq(Token)
  BY TokensTyped, TokensTypedNext DEF Tokens
<1> HIDE DEF h, L
<1>8. <<>> \o ToLex(lexers) = ToLex(lexers)
  BY <1>7, Concatenates
<1>9. CASE Peeking
  <2>1. Upcoming = BeforeSlot(cached, cachedPos) \o (<<>> \o ToLex(lexers))
    BY <1>5, <1>9 DEF Upcoming
  <2>2. Upcoming' = BeforeSlot(cached, cachedPos) \o (<<h>> \o L)
    BY <1>1, <1>5, <1>6, <1>9 DEF Upcoming, L
  <2>3. QED  BY <1>3, <1>4, <1>8, <2>1, <2>2
<1>10. CASE ~Peeking
  <2>1. After(cached, cachedPos) = <<>>
    BY <1>1, <1>2, <1>10, NothingAhead
  <2>2. Upcoming = <<>> \o (<<>> \o ToLex(lexers))
    BY <1>5, <1>10, <2>1 DEF Upcoming
  <2>3. Upcoming' = <<h>> \o (<<>> \o L)
    BY <1>1, <1>5, <1>6, <1>10, <2>1 DEF Upcoming, L
  <2>4. <<>> \o L = L
    BY <1>7, Concatenates
  <2>5. QED  BY <1>3, <1>4, <1>8, <2>2, <2>3, <2>4
<1>11. QED  BY <1>9, <1>10

(* A macro leaves what it expands to, a lexer at its end what is under it.     *)
LEMMA LexersMove ==
  ASSUME UNCHANGED <<cached, cachedPos, calls, ret>>, ToLex(lexers') = ToLex(lexers)
  PROVE  Upcoming' = Upcoming
<1>1. Peeking' <=> Peeking
  BY DEF Peeking, Idle
<1>2. QED  BY <1>1 DEF Upcoming, Pending

(* A macro that is expanded comes next as its expansion.                   *)
LEMMA EnterMacroUpcoming == ASSUME IInv, IInv', EnterMacro PROVE Upcoming' = Upcoming
<1> DEFINE h == Head(Top.words)
           under == Append(Front(lexers), [Top EXCEPT !.words = Tail(@)])
           body == Expansion[h]
           x == [kind |-> "stream", words |-> body]
<1>1. /\ ~Idle /\ Top.words # <<>> /\ h \in Macro
      /\ lexers' = IF body = <<>> THEN under ELSE Append(under, x)
      /\ UNCHANGED <<cached, cachedPos, calls, ret>>
  BY DEF EnterMacro, Waits, Idle
<1>2. /\ Tail(Top.words) \in Seq(Word)
      /\ [Top EXCEPT !.words = Tail(@)] = [Last(lexers) EXCEPT !.words = Tail(Top.words)]
      /\ lexers \in Seq(Lexer) /\ lexers # <<>>
  BY <1>1, TopWords DEF IInv, TypeOK
<1>3. ToLex(lexers) = Expand(h) \o ToLex(under) /\ under \in Seq(Lexer)
  <2> DEFINE ws == Tail(Top.words)
  <2>1. ws \in Seq(Word) /\ Last(lexers).words # <<>> /\ ws = Tail(Last(lexers).words)
    BY <1>1, <1>2 DEF Top
  <2>2. under = Append(Front(lexers), [Last(lexers) EXCEPT !.words = ws])
    BY <1>2
  <2> HIDE DEF ws, under
  <2>3. /\ ToLex(lexers) = Expand(Head(Last(lexers).words))
                          \o ToLex(Append(Front(lexers), [Last(lexers) EXCEPT !.words = ws]))
        /\ Append(Front(lexers), [Last(lexers) EXCEPT !.words = ws]) \in Seq(Lexer)
    BY <1>2, <2>1, TopMoves
  <2>4. QED  BY <2>2, <2>3 DEF Top
<1>4. Expand(h) = body /\ body \in Seq(Token)
  BY <1>1, TokenCacheAssumption DEF Expand
<1> HIDE DEF under, h
<1>5. ToLex(under) \in Seq(Token)
  BY <1>3, ToLexTyped
<1>6. ToLex(lexers') = ToLex(lexers)
  <2>1. CASE body = <<>>
    <3>1. <<>> \o ToLex(under) = ToLex(under)
      BY <1>5, Concatenates
    <3>2. QED  BY <1>1, <1>3, <1>4, <2>1, <3>1
  <2>2. CASE body # <<>>
    <3>1. \A s \in Seq(Token) : s \in Seq(Word)
      BY SeqMonotonic DEF Word
    <3>2. x \in Lexer /\ x.words = body /\ body \in Seq(Word)
      BY <1>4, <3>1 DEF Lexer
    <3>3. ExpandAll(body) = body
      BY <1>4, <3>2, ExpandSteps
    <3> HIDE DEF x, body
    <3>4. ToLex(Append(under, x)) = ExpandAll(x.words) \o ToLex(under)
      BY <1>3, <3>2, ToLexAppend
    <3>5. QED  BY <1>1, <1>3, <1>4, <2>2, <3>2, <3>3, <3>4
  <2>3. QED  BY <2>1, <2>2
<1>7. QED  BY <1>1, <1>6, LexersMove

(* A lexer at its end holds nothing of what comes next.                    *)
LEMMA HandleEndUpcoming == ASSUME IInv, IInv', HandleEndOfTokenLexer PROVE Upcoming' = Upcoming
<1>1. Top.words = <<>> /\ lexers' = Front(lexers) /\ UNCHANGED <<cached, cachedPos, calls, ret>>
  BY DEF HandleEndOfTokenLexer
<1>2. lexers \in Seq(Lexer) /\ lexers # <<>>
  BY DEF IInv, TypeOK
<1>3. ToLex(lexers) = ExpandAll(Top.words) \o ToLex(Front(lexers)) /\ Front(lexers) \in Seq(Lexer)
  BY <1>2, ToLexTop DEF Top
<1>4. ExpandAll(<<>>) = <<>>
  BY EmptySeq, ExpandSteps
<1>5. <<>> \o ToLex(Front(lexers)) = ToLex(Front(lexers))
  BY <1>3, ToLexTyped, Concatenates
<1>6. ToLex(lexers') = ToLex(lexers)
  BY <1>1, <1>3, <1>4, <1>5
<1>7. QED  BY <1>1, <1>6, LexersMove

(* The token that CachingLex returns is cached before the parser has it, or
   the cache that it is not in is forgotten.                                 *)
LEMMA CachingLexReturnsUpcoming ==
  ASSUME IInv, IInv', CachingLexReturns
  PROVE  Upcoming' = Upcoming
<1>1. /\ ~Idle /\ ret \in Token /\ calls \in Seq(Call) /\ Len(calls) = 2
      /\ Front(calls)[1] = calls[1] /\ Front(calls) \in Seq(Call) /\ Len(Front(calls)) = 1
      /\ calls' = Front(calls) /\ ret' = ret
  <2>1. Returns("CachingLex") /\ calls' = Front(calls) /\ ret' = ret
    BY DEF CachingLexReturns
  <2>2. /\ ~Idle /\ ret \in Token /\ calls \in Seq(Call) /\ Len(calls) = 2
        /\ Len(Front(calls)) = Len(calls) - 1 /\ Front(calls) \in Seq(Call)
    BY <2>1, Returning
  <2>3. Front(calls)[1] = calls[1]
    BY <2>1, <2>2, Returning
  <2>4. QED  BY <2>1, <2>2, <2>3
<1>2. calls[1].fn = "ConsumeToken" /\ ~InCachingLexMode(lexers) /\ cachedPos = Len(cached)
  BY <1>1 DEF IInv, Modes
<1>3. ~Peeking /\ ~Peeking'
  BY <1>1, <1>2 DEF Peeking
<1>4. After(cached, cachedPos) = <<>>
  BY <1>1, <1>2, <1>3, NothingAhead
<1>5. cached \in Seq(Token) /\ cachedPos \in Nat
  BY CursorBehindMark
<1>6. After(cached', cachedPos') = <<>> /\ ToLex(lexers') = ToLex(lexers)
  <2>1. CASE isBacktrackEnabled(backtrack)
    <3>1. /\ cached' = Append(cached, ret) /\ cachedPos' = cachedPos + 1
          /\ lexers' = EnterCachingLexMode(lexers)
      BY <2>1 DEF CachingLexReturns
    <3>2. cached' \in Seq(Token) /\ Len(cached') = Len(cached) + 1
      BY <1>1, <1>5, <3>1, AppendProperties
    <3>3. After(cached', Len(cached')) = <<>>
      <4>1. \A c \in Seq(Token) : After(c, Len(c)) = <<>>
        BY AfterAll
      <4>2. QED  BY <3>2, <4>1
    <3>4. cachedPos' = Len(cached')
      BY <1>2, <3>1, <3>2
    <3>5. QED  BY <3>1, <3>3, <3>4, CachingLexesNothing DEF IInv
  <2>2. CASE ~isBacktrackEnabled(backtrack)
    <3>1. cached' = <<>> /\ cachedPos' = 0 /\ lexers' = lexers
      BY <1>2, <1>5, <2>2 DEF CachingLexReturns
    <3>2. After(<<>>, 0) = <<>>
      BY DEF After
    <3>3. QED  BY <3>1, <3>2
  <2>3. QED  BY <2>1, <2>2
<1>7. QED  BY <1>1, <1>3, <1>4, <1>6 DEF Upcoming, Pending

(* The parser takes the first of the tokens to be read.                      *)
LEMMA ConsumeTokenReturnsUpcoming ==
  ASSUME IInv, IInv', ConsumeTokenReturns
  PROVE  Upcoming = <<ret>> \o Upcoming' /\ ret \in Token
<1>1. /\ ~Idle /\ ret \in Token /\ calls \in Seq(Call) /\ Len(calls) = 1
      /\ calls[1].fn = "ConsumeToken" /\ Front(calls) \in Seq(Call) /\ Len(Front(calls)) = 0
      /\ calls' = Front(calls) /\ UNCHANGED <<lexers, cached, cachedPos>>
  BY Returning DEF ConsumeTokenReturns
<1>2. Idle' /\ ~Peeking /\ ret # None
  BY <1>1, NoneIsNoToken DEF Idle, Peeking
<1>3. Upcoming' = After(cached, cachedPos) \o ToLex(lexers)
  BY <1>1, <1>2, UpcomingIdleNext
<1>4. QED  BY <1>1, <1>2, <1>3 DEF Upcoming, Pending

(* The token that is looked at fills its slot in the cache.                  *)
LEMMA PeekAheadReturnsUpcoming ==
  ASSUME IInv, IInv', PeekAheadReturns
  PROVE  Upcoming' = Upcoming
<1> DEFINE n == Len(cached) - 1
           stored == [cached EXCEPT ![n + 1] = ret]
           call == calls[1]
           A == BeforeSlot(cached, cachedPos)
           L == ToLex(lexers)
<1>1. /\ ~Idle /\ ret \in Token /\ calls \in Seq(Call) /\ Len(calls) = 1
      /\ call.fn = "PeekAhead" /\ Last(calls) = call
      /\ Front(calls) \in Seq(Call) /\ Len(Front(calls)) = 0
      /\ ret' = None /\ cachedPos' = cachedPos
  BY Returning DEF PeekAheadReturns
<1>2. /\ Peeking /\ calls[1].slot = Len(cached) /\ cachedPos < Len(cached)
      /\ cached \in Seq(Token) /\ cachedPos \in Nat /\ Len(cached) \in Nat
  BY <1>1, CursorBehindMark, WaitingCalls DEF Peeking
<1>3. n \in Nat /\ n + 1 = Len(cached) /\ cachedPos <= n /\ n + 1 \in 1..Len(cached)
  BY <1>2
<1>4. /\ stored \in Seq(Token) /\ Len(stored) = n + 1 /\ stored[n + 1] = ret
      /\ \A i \in 1..n : stored[i] = cached[i]
  <2> HIDE DEF n
  <2>1. /\ stored \in Seq(Token) /\ Len(stored) = Len(cached)
        /\ \A i \in 1..Len(cached) : stored[i] = IF i = n + 1 THEN ret ELSE cached[i]
    BY <1>1, <1>2, <1>3, ExceptSeq
  <2>2. ASSUME NEW i \in 1..n PROVE i \in 1..Len(cached) /\ i # n + 1
    BY <1>3
  <2>3. QED  BY <1>3, <2>1, <2>2
<1>5. SubSeq(stored, cachedPos + 1, n) = A
  <2>1. A = SubSeq(cached, cachedPos + 1, n)
    BY DEF BeforeSlot
  <2> HIDE DEF n, stored, A
  <2>2. n <= Len(stored) /\ n <= Len(cached) /\ n <= n /\ \A i \in 1..n : stored[i] = cached[i]
    BY <1>3, <1>4
  <2>3. SubSeq(stored, cachedPos + 1, n) = SubSeq(cached, cachedPos + 1, n)
    BY <1>2, <1>3, <1>4, <2>2, PartsAgree
  <2>4. QED  BY <2>1, <2>3
<1>6. After(stored, cachedPos) = A \o <<ret>> /\ A \in Seq(Token) /\ <<ret>> \in Seq(Token)
  <2> HIDE DEF n, stored, A
  <2>1. n < Len(stored)
    BY <1>3, <1>4
  <2>2. /\ SubSeq(stored, cachedPos + 1, n + 1) = Append(SubSeq(stored, cachedPos + 1, n), stored[n + 1])
        /\ SubSeq(stored, cachedPos + 1, n) \in Seq(Token)
    BY <1>2, <1>3, <1>4, <2>1, LastOfPart
  <2>3. After(stored, cachedPos) = Append(A, ret) /\ A \in Seq(Token)
    BY <1>4, <1>5, <2>2 DEF After
  <2>4. QED  BY <1>1, <2>3, AppendIsConcat
<1>7. L \in Seq(Token)
  BY TokensTyped DEF Tokens
<1>8. Upcoming = A \o (<<ret>> \o L)
  <2>1. ret # None
    BY <1>1, NoneIsNoToken
  <2>2. QED  BY <1>2, <2>1 DEF Upcoming, Pending
<1>9. (A \o <<ret>>) \o L = A \o (<<ret>> \o L)
  <2> HIDE DEF A, L
  <2>1. QED  BY <1>6, <1>7, Concatenates
<1>10. [cached EXCEPT ![Last(calls).slot] = ret] = stored
  BY <1>1, <1>2, <1>3
<1> HIDE DEF stored, n, A, L
<1>11. CASE call.left > 0
  <2> DEFINE again == [call EXCEPT !.left = @ - 1, !.slot = Len(cached) + 1]
  <2>1. cached' = Append(stored, <<>>) /\ calls' = <<again>> /\ lexers' = lexers
    BY <1>1, <1>10, <1>11 DEF PeekAheadReturns
  <2>2. again.fn = "PeekAhead"
    <3>1. call \in Call
      BY <1>1
    <3>2. QED  BY <1>1, <3>1 DEF Call
  <2> HIDE DEF again
  <2>3. Peeking'
    <3>1. calls' # <<>> /\ calls'[1] = again
      BY <2>1
    <3>2. QED  BY <2>2, <3>1 DEF Peeking, Idle
  <2>4. BeforeSlot(cached', cachedPos') = After(stored, cachedPos)
    <3> DEFINE m == Len(stored)
    <3>1. <<>> \in Token
      BY EmptySeq DEF Token
    <3> DEFINE c == Append(stored, <<>>)
    <3>2. /\ c \in Seq(Token) /\ Len(c) = m + 1 /\ m \in Nat
          /\ \A i \in 1..m : c[i] = stored[i]
      BY <1>4, <3>1, AppendProperties
    <3> HIDE DEF c
    <3>3. m <= Len(c) /\ m <= Len(stored) /\ m <= m /\ Len(c) - 1 = m
      BY <3>2
    <3>4. After(stored, cachedPos) = SubSeq(stored, cachedPos + 1, m)
      BY DEF After
    <3> HIDE DEF m
    <3>5. SubSeq(c, cachedPos + 1, m) = SubSeq(stored, cachedPos + 1, m)
      BY <1>2, <1>4, <3>2, <3>3, PartsAgree
    <3>6. BeforeSlot(c, cachedPos) = SubSeq(c, cachedPos + 1, m)
      BY <3>3 DEF BeforeSlot
    <3>7. QED  BY <1>1, <2>1, <3>4, <3>5, <3>6 DEF c
  <2>5. Upcoming' = (A \o <<ret>>) \o (<<>> \o L)
    BY <1>1, <1>6, <2>1, <2>3, <2>4 DEF Upcoming, Pending, L
  <2>6. <<>> \o L = L
    BY <1>7, Concatenates
  <2>7. QED  BY <1>8, <1>9, <2>5, <2>6
<1>12. CASE ~(call.left > 0)
  <2>1. cached' = stored /\ calls' = Front(calls) /\ lexers' = EnterCachingLexMode(lexers)
    BY <1>1, <1>10, <1>12 DEF PeekAheadReturns
  <2>2. Idle'
    BY <1>1, <2>1 DEF Idle
  <2>3. ToLex(lexers') = L
    BY <2>1, CachingLexesNothing DEF IInv, L
  <2>4. Upcoming' = (A \o <<ret>>) \o L
    BY <1>1, <1>6, <2>1, <2>2, <2>3, UpcomingIdleNext
  <2>5. QED  BY <1>8, <1>9, <2>4
<1>13. QED  BY <1>11, <1>12

(* Two sequences put end to end: what they have in which place.              *)
LEMMA Joined ==
  ASSUME NEW T, NEW a \in Seq(T), NEW b \in Seq(T)
  PROVE  /\ a \o b \in Seq(T) /\ Len(a \o b) = Len(a) + Len(b)
         /\ After(a \o b, Len(a)) = b /\ SubSeq(a \o b, 1, Len(a)) = a
         /\ \A i \in 1..Len(a) : (a \o b)[i] = a[i]
<1> DEFINE m == Len(a)
           n == Len(a) + Len(b)
           c == a \o b
<1>1. /\ c \in Seq(T) /\ Len(c) = n
      /\ \A i \in 1..n : c[i] = IF i <= m THEN a[i] ELSE b[i - m]
  BY ConcatProperties
<1>2. m \in Nat /\ Len(b) \in Nat /\ n = m + Len(b)
  BY LenProperties
<1> HIDE DEF m, n, c
<1>3. \A i \in 1..m : i \in 1..n /\ i <= m
  BY <1>2
<1>4. \A i \in 1..m : c[i] = a[i]
  BY <1>1, <1>3
<1>5. After(c, m) = b
  <2> DEFINE d == SubSeq(c, m + 1, n)
  <2>1. \A i \in m + 1..n : c[i] \in T
    <3>1. \A i \in m + 1..n : i \in 1..Len(c)
      BY <1>1, <1>2
    <3>2. QED  BY <1>1, <3>1, ElementOfSeq
  <2>2. m + 1 \in Int /\ n \in Int
    BY <1>2
  <2>3. /\ d \in Seq(T) /\ Len(d) = (IF m + 1 <= n THEN n - (m + 1) + 1 ELSE 0)
        /\ \A i \in 1..n - (m + 1) + 1 : d[i] = c[(m + 1) + i - 1]
    BY <2>1, <2>2, SubSeqProperties
  <2> HIDE DEF d
  <2>4. Len(d) = Len(b) /\ n - (m + 1) + 1 = Len(b)
    BY <1>2, <2>3
  <2>5. ASSUME NEW i \in 1..Len(d) PROVE d[i] = b[i]
    <3>1. /\ (m + 1) + i - 1 = m + i /\ m + i \in 1..n /\ ~(m + i <= m) /\ (m + i) - m = i
          /\ i \in 1..n - (m + 1) + 1
      BY <1>2, <2>4
    <3>2. d[i] = c[m + i]
      BY <2>3, <3>1
    <3>3. c[m + i] = b[i]
      BY <1>1, <3>1
    <3>4. QED  BY <3>2, <3>3
  <2>6. d = b
    BY <2>3, <2>4, <2>5, SeqEqual
  <2>7. QED  BY <1>1, <2>6 DEF After, d
<1>6. SubSeq(c, 1, m) = a
  <2>1. m <= Len(a) /\ m <= Len(c) /\ m <= m /\ 0 \in Nat /\ 0 + 1 = 1
    BY <1>1, <1>2 DEF m
  <2>2. SubSeq(c, 0 + 1, m) = SubSeq(a, 0 + 1, m)
    BY <1>1, <1>2, <1>4, <2>1, PartsAgree
  <2>3. SubSeq(a, 1, m) = a
    BY SubSeqFull DEF m
  <2>4. QED  BY <2>1, <2>2, <2>3
<1>7. QED  BY <1>1, <1>4, <1>5, <1>6 DEF m, n, c

(* The cache with an annotation in it: before it, at it and behind it.       *)
LEMMA AnnotatedParts ==
  ASSUME NEW c \in Seq(Token), NEW pos \in Nat, pos <= Len(c),
         NEW i \in 1..pos + 1, NEW t \in Token
  PROVE  /\ Annotated(c, i, pos, t) \in Seq(Token) /\ i <= Len(Annotated(c, i, pos, t))
         /\ After(Annotated(c, i, pos, t), i) = After(c, pos)
         /\ Annotated(c, i, pos, t)[i] = t
         /\ \A k \in 1..i - 1 : Annotated(c, i, pos, t)[k] = c[k]
<1> DEFINE before == SubSeq(c, 1, i - 1)
           after == After(c, pos)
           a == Append(before, t)
           m == Len(c)
<1>1. /\ m \in Nat /\ m = Len(c) /\ i - 1 \in Nat /\ i - 1 <= Len(c) /\ i \in Nat
      /\ pos + 1 \in Nat /\ pos + 1 >= 1 /\ pos <= m /\ i - 1 + 1 = i
  OBVIOUS
<1>2. /\ before \in Seq(Token) /\ Len(before) = i - 1
      /\ \A k \in 1..i - 1 : before[k] = c[k]
  <2> DEFINE h == i - 1
  <2>1. \A k \in 1..h : c[k] \in Token
    <3>1. \A k \in 1..h : k \in 1..Len(c)
      BY <1>1
    <3>2. QED  BY <3>1, ElementOfSeq
  <2>2. h \in Nat
    BY <1>1
  <2> HIDE DEF h
  <2> DEFINE b == SubSeq(c, 1, h)
  <2>3. /\ b \in Seq(Token) /\ Len(b) = (IF 1 <= h THEN h - 1 + 1 ELSE 0)
        /\ \A k \in 1..h - 1 + 1 : b[k] = c[1 + k - 1]
    BY <2>1, <2>2, SubSeqProperties
  <2> HIDE DEF b
  <2>4. /\ Len(b) = h /\ h - 1 + 1 = h /\ \A k \in 1..h : 1 + k - 1 = k
    BY <2>2, <2>3
  <2>5. QED  BY <2>3, <2>4 DEF b, h
<1>3. after \in Seq(Token)
  <2>1. \A k \in Nat : k <= Len(c) => After(c, k) \in Seq(Token)
    <3>1. \A k \in Nat : k <= k
      OBVIOUS
    <3>2. QED  BY <3>1, AfterMeets
  <2>2. QED  BY <2>1
<1> HIDE DEF before, after, m
<1>4. /\ a \in Seq(Token) /\ Len(a) = i /\ a[i] = t
      /\ \A k \in 1..i - 1 : a[k] = c[k]
      /\ a = before \o <<t>>
  <2>1. /\ a \in Seq(Token) /\ Len(a) = Len(before) + 1 /\ a[Len(before) + 1] = t
        /\ \A k \in 1..Len(before) : a[k] = before[k]
        /\ a = before \o <<t>>
    BY <1>2, AppendProperties, AppendIsConcat
  <2> HIDE DEF a
  <2>2. QED  BY <1>1, <1>2, <2>1
<1> HIDE DEF a
<1> DEFINE d == a \o after
<1>5. /\ d \in Seq(Token) /\ Len(d) = Len(a) + Len(after) /\ After(d, Len(a)) = after
      /\ \A k \in 1..Len(a) : d[k] = a[k]
  <2>1. a \in Seq(Token)
    BY <1>4
  <2>2. After(d, Len(a)) = after
    BY <1>3, <2>1, Joined, Zenon
  <2>3. d \in Seq(Token) /\ Len(d) = Len(a) + Len(after)
    BY <1>3, <2>1, Joined, Zenon
  <2>4. \A k \in 1..Len(a) : d[k] = a[k]
    BY <1>3, <2>1, Joined, Zenon
  <2>5. QED  BY <2>2, <2>3, <2>4
<1> HIDE DEF d
<1>6. /\ After(d, i) = after /\ d[i] = t /\ \A k \in 1..i - 1 : d[k] = c[k]
      /\ i <= Len(d)
  <2>1. \A k \in 1..i - 1 : k \in 1..i
    OBVIOUS
  <2>2. i \in 1..i
    OBVIOUS
  <2>3. Len(after) \in Nat /\ Len(a) \in Nat
    BY <1>3, <1>4
  <2>4. QED  BY <1>4, <1>5, <2>1, <2>2, <2>3
<1>7. Annotated(c, i, pos, t) = d
  BY <1>4 DEF Annotated, d, after, After, before
<1>8. QED  BY <1>5, <1>6, <1>7 DEF after

(* A token that is entered is the first one ahead.                          *)
LEMMA EnteredAhead ==
  ASSUME cached \in Seq(Token), cachedPos \in Nat, cachedPos <= Len(cached), NEW t \in Token
  PROVE  /\ After(Entered(t), cachedPos) = <<t>> \o After(cached, cachedPos)
         /\ Entered(t) \in Seq(Token) /\ cachedPos <= Len(Entered(t))
         /\ \A i \in 1..cachedPos : Entered(t)[i] = cached[i]
<1> DEFINE e == Entered(t)
<1>1. e = Annotated(cached, cachedPos + 1, cachedPos, t)
  BY DEF Entered, Annotated, InsertAt
<1>2. cachedPos + 1 \in 1..cachedPos + 1 /\ (cachedPos + 1) - 1 = cachedPos
  OBVIOUS
<1>3. /\ e \in Seq(Token) /\ cachedPos + 1 <= Len(e)
      /\ After(e, cachedPos + 1) = After(cached, cachedPos)
      /\ e[cachedPos + 1] = t /\ \A k \in 1..cachedPos : e[k] = cached[k]
  <2> HIDE DEF e
  <2> DEFINE i == cachedPos + 1
             a == Annotated(cached, i, cachedPos, t)
  <2>1. i \in 1..cachedPos + 1
    BY <1>2
  <2> HIDE DEF i
  <2>2. /\ a \in Seq(Token) /\ i <= Len(a) /\ After(a, i) = After(cached, cachedPos)
        /\ a[i] = t /\ \A k \in 1..i - 1 : a[k] = cached[k]
    BY <2>1, AnnotatedParts
  <2>3. e = a
    BY <1>1 DEF i
  <2> HIDE DEF a
  <2>4. QED  BY <1>2, <2>2, <2>3 DEF i
<1> HIDE DEF e
<1>4. cachedPos < Len(e) /\ cachedPos <= Len(e)
  <2>1. Len(e) \in Nat
    BY <1>3, LenProperties
  <2>2. QED  BY <1>3, <2>1
<1>5. After(e, cachedPos) = <<e[cachedPos + 1]>> \o After(e, cachedPos + 1)
  BY <1>3, <1>4, AfterFirst
<1>6. QED  BY <1>3, <1>4, <1>5 DEF e

(* The token that is entered comes next.                                   *)
LEMMA EnterTokenUpcoming ==
  ASSUME IInv, IInv', EnterToken
  PROVE  Upcoming' = <<Tok>> \o Upcoming /\ Tok \in Token
<1>1. /\ Idle /\ Idle' /\ read \in Seq(Token) /\ read # <<>>
      /\ lexers' = EnterCachingLexMode(lexers)
      /\ cached' = Entered(Tok) /\ cachedPos' = cachedPos
  BY DEF IInv, TypeOK, EnterToken, Idle
<1>2. Tok \in Token
  BY <1>1, FrontFields DEF Tok
<1> DEFINE A == After(cached, cachedPos)
           L == ToLex(lexers)
<1>3. After(Entered(Tok), cachedPos) = <<Tok>> \o A
  BY <1>2, CursorBehindMark, EnteredAhead
<1>4. ToLex(lexers') = L
  BY <1>1, CachingLexesNothing DEF IInv
<1>5. Upcoming = A \o L /\ Upcoming' = (<<Tok>> \o A) \o L
  BY <1>1, <1>3, <1>4, UpcomingIdle, UpcomingIdleNext
<1>6. A \in Seq(Token) /\ L \in Seq(Token) /\ <<Tok>> \in Seq(Token)
  BY <1>2, TokensTyped DEF Tokens
<1> HIDE DEF A, L
<1>7. (<<Tok>> \o A) \o L = <<Tok>> \o (A \o L)
  BY <1>6, Concatenates
<1>8. QED  BY <1>2, <1>5, <1>7

(* A stream is lexed before what was to be read.                            *)
LEMMA EnterTokenStreamUpcoming ==
  ASSUME IInv, IInv', ~StreamsWhileCaching, NEW s \in Streams, EnterTokenStream(s)
  PROVE  /\ Upcoming' = Append(s, Tok) \o Upcoming /\ Tok \in Token
         /\ s \in Seq(Token) /\ Empty
<1> DEFINE words == Append(s, Tok)
           x == [kind |-> "stream", words |-> words]
           c == Calling("ConsumeToken")
<1>1. /\ Idle /\ read \in Seq(Token) /\ read # <<>> /\ ~InCachingLexMode(lexers)
      /\ lexers' = Append(lexers, x) /\ lexers \in Seq(Lexer)
      /\ calls' = <<c>> /\ UNCHANGED <<cached, cachedPos, ret>>
  BY DEF IInv, TypeOK, EnterTokenStream
<1>2. Tok \in Token
  BY <1>1, FrontFields DEF Tok
<1>3. s \in Seq(Token)
  BY TokenCacheAssumption
<1>4. words \in Seq(Token)
  BY <1>2, <1>3, AppendProperties
<1>5. words \in Seq(Word)
  <2>1. \A v \in Seq(Token) : v \in Seq(Word)
    BY SeqMonotonic DEF Word
  <2>2. QED  BY <1>4, <2>1
<1> HIDE DEF words
<1>6. x \in Lexer /\ x.words = words
  BY <1>5 DEF Lexer
<1>7. ToLex(lexers') = words \o ToLex(lexers)
  <2>1. ToLex(Append(lexers, x)) = ExpandAll(x.words) \o ToLex(lexers)
    BY <1>1, <1>6, ToLexAppend
  <2>2. ExpandAll(words) = words
    BY <1>4, <1>5, ExpandSteps
  <2>3. QED  BY <1>1, <1>6, <2>1, <2>2
<1>8. Empty /\ ret = None /\ ~Peeking
  BY <1>1, TentativeMode, WaitingCalls
<1>9. After(cached, cachedPos) = <<>>
  <2>1. After(<<>>, 0) = <<>>
    BY DEF After
  <2>2. QED  BY <1>8, <2>1 DEF Empty
<1>10. ~Peeking'
  <2>1. c.fn = "ConsumeToken"
    BY CallTyped
  <2> HIDE DEF c
  <2>2. calls'[1] = c
    BY <1>1
  <2>3. QED  BY <2>1, <2>2 DEF Peeking
<1>11. /\ Upcoming = <<>> \o ToLex(lexers) /\ Upcoming' = <<>> \o (<<>> \o (words \o ToLex(lexers)))
  BY <1>1, <1>7, <1>8, <1>9, <1>10, UpcomingIdle DEF Upcoming, Pending
<1>12. ToLex(lexers) \in Seq(Token)
  BY <1>1, ToLexTyped
<1> DEFINE L == ToLex(lexers)
           w == words \o L
<1> HIDE DEF L, w, x
<1>13. w \in Seq(Token)
  BY <1>4, <1>12, Concatenates DEF L, w
<1>14. <<>> \o L = L /\ <<>> \o w = w
  BY <1>12, <1>13, Concatenates DEF L
<1>15. QED  BY <1>2, <1>3, <1>8, <1>11, <1>14 DEF L, w, words

(* An annotation in the cache leaves what is ahead.                         *)
LEMMA AnnotateAhead ==
  ASSUME cached \in Seq(Token), NEW pos \in Nat, pos <= Len(cached), NEW t \in Token,
         AnnotateCachedTokens(pos, t)
  PROVE  After(cached', cachedPos') = After(cached, pos)
<1> DEFINE B == BeginsAt(cached, pos, t)
           i == LastBegin(cached, pos, t)
<1>1. CASE ~(pos # 0 /\ isBacktrackEnabled(backtrack)) \/ B = {}
  BY <1>1 DEF AnnotateCachedTokens
<1>2. CASE pos # 0 /\ isBacktrackEnabled(backtrack) /\ B # {}
  <2>1. cached' = Annotated(cached, i, pos, t) /\ cachedPos' = i
    BY <1>2 DEF AnnotateCachedTokens
  <2>2. i \in 1..pos + 1
    <3>1. i \in 1..pos
      BY <1>2, LastBeginInRange
    <3> HIDE DEF i
    <3>2. QED  BY <3>1
  <2> HIDE DEF i
  <2>3. After(Annotated(cached, i, pos, t), i) = After(cached, pos)
    BY <2>2, AnnotatedParts
  <2>4. QED  BY <2>1, <2>3
<1>3. QED  BY <1>1, <1>2

(* A name that becomes an annotation leaves what comes next.               *)
LEMMA AnnotateNameUpcoming ==
  ASSUME IInv, IInv', NEW j \in 1..Len(read), AnnotateName(j)
  PROVE  Upcoming' = Upcoming
<1> DEFINE t == Covered(read, j)
<1>1. /\ Idle /\ Idle' /\ lexers' = lexers /\ read \in Seq(Token) /\ j \in Nat /\ j >= 1
      /\ j <= Len(read) /\ AnnotateCachedTokens(cachedPos, t)
  BY DEF AnnotateName, CanCover, Idle, IInv, TypeOK
<1>2. t \in Token
  BY <1>1, CoveredTyped
<1> HIDE DEF t
<1>3. After(cached', cachedPos') = After(cached, cachedPos)
  BY <1>1, <1>2, CursorBehindMark, AnnotateAhead
<1>4. QED  BY <1>1, <1>3, UpcomingIdle, UpcomingIdleNext

(* Tok is to be read again.                                                  *)
LEMMA AnnotateScopeUpcoming ==
  ASSUME IInv, IInv', NEW j \in 1..Len(read), NEW isNew \in BOOLEAN, AnnotateScopeToken(j, isNew)
  PROVE  Upcoming' = <<Tok>> \o Upcoming /\ Tok \in Token
<1> DEFINE t == Covered(Front(read), j)
           A == After(cached, cachedPos)
           L == ToLex(lexers)
<1>1. /\ Idle /\ Idle' /\ read \in Seq(Token) /\ read # <<>> /\ j \in Nat /\ j >= 1
      /\ j <= Len(Front(read))
  BY DEF IInv, TypeOK, AnnotateScopeToken, CanCover, Idle
<1>2. Front(read) \in Seq(Token) /\ Tok \in Token
  BY <1>1, FrontFields DEF Tok
<1>3. t \in Token
  BY <1>1, <1>2, CoveredTyped
<1>4. After(cached', cachedPos') = <<Tok>> \o A /\ ToLex(lexers') = L
  <2>1. CASE isBacktrackEnabled(backtrack)
    <3>1. /\ cachedPos > Last(backtrack) /\ lexers' = lexers /\ cached[cachedPos] = Tok
          /\ IF isNew THEN AnnotateCachedTokens(cachedPos - 1, t)
             ELSE cached' = cached /\ cachedPos' = cachedPos - 1
      BY <2>1 DEF AnnotateScopeToken
    <3>2. /\ cached \in Seq(Token) /\ cachedPos - 1 \in Nat /\ cachedPos - 1 <= Len(cached)
          /\ cachedPos - 1 < Len(cached) /\ cachedPos - 1 + 1 = cachedPos
      BY <2>1, <3>1, CursorBehindMark
    <3> HIDE DEF t
    <3>3. After(cached', cachedPos') = After(cached, cachedPos - 1)
      <4>1. CASE isNew
        <5> DEFINE p == cachedPos - 1
        <5>1. p \in Nat /\ p <= Len(cached) /\ AnnotateCachedTokens(p, t)
          BY <3>1, <3>2, <4>1
        <5> HIDE DEF p
        <5>2. After(cached', cachedPos') = After(cached, p)
          BY <1>3, <3>2, <5>1, AnnotateAhead
        <5>3. QED  BY <5>2 DEF p
      <4>2. CASE ~isNew
        BY <3>1, <4>2
      <4>3. QED  BY <4>1, <4>2
    <3>4. After(cached, cachedPos - 1) = <<cached[cachedPos]>> \o A
      <4> DEFINE p == cachedPos - 1
      <4>1. p \in Nat /\ p < Len(cached) /\ p + 1 = cachedPos
        BY <3>2
      <4> HIDE DEF p
      <4>2. After(cached, p) = <<cached[p + 1]>> \o After(cached, p + 1)
        BY <3>2, <4>1, AfterFirst
      <4>3. QED  BY <4>1, <4>2 DEF p
    <3>5. QED  BY <3>1, <3>3, <3>4
  <2>2. CASE ~isBacktrackEnabled(backtrack)
    <3>1. /\ cached' = Entered(Tok) /\ lexers' = EnterCachingLexMode(lexers)
          /\ cachedPos' = cachedPos
      BY <2>2 DEF AnnotateScopeToken
    <3>2. After(Entered(Tok), cachedPos) = <<Tok>> \o A
      BY <1>2, CursorBehindMark, EnteredAhead
    <3>3. QED  BY <3>1, <3>2, CachingLexesNothing DEF IInv
  <2>3. QED  BY <2>1, <2>2
<1>5. Upcoming = A \o L /\ Upcoming' = (<<Tok>> \o A) \o L
  BY <1>1, <1>4, UpcomingIdle, UpcomingIdleNext
<1>6. A \in Seq(Token) /\ L \in Seq(Token) /\ <<Tok>> \in Seq(Token)
  BY <1>2, TokensTyped DEF Tokens
<1> HIDE DEF A, L, t
<1>7. (<<Tok>> \o A) \o L = <<Tok>> \o (A \o L)
  BY <1>6, Concatenates
<1>8. QED  BY <1>2, <1>5, <1>7

-----------------------------------------------------------------------------
(* What a look ahead says is the token that is read                         *)

(* A look ahead that has been answered has told the token that will be read
   then; one that is under way fills the slots up to that token's.           *)
Told == peek.n < Len(Upcoming) /\ Upcoming[peek.n + 1] = peek.tok
Looking == calls[1].left + (Len(cached) - cachedPos) = peek.n + 1 /\ peek.n < Len(Upcoming)
PeekHolds == (Peeking => Looking) /\ (~Peeking /\ peek # None => Told)

(* A step that leaves what is to be read, and looks for no token, keeps that. *)
LEMMA PeekKept ==
  ASSUME PeekHolds, Upcoming' = Upcoming, ~Peeking, ~Peeking', peek' = peek
  PROVE  PeekHolds'
BY DEF PeekHolds, Told

(* A look ahead that is forgotten says nothing of what comes next.         *)
LEMMA PeekForgotten ==
  ASSUME ~Peeking', peek' = None
  PROVE  PeekHolds'
BY DEF PeekHolds

(* So does a step below the cache, whatever call waits.                      *)
LEMMA PeekBelow ==
  ASSUME PeekHolds, Upcoming' = Upcoming, UNCHANGED <<calls, cached, cachedPos, peek>>
  PROVE  PeekHolds'
<1>1. Peeking' <=> Peeking
  BY DEF Peeking, Idle
<1>2. QED  BY <1>1 DEF PeekHolds, Told, Looking

(* A look ahead: the token is ahead in the cache, or so many have to be lexed. *)
LEMMA LookAheadPeeks ==
  ASSUME IInv, IInv', PeekHolds, NEW n \in 0..MaxPeek, LookAhead(n)
  PROVE  PeekHolds'
<1> DEFINE A == After(cached, cachedPos)
           L == ToLex(lexers)
<1>1. /\ Idle /\ n < Len(Remaining) /\ cachedPos' = cachedPos /\ n \in Nat
  BY TokenCacheAssumption DEF LookAhead
<1>2. Upcoming' = Upcoming /\ Upcoming = A \o L /\ Remaining = A \o L
  BY <1>1, LookAheadUpcoming, UpcomingIdle, UncachedIs DEF Remaining, Ahead, After
<1>3. /\ Len(Ahead) = Len(cached) - cachedPos /\ Len(Ahead) \in Nat /\ A = Ahead
      /\ cached \in Seq(Token) /\ cachedPos \in Nat /\ Len(cached) \in Nat
  BY CursorBehindMark, AheadInCache DEF Ahead, After
<1>4. CASE n < Len(Ahead)
  <2>1. peek' = [n |-> n, tok |-> Peeked(n)] /\ Idle'
    BY <1>1, <1>4 DEF LookAhead, Idle
  <2>2. ~Peeking'
    BY <2>1 DEF Peeking
  <2>3. A[n + 1] = Peeked(n)
    <3> DEFINE m == Len(cached)
    <3>1. \A i \in cachedPos + 1..m : cached[i] \in Token
      BY <1>3
    <3>2. cachedPos + 1 \in Int /\ m \in Int
      BY <1>3
    <3>3. \A i \in 1..m - (cachedPos + 1) + 1 :
            SubSeq(cached, cachedPos + 1, m)[i] = cached[(cachedPos + 1) + i - 1]
      BY <3>1, <3>2, SubSeqProperties
    <3>4. /\ n + 1 \in 1..m - (cachedPos + 1) + 1
          /\ (cachedPos + 1) + (n + 1) - 1 = cachedPos + n + 1
      BY <1>1, <1>3, <1>4
    <3> DEFINE k == n + 1
               part == SubSeq(cached, cachedPos + 1, m)
    <3>5. /\ k \in 1..m - (cachedPos + 1) + 1
          /\ \A i \in 1..m - (cachedPos + 1) + 1 : part[i] = cached[(cachedPos + 1) + i - 1]
          /\ (cachedPos + 1) + k - 1 = cachedPos + n + 1
      BY <3>3, <3>4
    <3>6. part = A
      BY DEF After
    <3> HIDE DEF m, k, part, A
    <3>7. part[k] = cached[(cachedPos + 1) + k - 1]
      BY <3>5
    <3>8. part[k] = cached[cachedPos + n + 1]
      BY <3>5, <3>7
    <3>9. QED  BY <3>6, <3>8 DEF Peeked, k
  <2>4. (A \o L)[n + 1] = A[n + 1]
    <3>1. A \in Seq(Token) /\ L \in Seq(Token)
      BY TokensTyped DEF Tokens
    <3>2. n + 1 \in 1..Len(A)
      BY <1>1, <1>3, <1>4
    <3> HIDE DEF A, L
    <3>3. \A i \in 1..Len(A) : (A \o L)[i] = A[i]
      BY <3>1, Joined
    <3>4. QED  BY <3>2, <3>3
  <2>5. peek'.n = n /\ peek'.tok = Peeked(n)
    BY <2>1
  <2>6. Told'
    BY <1>1, <1>2, <2>3, <2>4, <2>5 DEF Told
  <2>7. QED  BY <2>2, <2>6 DEF PeekHolds
<1>5. CASE ~(n < Len(Ahead))
  <2> DEFINE c == [fn |-> "PeekAhead", left |-> n - Len(Ahead), slot |-> Len(cached) + 1]
  <2>1. /\ calls' = <<c>> /\ cached' = Append(cached, <<>>) /\ peek' = [n |-> n, tok |-> None]
    BY <1>5 DEF LookAhead
  <2>2. c.fn = "PeekAhead" /\ c.left = n - Len(Ahead)
    OBVIOUS
  <2> HIDE DEF c
  <2>3. calls'[1] = c /\ calls' # <<>>
    BY <2>1
  <2>4. Peeking'
    BY <2>2, <2>3 DEF Peeking, Idle
  <2>5. Len(cached') = Len(cached) + 1 /\ peek'.n = n
    <3>1. <<>> \in Token
      BY EmptySeq DEF Token
    <3>2. QED  BY <1>3, <2>1, <3>1, AppendProperties
  <2>6. (n - Len(Ahead)) + ((Len(cached) + 1) - cachedPos) = n + 1
    BY <1>1, <1>3
  <2>7. Looking'
    BY <1>1, <1>2, <2>2, <2>3, <2>5, <2>6 DEF Looking
  <2>8. QED  BY <2>4, <2>7 DEF PeekHolds
<1>6. QED  BY <1>4, <1>5

(* The parser reads a token: the one told of is nearer by one.               *)
LEMMA ConsumeTokenReturnsPeeks ==
  ASSUME IInv, IInv', PeekHolds, ConsumeTokenReturns
  PROVE  PeekHolds' /\ (peek # None /\ peek.n = 0 => ret = peek.tok)
<1>1. /\ Upcoming = <<ret>> \o Upcoming' /\ ret \in Token
      /\ Upcoming' \in Seq(Token)
  BY ConsumeTokenReturnsUpcoming, TokensTypedNext DEF Tokens
<1>2. ~Idle /\ ret \in Token /\ Len(calls) = 1 /\ calls[1].fn = "ConsumeToken"
  BY Returning DEF ConsumeTokenReturns
<1>3. ~Peeking /\ ~Peeking'
  <2>1. ~Peeking
    BY <1>2 DEF Peeking
  <2>2. calls' = Front(calls) /\ Front(calls) \in Seq(Call) /\ Len(Front(calls)) = Len(calls) - 1
    BY Returning DEF ConsumeTokenReturns
  <2>3. Idle'
    <3>1. \A s \in Seq(Call) : Len(s) = 0 => s = <<>>
      BY EmptySeq
    <3>2. Len(calls) - 1 = 0
      BY <1>2
    <3>3. QED  BY <2>2, <3>1, <3>2 DEF Idle
  <2>4. QED  BY <2>1, <2>3 DEF Peeking
<1> DEFINE U == Upcoming'
           o == <<ret>>
<1>4. o \in Seq(Token) /\ Len(o) = 1 /\ o[1] = ret
  BY <1>1
<1>5. U \in Seq(Token)
  BY <1>1
<1>6. Upcoming = o \o U
  BY <1>1
<1> HIDE DEF U, o
<1>7. /\ Len(Upcoming) = 1 + Len(U) /\ Upcoming[1] = ret
      /\ \A i \in 1..Len(U) : Upcoming[i + 1] = U[i]
  <2>1. /\ Len(o \o U) = Len(o) + Len(U)
        /\ \A i \in 1..Len(o) + Len(U) : (o \o U)[i] = IF i <= Len(o) THEN o[i] ELSE U[i - Len(o)]
    BY <1>4, <1>5, ConcatProperties
  <2>2. Len(U) \in Nat
    BY <1>5, LenProperties
  <2>3. (o \o U)[1] = o[1]
    <3>1. 1 \in 1..1 + Len(U) /\ 1 <= 1
      BY <2>2
    <3>2. QED  BY <1>4, <2>1, <3>1
  <2>4. ASSUME NEW i \in 1..Len(U) PROVE (o \o U)[i + 1] = U[i]
    <3>1. i + 1 \in 1..1 + Len(U) /\ ~(i + 1 <= 1) /\ (i + 1) - 1 = i
      BY <2>2
    <3>2. QED  BY <1>4, <2>1, <3>1
  <2>5. QED  BY <1>4, <1>6, <2>1, <2>3, <2>4
<1>8. Len(U) \in Nat
  BY <1>5, LenProperties
<1>9. CASE peek = None
  <2>1. peek' = None
    BY <1>9 DEF ConsumeTokenReturns
  <2>2. QED  BY <1>3, <1>9, <2>1, PeekForgotten
<1>10. CASE peek # None
  <2>1. Told /\ peek \in [n : Nat, tok : Token \cup {None}]
    BY <1>3, <1>10 DEF PeekHolds, IInv, TypeOK
  <2> DEFINE k == peek.n
  <2>2. k \in Nat /\ k < 1 + Len(U) /\ Upcoming[k + 1] = peek.tok
    BY <1>7, <2>1 DEF Told
  <2> HIDE DEF k
  <2>3. CASE k = 0
    <3>1. peek' = None
      BY <1>10, <2>3 DEF ConsumeTokenReturns, k
    <3>2. ret = peek.tok
      BY <1>7, <2>2, <2>3
    <3>3. QED  BY <1>3, <3>1, <3>2, PeekForgotten
  <2>4. CASE k # 0
    <3>1. peek' = [peek EXCEPT !.n = @ - 1]
      BY <1>10, <2>4 DEF ConsumeTokenReturns, k
    <3>2. peek'.n = k - 1 /\ peek'.tok = peek.tok
      BY <2>1, <3>1 DEF k
    <3>3. k - 1 \in Nat /\ k - 1 < Len(U) /\ k \in 1..Len(U) /\ (k - 1) + 1 = k
      BY <1>8, <2>2, <2>4
    <3>4. U[k] = peek.tok
      BY <1>7, <2>2, <3>3
    <3>5. Told'
      BY <3>2, <3>3, <3>4 DEF Told, U
    <3>6. QED  BY <1>3, <2>4, <3>5 DEF PeekHolds, k
  <2>5. QED  BY <2>3, <2>4
<1>11. QED  BY <1>9, <1>10

(* A token that was looked at is told, once the last slot is filled.         *)
LEMMA PeekAheadReturnsPeeks ==
  ASSUME IInv, IInv', PeekHolds, PeekAheadReturns
  PROVE  PeekHolds'
<1>1. Upcoming' = Upcoming
  BY PeekAheadReturnsUpcoming
<1> DEFINE m == Len(cached)
           call == calls[1]
           stored == [cached EXCEPT ![m] = ret]
<1>2. /\ ~Idle /\ ret \in Token /\ calls \in Seq(Call) /\ Len(calls) = 1
      /\ call.fn = "PeekAhead" /\ Last(calls) = call
      /\ Front(calls) \in Seq(Call) /\ Len(Front(calls)) = 0
      /\ cachedPos' = cachedPos
  BY Returning DEF PeekAheadReturns
<1>3. /\ Peeking /\ call.slot = m /\ cachedPos < m
      /\ cached \in Seq(Token) /\ cachedPos \in Nat /\ m \in Nat
  BY <1>2, CursorBehindMark, WaitingCalls DEF Peeking
<1>4. call.left + (m - cachedPos) = peek.n + 1 /\ peek.n < Len(Upcoming) /\ peek \in Peek
  BY <1>2, <1>3 DEF PeekHolds, Looking, IInv, Modes
<1>5. call \in Call /\ call.left \in Nat /\ peek.n \in Nat
  <2>1. call \in Call
    <3>1. calls \in Seq(Call) /\ 1 \in 1..Len(calls)
      BY <1>2
    <3>2. QED  BY <3>1, ElementOfSeq
  <2>2. QED  BY <1>4, <2>1 DEF Call, Peek
<1>6. [cached EXCEPT ![Last(calls).slot] = ret] = stored
  BY <1>2, <1>3
<1>7. m \in 1..m
  BY <1>3
<1>8. /\ stored \in Seq(Token) /\ Len(stored) = m /\ stored[m] = ret
  <2> HIDE DEF stored
  <2> DEFINE i == m
  <2>1. i \in 1..Len(cached) /\ stored = [cached EXCEPT ![i] = ret]
    BY <1>7 DEF stored
  <2> HIDE DEF i
  <2>2. /\ [cached EXCEPT ![i] = ret] \in Seq(Token) /\ Len([cached EXCEPT ![i] = ret]) = Len(cached)
        /\ \A k \in 1..Len(cached) : [cached EXCEPT ![i] = ret][k] = IF k = i THEN ret ELSE cached[k]
    BY <1>2, <1>3, <2>1, ExceptSeq
  <2>3. QED  BY <2>1, <2>2 DEF i
<1> HIDE DEF stored
<1>9. CASE call.left > 0
  <2> DEFINE again == [call EXCEPT !.left = @ - 1, !.slot = Len(cached) + 1]
  <2>1. cached' = Append(stored, <<>>) /\ calls' = <<again>> /\ peek' = peek
    BY <1>2, <1>6, <1>9 DEF PeekAheadReturns
  <2>2. again.fn = "PeekAhead" /\ again.left = call.left - 1
    BY <1>2, <1>5 DEF Call
  <2> HIDE DEF again
  <2>3. calls' # <<>> /\ calls'[1] = again
    BY <2>1
  <2>4. Peeking'
    BY <2>2, <2>3 DEF Peeking, Idle
  <2>5. Len(cached') = m + 1
    <3>1. <<>> \in Token
      BY EmptySeq DEF Token
    <3>2. QED  BY <1>8, <2>1, <3>1, AppendProperties
  <2>6. (call.left - 1) + ((m + 1) - cachedPos) = peek.n + 1
    <3> DEFINE a == call.left
               b == peek.n
    <3> HIDE DEF a, b, m
    <3>1. a \in Nat /\ b \in Nat /\ m \in Nat /\ cachedPos \in Nat /\ a + (m - cachedPos) = b + 1
      BY <1>3, <1>4, <1>5 DEF a, b
    <3>2. (a - 1) + ((m + 1) - cachedPos) = b + 1
      BY <3>1
    <3>3. QED  BY <3>2 DEF a, b
  <2>7. Looking'
    BY <1>1, <1>2, <1>4, <2>1, <2>2, <2>3, <2>5, <2>6 DEF Looking
  <2>8. QED  BY <2>4, <2>7 DEF PeekHolds
<1>10. CASE ~(call.left > 0)
  <2>1. cached' = stored /\ calls' = Front(calls) /\ peek' = [peek EXCEPT !.tok = Last(stored)]
    BY <1>2, <1>6, <1>10 DEF PeekAheadReturns
  <2>2. Idle'
    <3>1. \A s \in Seq(Call) : Len(s) = 0 => s = <<>>
      BY EmptySeq
    <3>2. QED  BY <1>2, <2>1, <3>1 DEF Idle
  <2>3. ~Peeking'
    BY <2>2 DEF Peeking
  <2>4. peek'.n = peek.n /\ peek'.tok = ret
    BY <1>4, <1>8, <2>1 DEF Peek, Last
  <2>5. m = cachedPos + (peek.n + 1)
    <3> DEFINE a == call.left
               b == peek.n
    <3> HIDE DEF a, b, m
    <3>1. a \in Nat /\ b \in Nat /\ m \in Nat /\ cachedPos \in Nat /\ a + (m - cachedPos) = b + 1
          /\ ~(a > 0)
      BY <1>3, <1>4, <1>5, <1>10 DEF a, b
    <3>2. m = cachedPos + (b + 1)
      BY <3>1
    <3>3. QED  BY <3>2 DEF b
  <2>6. Upcoming[peek.n + 1] = ret
    <3> DEFINE A == BeforeSlot(cached, cachedPos)
               L == ToLex(lexers)
               P == <<ret>> \o L
               k == peek.n + 1
    <3>1. Upcoming = A \o P
      <4>1. ret # None
        BY <1>2, NoneIsNoToken
      <4>2. QED  BY <1>3, <4>1 DEF Upcoming, Pending
    <3>2. A \in Seq(Token) /\ L \in Seq(Token)
      BY <1>3, TokensTyped DEF Tokens
    <3>3. Len(A) = k - 1 /\ k \in Nat /\ k >= 1
      <4> DEFINE n == m - 1
      <4>1. n \in Nat /\ n <= Len(cached) /\ cachedPos + 1 \in Nat /\ cachedPos + 1 >= 1
            /\ cachedPos + 1 <= n + 1
        BY <1>3
      <4>2. Len(SubSeq(cached, cachedPos + 1, n)) = n + 1 - (cachedPos + 1)
        <5> HIDE DEF n, m
        <5>1. QED  BY <1>3, <4>1, Part
      <4>3. Len(A) = n + 1 - (cachedPos + 1)
        BY <4>2 DEF BeforeSlot
      <4> HIDE DEF A
      <4>4. k \in Nat /\ k >= 1 /\ m = cachedPos + k
        BY <1>5, <2>5
      <4> HIDE DEF m, k
      <4>5. QED  BY <1>3, <4>3, <4>4
    <3> HIDE DEF A, L, k
    <3>4. P \in Seq(Token) /\ P[1] = ret /\ Len(P) >= 1
      <4>1. <<ret>> \in Seq(Token) /\ Len(<<ret>>) = 1 /\ <<ret>>[1] = ret
        BY <1>2
      <4> DEFINE o == <<ret>>
      <4> HIDE DEF o
      <4>2. /\ o \o L \in Seq(Token) /\ Len(o \o L) = Len(o) + Len(L)
            /\ \A i \in 1..Len(o) : (o \o L)[i] = o[i]
        BY <3>2, <4>1, Joined, Zenon DEF o
      <4>3. Len(L) \in Nat /\ 1 \in 1..1
        BY <3>2, LenProperties
      <4>4. QED  BY <4>1, <4>2, <4>3 DEF o
    <3> HIDE DEF P
    <3>5. /\ \A i \in 1..Len(A) + Len(P) : (A \o P)[i] = IF i <= Len(A) THEN A[i] ELSE P[i - Len(A)]
      BY <3>2, <3>4, ConcatProperties
    <3>6. k \in 1..Len(A) + Len(P) /\ ~(k <= Len(A)) /\ k - Len(A) = 1
      <4>1. Len(P) \in Nat
        BY <3>4, LenProperties
      <4>2. QED  BY <3>3, <3>4, <4>1
    <3>7. (A \o P)[k] = ret
      BY <3>4, <3>5, <3>6
    <3>8. QED  BY <3>1, <3>7 DEF k
  <2>7. Told'
    BY <1>1, <1>4, <2>4, <2>6 DEF Told
  <2>8. QED  BY <2>3, <2>7 DEF PeekHolds
<1>11. QED  BY <1>9, <1>10

(* A call of Lex for the parser is no look ahead.                           *)
LEMMA ConsumingLooksNot ==
  /\ calls = <<>> \/ (calls # <<>> /\ calls[1].fn # "PeekAhead") => ~Peeking
  /\ calls' = <<>> => ~Peeking'
  /\ calls' = <<Calling("ConsumeToken")>> => ~Peeking'
<1>1. calls' = <<>> => ~Peeking'
  BY DEF Peeking, Idle
<1>2. ASSUME calls' = <<Calling("ConsumeToken")>> PROVE ~Peeking'
  <2> DEFINE c == Calling("ConsumeToken")
  <2>1. c.fn = "ConsumeToken" /\ calls' = <<c>>
    BY <1>2, CallTyped
  <2> HIDE DEF c
  <2>2. calls'[1] = c
    BY <2>1
  <2>3. QED  BY <2>1, <2>2 DEF Peeking
<1>3. QED  BY <1>1, <1>2 DEF Peeking, Idle

(* A look ahead that was answered is forgotten or its answer stands; none is
   under way when CachingLex is at work.                                     *)
LEMMA CachingLexPeeks == ASSUME IInv, IInv', PeekHolds, CachingLex PROVE PeekHolds'
<1>1. Upcoming' = Upcoming
  BY CachingLexUpcoming
<1>2. /\ Waits /\ ~Idle /\ InCachingLexMode(lexers) /\ peek' = peek
      /\ calls \in Seq(Call) /\ Len(calls) = 1 /\ calls[1].fn = "ConsumeToken"
  BY Waiting DEF CachingLex, Waits, Idle
<1>3. ~Peeking
  BY <1>2 DEF Peeking
<1>4. ~Peeking'
  <2>1. CASE calls' = calls
    BY <1>3, <2>1 DEF Peeking, Idle
  <2>2. CASE calls' = Append(calls, Calling("CachingLex"))
    <3>1. calls'[1] = calls[1]
      BY <1>2, <2>2, CallTyped, TwoCalls
    <3>2. QED  BY <1>2, <3>1 DEF Peeking
  <2>3. QED  BY <2>1, <2>2 DEF CachingLex
<1>5. QED  BY <1>1, <1>2, <1>3, <1>4, PeekKept

(* The rest of CachingLex leaves what a look ahead said.                   *)
LEMMA CachingLexReturnsPeeks == ASSUME IInv, IInv', PeekHolds, CachingLexReturns PROVE PeekHolds'
<1>1. Upcoming' = Upcoming
  BY CachingLexReturnsUpcoming
<1>2. calls' = Front(calls) /\ peek' = peek
  BY DEF CachingLexReturns
<1>3. /\ ~Idle /\ Len(calls) = 2 /\ calls[1].fn = "ConsumeToken"
      /\ Front(calls)[1] = calls[1]
  <2>1. /\ ~Idle /\ Len(calls) = 2 /\ \A i \in 1..Len(calls) - 1 : Front(calls)[i] = calls[i]
    BY Returning DEF CachingLexReturns
  <2>2. 1 \in 1..Len(calls) - 1
    BY <2>1
  <2>3. calls[1].fn = "ConsumeToken"
    BY <2>1 DEF IInv, Modes
  <2>4. QED  BY <2>1, <2>2, <2>3
<1>4. ~Peeking /\ ~Peeking'
  BY <1>2, <1>3 DEF Peeking
<1>5. QED  BY <1>1, <1>2, <1>4, PeekKept

(* Every step keeps what a look ahead says and what one under way will say.  *)
LEMMA NextPeeks ==
  ASSUME ~StreamsWhileCaching, IInv, IInv', PeekHolds, [Next]_vars
  PROVE  PeekHolds'
<1>1. CASE ConsumeToken
  <2>1. /\ Idle /\ calls' = <<Calling("ConsumeToken")>> /\ peek' = peek /\ Upcoming' = Upcoming
    BY <1>1, ConsumeTokenUpcoming DEF ConsumeToken
  <2>2. ~Peeking /\ ~Peeking'
    BY <2>1, ConsumingLooksNot, WaitingCalls
  <2>3. QED  BY <2>1, <2>2, PeekKept
<1>2. CASE \E n \in 0..MaxPeek : LookAhead(n)
  BY <1>2, LookAheadPeeks
<1>3. CASE EnableBacktrackAtThisPos
  <2>1. /\ Idle /\ Idle' /\ peek' = peek /\ Upcoming' = Upcoming
    BY <1>3, EnableBacktrackUpcoming DEF EnableBacktrackAtThisPos, Idle
  <2>2. QED  BY <2>1, PeekKept DEF Peeking
<1>4. CASE CommitBacktrackedTokens
  <2>1. /\ Idle /\ Idle' /\ peek' = peek /\ Upcoming' = Upcoming
    BY <1>4, CommitUpcoming DEF CommitBacktrackedTokens, Idle
  <2>2. QED  BY <2>1, PeekKept DEF Peeking
<1>5. CASE Backtrack
  <2>1. Idle' /\ peek' = None
    BY <1>5 DEF Backtrack, Idle
  <2>2. QED  BY <2>1, PeekForgotten DEF Peeking
<1>6. ASSUME NEW j \in 1..Len(read), AnnotateName(j) PROVE PeekHolds'
  <2>1. /\ Idle /\ Idle' /\ peek' = peek /\ Upcoming' = Upcoming
    BY <1>6, AnnotateNameUpcoming DEF AnnotateName, Idle
  <2>2. QED  BY <2>1, PeekKept DEF Peeking
<1>7. ASSUME NEW j \in 1..Len(read), NEW isNew \in BOOLEAN, AnnotateScopeToken(j, isNew)
      PROVE  PeekHolds'
  <2>1. Idle' /\ peek' = None
    BY <1>7 DEF AnnotateScopeToken, Idle
  <2>2. QED  BY <2>1, PeekForgotten DEF Peeking
<1>8. CASE EnterToken
  <2>1. Idle' /\ peek' = None
    BY <1>8 DEF EnterToken, Idle
  <2>2. QED  BY <2>1, PeekForgotten DEF Peeking
<1>9. ASSUME NEW s \in Streams, EnterTokenStream(s) PROVE PeekHolds'
  <2>1. calls' = <<Calling("ConsumeToken")>> /\ peek' = None
    BY <1>9 DEF EnterTokenStream
  <2>2. QED  BY <2>1, ConsumingLooksNot, PeekForgotten
<1>10. CASE CachingLex
  BY <1>10, CachingLexPeeks
<1>11. CASE Lex
  BY <1>11, LexUpcoming, PeekBelow DEF Lex
<1>12. CASE EnterMacro
  BY <1>12, EnterMacroUpcoming, PeekBelow DEF EnterMacro
<1>13. CASE HandleEndOfTokenLexer
  BY <1>13, HandleEndUpcoming, PeekBelow DEF HandleEndOfTokenLexer
<1>14. CASE CachingLexReturns
  BY <1>14, CachingLexReturnsPeeks
<1>15. CASE ConsumeTokenReturns
  BY <1>15, ConsumeTokenReturnsPeeks
<1>16. CASE PeekAheadReturns
  BY <1>16, PeekAheadReturnsPeeks
<1>17. CASE Finished \/ UNCHANGED vars
  <2>1. UNCHANGED <<lexers, cached, cachedPos, calls, ret, peek>>
    BY <1>17 DEF Finished, vars
  <2>2. Upcoming' = Upcoming
    BY <2>1, LexersMove
  <2>3. QED  BY <2>1, <2>2, PeekBelow
<1>18. QED
  BY <1>1, <1>2, <1>3, <1>4, <1>5, <1>6, <1>7, <1>8, <1>9, <1>10, <1>11, <1>12,
     <1>13, <1>14, <1>15, <1>16, <1>17 DEF Next

(* The next token that is read is the one that LookAhead(0) said it would be,
   the one after it that of LookAhead(1), and so on, however much is expanded,
   cached, annotated or parsed tentatively between the two.                  *)
THEOREM LookAheadTellsNext ==
  ASSUME ~StreamsWhileCaching
  PROVE  Spec => LookAheadIsNext
<1> DEFINE Step == ConsumeTokenReturns /\ peek # None /\ peek.n = 0 => ret = peek.tok
<1>1. Init => PeekHolds
  BY DEF Init, PeekHolds, Peeking, Idle
<1>2. IInv /\ IInv' /\ PeekHolds /\ [Next]_vars => PeekHolds'
  BY NextPeeks
<1>3. IInv /\ IInv' /\ PeekHolds /\ [Next]_vars => [Step]_vars
  BY ConsumeTokenReturnsPeeks
<1>4. QED  BY <1>1, <1>2, <1>3, CacheInvariant, PTL DEF Spec, LookAheadIsNext

-----------------------------------------------------------------------------
(* The text of tokens                                                       *)

(* The text that tokens stand for: that of one after the other.              *)
LEMMA TextOf ==
  /\ \A s \in Seq(Token) : FlattenSeq(s) \in Seq(Base) /\ Len(FlattenSeq(s)) \in Nat
  /\ \A s, t \in Seq(Token) : FlattenSeq(s \o t) = FlattenSeq(s) \o FlattenSeq(t)
  /\ \A s \in Seq(Token), t \in Token : FlattenSeq(Append(s, t)) = FlattenSeq(s) \o t
  /\ \A t \in Token : FlattenSeq(<<t>>) = t /\ t \in Seq(Base)
  /\ FlattenSeq(<<>>) = <<>>
<1>1. ASSUME NEW s \in Seq(Token)
      PROVE  FlattenSeq(s) \in Seq(Base) /\ Len(FlattenSeq(s)) \in Nat
  <2>1. FlattenSeq(s) \in Seq(Base)
    BY FlattenTyped DEF Token
  <2>2. QED  BY <2>1, LenProperties
<1>2. ASSUME NEW s \in Seq(Token), NEW t \in Seq(Token)
      PROVE  FlattenSeq(s \o t) = FlattenSeq(s) \o FlattenSeq(t)
  BY FlattenConcat DEF Token
<1>3. ASSUME NEW s \in Seq(Token), NEW t \in Token
      PROVE  FlattenSeq(Append(s, t)) = FlattenSeq(s) \o t
  BY FlattenAppend DEF Token
<1>4. ASSUME NEW t \in Token PROVE FlattenSeq(<<t>>) = t /\ t \in Seq(Base)
  BY FlattenOne DEF Token
<1>5. FlattenSeq(<<>>) = <<>>
  BY EmptySeq, FlattenOne
<1>6. QED  BY <1>1, <1>2, <1>3, <1>4, <1>5

(* The text of the tokens of c behind the m-th, up to the n-th.              *)
Piece(c, m, n) == FlattenSeq(SubSeq(c, m + 1, n))

(* It is a text, and that of two pieces that meet is put together of theirs.   *)
LEMMA PieceMeet ==
  ASSUME NEW c \in Seq(Token), NEW m \in Nat, NEW k \in Nat, NEW n \in Nat,
         m <= k, k <= n, n <= Len(c)
  PROVE  /\ Piece(c, m, n) = Piece(c, m, k) \o Piece(c, k, n)
         /\ Piece(c, m, n) \in Seq(Base) /\ Piece(c, m, k) \in Seq(Base)
         /\ Piece(c, k, n) \in Seq(Base)
         /\ Len(Piece(c, m, n)) \in Nat /\ Len(Piece(c, m, k)) \in Nat
         /\ Len(Piece(c, k, n)) \in Nat
         /\ Len(Piece(c, m, n)) = Len(Piece(c, m, k)) + Len(Piece(c, k, n))
<1> DEFINE a == SubSeq(c, m + 1, k)
           b == SubSeq(c, k + 1, n)
           d == SubSeq(c, m + 1, n)
<1>1. d = a \o b /\ d \in Seq(Token) /\ a \in Seq(Token) /\ b \in Seq(Token)
  BY PartsMeet
<1>2. Piece(c, m, n) = FlattenSeq(d) /\ Piece(c, m, k) = FlattenSeq(a) /\ Piece(c, k, n) = FlattenSeq(b)
  BY DEF Piece
<1> HIDE DEF a, b, d
<1>3. /\ FlattenSeq(a) \in Seq(Base) /\ FlattenSeq(b) \in Seq(Base) /\ FlattenSeq(d) \in Seq(Base)
      /\ FlattenSeq(d) = FlattenSeq(a) \o FlattenSeq(b)
      /\ Len(FlattenSeq(a)) \in Nat /\ Len(FlattenSeq(b)) \in Nat /\ Len(FlattenSeq(d)) \in Nat
  BY <1>1, TextOf
<1>4. Len(FlattenSeq(a) \o FlattenSeq(b)) = Len(FlattenSeq(a)) + Len(FlattenSeq(b))
  BY <1>3, ConcatProperties
<1>5. QED  BY <1>2, <1>3, <1>4

(* The same of any sequence of tokens.                                      *)
LEMMA PiecesMeet ==
  \A c \in Seq(Token) : \A m, k, n \in Nat :
    m <= k /\ k <= n /\ n <= Len(c) =>
      /\ Piece(c, m, n) = Piece(c, m, k) \o Piece(c, k, n)
      /\ Piece(c, m, n) \in Seq(Base) /\ Piece(c, m, k) \in Seq(Base)
      /\ Piece(c, k, n) \in Seq(Base)
BY PieceMeet

(* The piece of no token is empty, that of one is its text, and all of c is a
   piece.                                                                    *)
LEMMA PieceBounds ==
  ASSUME NEW c \in Seq(Token)
  PROVE  /\ \A m \in Nat : Piece(c, m, m) = <<>>
         /\ Piece(c, 0, Len(c)) = FlattenSeq(c)
         /\ \A m \in Nat : m < Len(c) => Piece(c, m, m + 1) = c[m + 1] /\ c[m + 1] \in Token
<1>1. ASSUME NEW m \in Nat PROVE Piece(c, m, m) = <<>>
  <2>1. m + 1 \in Int /\ m \in Int /\ m < m + 1
    OBVIOUS
  <2>2. SubSeq(c, m + 1, m) = <<>>
    BY <2>1, SubSeqEmpty
  <2>3. QED  BY <2>2, TextOf DEF Piece
<1>2. Piece(c, 0, Len(c)) = FlattenSeq(c)
  <2>1. SubSeq(c, 0 + 1, Len(c)) = c
    BY SubSeqFull
  <2>2. QED  BY <2>1 DEF Piece
<1>3. ASSUME NEW m \in Nat, m < Len(c)
      PROVE  Piece(c, m, m + 1) = c[m + 1] /\ c[m + 1] \in Token
  <2>1. /\ SubSeq(c, m + 1, m + 1) = Append(SubSeq(c, m + 1, m), c[m + 1])
        /\ c[m + 1] \in Token
    BY <1>3, LastOfPart
  <2> DEFINE x == c[m + 1]
  <2>2. m + 1 \in Int /\ m \in Int /\ m < m + 1
    OBVIOUS
  <2>3. SubSeq(c, m + 1, m) = <<>>
    BY <2>2, SubSeqEmpty
  <2>4. Piece(c, m, m + 1) = FlattenSeq(Append(<<>>, x)) /\ x \in Token
    BY <2>1, <2>3 DEF Piece
  <2> HIDE DEF x
  <2>5. Append(<<>>, x) = <<x>>
    OBVIOUS
  <2>6. FlattenSeq(<<x>>) = x
    BY <2>4, TextOf
  <2>7. QED  BY <2>4, <2>5, <2>6 DEF x
<1>4. QED  BY <1>1, <1>2, <1>3

(* Pieces of sequences that agree so far.                                   *)
LEMMA PieceAgree ==
  ASSUME NEW c \in Seq(Token), NEW d \in Seq(Token), NEW n \in Nat,
         n <= Len(c), n <= Len(d), \A i \in 1..n : c[i] = d[i],
         NEW m \in Nat, NEW k \in Nat, k <= n
  PROVE  Piece(c, m, k) = Piece(d, m, k)
<1>1. SubSeq(c, m + 1, k) = SubSeq(d, m + 1, k)
  BY PartsAgree
<1>2. QED  BY <1>1 DEF Piece

(* A piece with one token more.                                             *)
LEMMA PieceStep ==
  ASSUME NEW c \in Seq(Token), NEW m \in Nat, NEW k \in Nat, m <= k, k < Len(c)
  PROVE  /\ Piece(c, m, k + 1) = Piece(c, m, k) \o c[k + 1]
         /\ Len(Piece(c, m, k + 1)) = Len(Piece(c, m, k)) + Len(c[k + 1])
         /\ Piece(c, m, k) \in Seq(Base) /\ c[k + 1] \in Seq(Base)
<1> DEFINE h == k + 1
<1>1. h \in Nat /\ k <= h /\ h <= Len(c)
  BY LenProperties
<1>2. Piece(c, k, h) = c[h]
  BY PieceBounds
<1> HIDE DEF h
<1>3. /\ Piece(c, m, h) = Piece(c, m, k) \o Piece(c, k, h)
      /\ Piece(c, k, h) \in Seq(Base) /\ Piece(c, m, k) \in Seq(Base)
      /\ Len(Piece(c, m, h)) = Len(Piece(c, m, k)) + Len(Piece(c, k, h))
  BY <1>1, PieceMeet
<1>4. QED  BY <1>2, <1>3 DEF h

(* A piece with a text begins with the first of its tokens that have one.    *)
LEMMA PieceHead ==
  ASSUME NEW c \in Seq(Token), NEW m \in Nat, NEW n \in Nat, m <= n, n <= Len(c)
  PROVE  Piece(c, m, n) # <<>> =>
           \E q \in m + 1..n : c[q] # <<>> /\ Head(c[q]) = Head(Piece(c, m, n))
<1>1. Len(c) \in Nat
  BY LenProperties
<1> DEFINE T == {k \in m..n : Piece(c, m, k) = <<>>}
<1>2. SUFFICES ASSUME /\ Piece(c, m, n) # <<>>
                        /\ \A q \in m + 1..n : c[q] # <<>> => Head(c[q]) # Head(Piece(c, m, n))
      PROVE  FALSE
  OBVIOUS
<1>3. m \in T
  BY PieceBounds
<1>4. ASSUME NEW k \in m..n - 1, k \in T PROVE k + 1 \in T
  <2>0. PICK h : h = k + 1
    OBVIOUS
  <2>1. /\ k \in Nat /\ h \in Nat /\ m <= k /\ m <= h /\ k <= h /\ h <= n
        /\ k < Len(c) /\ h <= Len(c) /\ h \in m..n /\ h \in m + 1..n
    BY <1>1, <2>0
  <2>2. Piece(c, m, h) = Piece(c, m, k) \o c[h] /\ c[h] \in Seq(Base)
    BY <2>0, <2>1, PieceStep
  <2>3. Piece(c, m, k) = <<>>
    BY <1>4
  <2>4. Piece(c, m, h) = c[h] /\ c[h] \in Seq(Base)
    BY <2>2, <2>3, ConcatEmptySeq
  <2>5. CASE c[h] = <<>>
    BY <2>0, <2>1, <2>4, <2>5
  <2>6. CASE c[h] # <<>>
    <3> DEFINE p == Piece(c, m, h)
               r == Piece(c, h, n)
    <3>1. Piece(c, m, n) = p \o r /\ p \in Seq(Base) /\ r \in Seq(Base)
      BY <2>1, PieceMeet, SMTT(30)
    <3>2. p # <<>> /\ p = c[h]
      BY <2>4, <2>6
    <3> HIDE DEF p, r
    <3>3. Head(p \o r) = Head(p)
      <4>1. /\ \A i \in 1..Len(p) : (p \o r)[i] = p[i]
            /\ p \o r \in Seq(Base) /\ Len(p \o r) = Len(p) + Len(r)
        BY <3>1, Joined, Zenon
      <4>2. Len(p) \in Nat \ {0} /\ Len(r) \in Nat
        BY <3>1, <3>2, EmptySeq, LenProperties
      <4>3. 1 \in 1..Len(p) /\ Len(p \o r) # 0
        <5> DEFINE a == Len(p)
                   b == Len(r)
        <5>1. a \in Nat \ {0} /\ b \in Nat /\ Len(p \o r) = a + b
          BY <4>1, <4>2
        <5> HIDE DEF a, b
        <5>2. 1 \in 1..a /\ a + b # 0
          BY <5>1
        <5>3. QED  BY <5>1, <5>2 DEF a
      <4>4. (p \o r)[1] = p[1]
        BY <4>1, <4>3
      <4>5. Head(p \o r) = (p \o r)[1] /\ Head(p) = p[1]
        BY <3>1, <4>1, <4>2, <4>3
      <4>6. QED  BY <4>4, <4>5
    <3>4. QED  BY <1>2, <2>1, <2>6, <3>1, <3>2, <3>3
  <2>7. QED  BY <2>5, <2>6
<1> HIDE DEF T
<1>5. m..n \subseteq T
  BY <1>3, <1>4, Reaches
<1>6. n \in T
  BY <1>5
<1>7. QED  BY <1>2, <1>6 DEF T

(* Text before a token and with it.                                         *)
LEMMA PieceAppend ==
  ASSUME NEW r \in Seq(Token), NEW x \in Token
  PROVE  /\ Append(r, x) \in Seq(Token) /\ Len(Append(r, x)) = Len(r) + 1 /\ Len(r) \in Nat
         /\ FlattenSeq(Append(r, x)) = FlattenSeq(r) \o x
         /\ Piece(Append(r, x), 0, Len(r) + 1) = FlattenSeq(r) \o x
         /\ \A n \in 0..Len(r) : Piece(Append(r, x), 0, n) = Piece(r, 0, n)
<1> DEFINE d == Append(r, x)
           m == Len(r)
<1>1. /\ d \in Seq(Token) /\ Len(d) = m + 1 /\ \A i \in 1..m : d[i] = r[i]
      /\ m \in Nat /\ m <= Len(r)
  BY AppendProperties, LenProperties
<1>2. FlattenSeq(d) = FlattenSeq(r) \o x
  BY TextOf
<1> HIDE DEF d
<1>3. Piece(d, 0, Len(d)) = FlattenSeq(d)
  BY <1>1, PieceBounds
<1>4. ASSUME NEW n \in 0..m PROVE Piece(d, 0, n) = Piece(r, 0, n)
  <2>1. n \in Nat /\ n <= m /\ m <= Len(d)
    BY <1>1
  <2> HIDE DEF m
  <2>2. Piece(r, 0, n) = Piece(d, 0, n)
    BY <1>1, <2>1, PieceAgree
  <2>3. QED  BY <2>2
<1>5. QED  BY <1>1, <1>2, <1>3, <1>4 DEF d

(* What the last tokens of a sequence become as one: the text before them, and
   theirs.                                                                   *)
LEMMA CoveringPieces ==
  ASSUME NEW r \in Seq(Token), NEW j \in Nat, j >= 1, j <= Len(r)
  PROVE  \E h \in Seq(Token) :
           /\ Len(r) - j \in Nat /\ Len(h) = Len(r) - j /\ Len(r) - j < Len(r)
           /\ Covering(r, j) = Append(h, Covered(r, j)) /\ Covered(r, j) \in Token
           /\ FlattenSeq(h) = Piece(r, 0, Len(r) - j)
           /\ FlattenSeq(h) \o Covered(r, j) = FlattenSeq(r)
           /\ FlattenSeq(Covering(r, j)) = FlattenSeq(r)
           /\ \A n \in 0..Len(h) : Piece(h, 0, n) = Piece(r, 0, n)
<1> DEFINE l == Len(r)
           m == l - j
           h == SubSeq(r, 1, m)
           t == Covered(r, j)
<1>1. l \in Nat /\ m \in Nat /\ m < l /\ m <= l /\ 0 <= m /\ l <= Len(r)
  BY LenProperties
<1>2. t \in Token
  BY CoveredTyped
<1>3. Covering(r, j) = Append(h, t) /\ t = Piece(r, m, l) /\ h = SubSeq(r, 0 + 1, m)
  BY DEF Covering, Covered, Piece
<1>4. h \in Seq(Token) /\ Len(h) = m /\ \A i \in 1..m : h[i] = r[i]
  <2> HIDE DEF l
  <2>1. \A i \in 1..m : r[i] \in Token
    BY <1>1, ElementOfSeq
  <2> HIDE DEF m
  <2>2. /\ h \in Seq(Token) /\ Len(h) = (IF 1 <= m THEN m - 1 + 1 ELSE 0)
        /\ \A i \in 1..m - 1 + 1 : h[i] = r[1 + i - 1]
    BY <1>1, <2>1, SubSeqProperties
  <2> HIDE DEF h
  <2>3. (IF 1 <= m THEN m - 1 + 1 ELSE 0) = m /\ m - 1 + 1 = m /\ \A i \in 1..m : 1 + i - 1 = i
    BY <1>1
  <2>4. QED  BY <2>2, <2>3
<1>5. FlattenSeq(h) = Piece(r, 0, m)
  BY <1>3 DEF Piece
<1> HIDE DEF h, t, m, l
<1>6. Piece(r, 0, l) = Piece(r, 0, m) \o Piece(r, m, l)
  BY <1>1, PieceMeet, SMTT(30)
<1>7. Piece(r, 0, l) = FlattenSeq(r)
  BY PieceBounds DEF l
<1>8. FlattenSeq(h) \o t = FlattenSeq(r)
  BY <1>3, <1>5, <1>6, <1>7
<1>9. FlattenSeq(Append(h, t)) = FlattenSeq(h) \o t
  BY <1>2, <1>4, TextOf
<1>10. ASSUME NEW n \in 0..m PROVE Piece(h, 0, n) = Piece(r, 0, n)
  <2>1. n \in Nat /\ n <= m /\ m <= Len(h)
    BY <1>1, <1>4
  <2>2. QED  BY <1>1, <1>4, <2>1, PieceAgree
<1>11. QED
  BY <1>1, <1>2, <1>3, <1>4, <1>5, <1>8, <1>9, <1>10 DEF m, l, t

-----------------------------------------------------------------------------
(* What has been read since a mark                                          *)

(* A token of c behind the b-th and up to the pos-th ends where the text a and
   so much of theirs is n long.                                              *)
Ends(c, a, b, pos, n) == \E p \in b..pos : n = Len(a) + Len(Piece(c, b, p))

(* r is what had been read when the mark b was set, the text a, and then the
   tokens of the cache c up to the pos-th, the same text cut into tokens in
   places where the cache has it cut too.                                    *)
Matches(c, a, b, r, pos) ==
  /\ b <= pos
  /\ FlattenSeq(r) = a \o Piece(c, b, pos)
  /\ \A n \in 0..Len(r) :
       Len(Piece(r, 0, n)) >= Len(a) => Ends(c, a, b, pos, Len(Piece(r, 0, n)))

(* At a mark the two are the same.                                          *)
LEMMA MatchSelf ==
  ASSUME NEW c \in Seq(Token), NEW r \in Seq(Token), NEW b \in Nat
  PROVE  Matches(c, FlattenSeq(r), b, r, b)
<1> DEFINE a == FlattenSeq(r)
           l == Len(r)
<1>1. Piece(c, b, b) = <<>> /\ Piece(r, 0, l) = a
  BY PieceBounds
<1>2. a \in Seq(Base) /\ Len(a) \in Nat /\ l \in Nat /\ l <= Len(r) /\ Len(<<>>) = 0
  BY TextOf, LenProperties
<1>3. a = a \o <<>>
  BY <1>2, ConcatEmptySeq
<1> HIDE DEF a, l
<1>4. ASSUME NEW n \in 0..l, Len(Piece(r, 0, n)) >= Len(a)
      PROVE  Ends(c, a, b, b, Len(Piece(r, 0, n)))
  <2>1. n \in Nat /\ 0 <= n /\ n <= l
    BY <1>2
  <2>2. /\ Len(Piece(r, 0, l)) = Len(Piece(r, 0, n)) + Len(Piece(r, n, l))
        /\ Len(Piece(r, 0, n)) \in Nat /\ Len(Piece(r, n, l)) \in Nat
    BY <1>2, <2>1, PieceMeet
  <2> DEFINE x == Len(Piece(r, 0, n))
             y == Len(Piece(r, n, l))
             z == Len(a)
  <2>3. z = x + y /\ x \in Nat /\ y \in Nat /\ x >= z
    BY <1>1, <1>4, <2>2
  <2> HIDE DEF x, y, z
  <2>4. x = z + 0
    BY <2>3
  <2>5. b \in b..b
    OBVIOUS
  <2>6. x = z + Len(Piece(c, b, b))
    BY <1>1, <1>2, <2>4
  <2>7. QED  BY <2>5, <2>6 DEF Ends, x, z
<1>5. QED  BY <1>1, <1>3, <1>4 DEF Matches, a, l

(* A cache that agrees up to there matches too.                             *)
LEMMA MatchStable ==
  ASSUME NEW c \in Seq(Token), NEW d \in Seq(Token), NEW a, NEW b \in Nat, NEW r, NEW pos \in Nat,
         pos <= Len(c), pos <= Len(d), \A i \in 1..pos : c[i] = d[i]
  PROVE  Matches(c, a, b, r, pos) => Matches(d, a, b, r, pos)
<1>1. ASSUME NEW p \in Nat, p <= pos PROVE Piece(c, b, p) = Piece(d, b, p)
  BY <1>1, PieceAgree
<1> SUFFICES ASSUME Matches(c, a, b, r, pos) PROVE Matches(d, a, b, r, pos)
  OBVIOUS
<1>2. b <= pos /\ FlattenSeq(r) = a \o Piece(d, b, pos)
  <2>1. pos <= pos
    OBVIOUS
  <2>2. Piece(c, b, pos) = Piece(d, b, pos)
    BY <1>1, <2>1
  <2>3. b <= pos /\ FlattenSeq(r) = a \o Piece(c, b, pos)
    BY DEF Matches
  <2>4. QED  BY <2>2, <2>3
<1>3. ASSUME NEW n, Ends(c, a, b, pos, n) PROVE Ends(d, a, b, pos, n)
  <2>1. PICK p \in b..pos : n = Len(a) + Len(Piece(c, b, p))
    BY <1>3 DEF Ends
  <2>2. p \in Nat /\ p <= pos
    OBVIOUS
  <2>3. Piece(c, b, p) = Piece(d, b, p)
    BY <1>1, <2>2
  <2>4. QED  BY <2>1, <2>3 DEF Ends
<1>4. QED  BY <1>2, <1>3 DEF Matches

(* One token more is read, which ends the text where the cache does.         *)
LEMMA MatchAppend ==
  ASSUME NEW c \in Seq(Token), NEW a \in Seq(Base), NEW b \in Nat, NEW r \in Seq(Token),
         NEW x \in Token, NEW pos \in Nat, b <= pos, pos <= Len(c),
         FlattenSeq(r) \o x = a \o Piece(c, b, pos),
         \A n \in 0..Len(r) :
           Len(Piece(r, 0, n)) >= Len(a) => Ends(c, a, b, pos, Len(Piece(r, 0, n)))
  PROVE  Matches(c, a, b, Append(r, x), pos)
<1> DEFINE d == Append(r, x)
           l == Len(r)
<1>1. /\ Len(d) = l + 1 /\ l \in Nat /\ FlattenSeq(d) = FlattenSeq(r) \o x
      /\ Piece(d, 0, l + 1) = FlattenSeq(r) \o x
      /\ \A n \in 0..l : Piece(d, 0, n) = Piece(r, 0, n)
  BY PieceAppend
<1> HIDE DEF d
<1>2. Piece(c, b, pos) \in Seq(Base)
  BY PieceMeet
<1>3. Len(a \o Piece(c, b, pos)) = Len(a) + Len(Piece(c, b, pos))
  BY <1>2, ConcatProperties
<1>4. Ends(c, a, b, pos, Len(Piece(d, 0, l + 1)))
  <2>1. Len(Piece(d, 0, l + 1)) = Len(a) + Len(Piece(c, b, pos)) /\ pos \in b..pos
    BY <1>1, <1>3
  <2>2. QED  BY <2>1 DEF Ends
<1>5. ASSUME NEW n \in 0..Len(d), Len(Piece(d, 0, n)) >= Len(a)
      PROVE  Ends(c, a, b, pos, Len(Piece(d, 0, n)))
  <2>1. n \in 0..l \/ n = l + 1
    BY <1>1
  <2>2. CASE n = l + 1
    BY <1>4, <2>2
  <2>3. CASE n \in 0..l
    BY <1>1, <1>5, <2>3
  <2>4. QED  BY <2>1, <2>2, <2>3
<1>6. QED  BY <1>1, <1>5 DEF Matches, d

(* A text that is cut in two in two ways: in the same place, if the ends are as
   long; else the shorter end begins within the longer one.                  *)
LEMMA SameCut ==
  ASSUME NEW T, NEW x \in Seq(T), NEW t \in Seq(T), NEW y \in Seq(T), NEW w \in Seq(T),
         x \o t = y \o w
  PROVE  /\ Len(x) + Len(t) = Len(y) + Len(w)
         /\ Len(x) \in Nat /\ Len(t) \in Nat /\ Len(y) \in Nat /\ Len(w) \in Nat
         /\ Len(t) = Len(w) => x = y /\ t = w
         /\ Len(w) < Len(t) /\ Len(w) # 0 => \E d \in 2..Len(t) : t[d] = w[1]
<1>1. /\ Len(x \o t) = Len(x) + Len(t) /\ After(x \o t, Len(x)) = t
      /\ SubSeq(x \o t, 1, Len(x)) = x
  BY Joined, Zenon
<1>2. /\ Len(y \o w) = Len(y) + Len(w) /\ After(y \o w, Len(y)) = w
      /\ SubSeq(y \o w, 1, Len(y)) = y
  BY Joined, Zenon
<1>3. \A i \in 1..Len(x) + Len(t) : (x \o t)[i] = IF i <= Len(x) THEN x[i] ELSE t[i - Len(x)]
  BY ConcatProperties
<1>4. \A i \in 1..Len(y) + Len(w) : (y \o w)[i] = IF i <= Len(y) THEN y[i] ELSE w[i - Len(y)]
  BY ConcatProperties
<1>5. Len(x) \in Nat /\ Len(t) \in Nat /\ Len(y) \in Nat /\ Len(w) \in Nat
  BY LenProperties
<1> DEFINE a == Len(x)
           b == Len(t)
           c == Len(y)
           e == Len(w)
           u == x \o t
           v == y \o w
<1>6. a + b = c + e /\ u = v
  BY <1>1, <1>2
<1>7. ASSUME b = e PROVE x = y /\ t = w
  <2>1. a = c
    <3> HIDE DEF a, b, c, e
    <3>1. a \in Nat /\ b \in Nat /\ c \in Nat /\ e \in Nat
      BY <1>5 DEF a, b, c, e
    <3>2. QED  BY <1>6, <1>7, <3>1
  <2>2. QED  BY <1>1, <1>2, <2>1
<1>8. ASSUME e < b, e # 0 PROVE \E d \in 2..b : t[d] = w[1]
  <2>1. /\ \A i \in 1..a + b : u[i] = IF i <= a THEN x[i] ELSE t[i - a]
        /\ \A i \in 1..c + e : v[i] = IF i <= c THEN y[i] ELSE w[i - c]
        /\ a \in Nat /\ b \in Nat /\ c \in Nat /\ e \in Nat
    BY <1>3, <1>4, <1>5
  <2> HIDE DEF a, b, c, e, u, v
  <2>2. PICK i : i = c + 1
    OBVIOUS
  <2>3. i \in 1..c + e /\ i \in 1..a + b /\ ~(i <= c) /\ ~(i <= a) /\ i - c = 1 /\ i - a \in 2..b
    BY <1>6, <1>8, <2>1, <2>2
  <2>4. u[i] = t[i - a] /\ v[i] = w[1]
    BY <2>1, <2>3
  <2>5. QED  BY <1>6, <2>3, <2>4
<1>9. QED  BY <1>5, <1>6, <1>7, <1>8

(* The same of any texts.                                                   *)
Cut(x, t, y, w) ==
  /\ Len(x) + Len(t) = Len(y) + Len(w)
  /\ Len(x) \in Nat /\ Len(t) \in Nat /\ Len(y) \in Nat /\ Len(w) \in Nat
  /\ Len(t) = Len(w) => x = y /\ t = w
  /\ Len(w) < Len(t) /\ Len(w) # 0 => \E d \in 2..Len(t) : t[d] = w[1]

(* How the end of a text lies in it when it is cut in two ways.            *)
LEMMA TextsCut ==
  \A x, t, y, w \in Seq(Base) : x \o t = y \o w => Cut(x, t, y, w)
BY SameCut DEF Cut

(* A text begins with what its first part begins with.                      *)
LEMMA HeadOfConcat ==
  ASSUME NEW T, NEW p \in Seq(T), NEW r \in Seq(T)
  PROVE  p # <<>> => /\ Head(p \o r) = Head(p) /\ Head(p) = p[1] /\ Head(p \o r) = (p \o r)[1]
                     /\ Len(p \o r) # 0 /\ Len(p) # 0
<1> SUFFICES ASSUME p # <<>>
             PROVE  /\ Head(p \o r) = Head(p) /\ Head(p) = p[1] /\ Head(p \o r) = (p \o r)[1]
                    /\ Len(p \o r) # 0 /\ Len(p) # 0
  OBVIOUS
<1>1. /\ \A i \in 1..Len(p) : (p \o r)[i] = p[i]
      /\ p \o r \in Seq(T) /\ Len(p \o r) = Len(p) + Len(r)
  BY Joined, Zenon
<1> DEFINE a == Len(p)
           b == Len(r)
<1>2. a \in Nat \ {0} /\ b \in Nat
  BY EmptySeq, LenProperties
<1>3. /\ \A i \in 1..a : (p \o r)[i] = p[i]
      /\ Len(p \o r) = a + b
  BY <1>1
<1> HIDE DEF a, b
<1>4. 1 \in 1..a /\ a + b # 0 /\ a # 0
  BY <1>2
<1>5. (p \o r)[1] = p[1]
  BY <1>3, <1>4
<1>6. Head(p \o r) = (p \o r)[1] /\ Head(p) = p[1]
  BY <1>1, <1>4
<1>7. QED  BY <1>3, <1>4, <1>5, <1>6 DEF a

(* Texts are put end to end.                                                *)
LEMMA TextsJoin ==
  /\ \A a, b \in Seq(Base) : a \o b \in Seq(Base)
  /\ \A a \in Seq(Base) : a \o <<>> = a /\ <<>> \o a = a /\ Len(a) \in Nat
  /\ \A a, b, c \in Seq(Base) : (a \o b) \o c = a \o (b \o c)
  /\ \A a, b \in Seq(Base) : Len(a \o b) = Len(a) + Len(b)
  /\ \A a, b, c \in Seq(Base) : a \o c = b \o c => a = b
<1>1. \A a, b \in Seq(Base) : Len(a \o b) = Len(a) + Len(b)
  BY ConcatProperties
<1>2. ASSUME NEW a \in Seq(Base), NEW b \in Seq(Base), NEW c \in Seq(Base)
      PROVE  a \o c = b \o c => a = b
  <2>1. Len(c) = Len(c)
    OBVIOUS
  <2>2. QED  BY <2>1, SameCut
<1>3. \A a \in Seq(Base) : Len(a) \in Nat
  BY LenProperties
<1>4. QED  BY <1>1, <1>2, <1>3, Concatenates

(* That how texts are put together does not matter, alone.                   *)
LEMMA TextsAssociate ==
  \A a, b, c \in Seq(Base) : (a \o b) \o c = a \o (b \o c)
BY TextsJoin

(* What ends before a place in the cache ends before a later one.            *)
LEMMA EndsLater ==
  ASSUME NEW c, NEW a, NEW b \in Nat, NEW pos \in Nat, NEW q \in Nat, pos <= q, NEW n
  PROVE  Ends(c, a, b, pos, n) => Ends(c, a, b, q, n)
<1>1. \A p \in b..pos : p \in b..q
  OBVIOUS
<1>2. QED  BY <1>1 DEF Ends

(* A token that is read from the cache.                                     *)
LEMMA MatchExtend ==
  ASSUME NEW c \in Seq(Token), NEW a \in Seq(Base), NEW b \in Nat, NEW r \in Seq(Token),
         NEW pos \in Nat, pos < Len(c)
  PROVE  Matches(c, a, b, r, pos) => Matches(c, a, b, Append(r, c[pos + 1]), pos + 1)
<1> DEFINE q == pos + 1
           x == c[q]
<1>1. q \in Nat /\ pos <= q /\ q <= Len(c)
  BY LenProperties
<1>2. x \in Token
  BY <1>1, ElementOfSeq
<1>3. b <= pos => b <= q
  BY <1>1
<1>4. ASSUME b <= pos
      PROVE  Piece(c, b, q) = Piece(c, b, pos) \o x /\ Piece(c, b, pos) \in Seq(Base) /\ x \in Seq(Base)
  BY <1>4, PieceStep
<1> HIDE DEF q, x
<1>5. SUFFICES ASSUME Matches(c, a, b, r, pos) PROVE Matches(c, a, b, Append(r, x), q)
  BY DEF q, x
<1>6. /\ b <= pos /\ FlattenSeq(r) = a \o Piece(c, b, pos)
      /\ \A n \in 0..Len(r) :
           Len(Piece(r, 0, n)) >= Len(a) => Ends(c, a, b, pos, Len(Piece(r, 0, n)))
  BY <1>5 DEF Matches
<1>7. FlattenSeq(r) \o x = a \o Piece(c, b, q)
  <2> DEFINE p == Piece(c, b, pos)
  <2>1. /\ FlattenSeq(r) = a \o p /\ Piece(c, b, q) = p \o x
        /\ p \in Seq(Base) /\ x \in Seq(Base)
    BY <1>4, <1>6
  <2> HIDE DEF p
  <2>2. (a \o p) \o x = a \o (p \o x)
    BY <2>1, TextsAssociate, ZenonT(60)
  <2>3. QED  BY <2>1, <2>2, Zenon
<1>8. \A n \in 0..Len(r) :
        Len(Piece(r, 0, n)) >= Len(a) => Ends(c, a, b, q, Len(Piece(r, 0, n)))
  BY <1>1, <1>6, EndsLater
<1>9. b <= q
  BY <1>3, <1>6
<1>10. QED  BY <1>1, <1>2, <1>7, <1>8, <1>9, MatchAppend

(* The text of some tokens is not longer than that of all.                  *)
LEMMA PieceShort ==
  ASSUME NEW r \in Seq(Token), NEW n \in 0..Len(r)
  PROVE  /\ Len(Piece(r, 0, n)) <= Len(FlattenSeq(r))
         /\ Len(Piece(r, 0, n)) \in Nat /\ Len(FlattenSeq(r)) \in Nat
<1> DEFINE l == Len(r)
<1>1. l \in Nat /\ n \in Nat /\ 0 <= n /\ n <= l /\ l <= Len(r)
  BY LenProperties
<1>2. Piece(r, 0, l) = FlattenSeq(r)
  BY PieceBounds
<1> HIDE DEF l
<1>3. /\ Len(Piece(r, 0, l)) = Len(Piece(r, 0, n)) + Len(Piece(r, n, l))
      /\ Len(Piece(r, 0, n)) \in Nat /\ Len(Piece(r, n, l)) \in Nat
  BY <1>1, PieceMeet
<1> DEFINE x == Len(Piece(r, 0, n))
           y == Len(Piece(r, n, l))
           z == Len(FlattenSeq(r))
<1>4. z = x + y /\ x \in Nat /\ y \in Nat
  BY <1>2, <1>3
<1> HIDE DEF x, y, z
<1>5. x <= z /\ z \in Nat
  BY <1>4
<1>6. QED  BY <1>4, <1>5 DEF x, z

(* The last token read is taken back.                                       *)
LEMMA MatchRevert ==
  ASSUME NEW c \in Seq(Token), NEW a \in Seq(Base), NEW b \in Nat, NEW r \in Seq(Token),
         NEW pos \in Nat, b <= pos, pos < Len(c), r # <<>>, Last(r) = c[pos + 1],
         Last(r) # <<>>
  PROVE  Matches(c, a, b, r, pos + 1) => Matches(c, a, b, Front(r), pos)
<1> DEFINE q == pos + 1
           x == Last(r)
           f == Front(r)
           P == Piece(c, b, pos)
<1>1. q \in Nat /\ pos <= q /\ q <= Len(c)
  BY LenProperties
<1>2. x \in Token /\ f \in Seq(Token) /\ r = Append(f, x) /\ x = c[q] /\ x # <<>>
  BY FrontAndLast
<1>3. /\ Piece(c, b, q) = P \o x /\ P \in Seq(Base) /\ x \in Seq(Base)
      /\ Len(Piece(c, b, q)) = Len(P) + Len(x)
  BY PieceStep
<1> HIDE DEF x, f, P, q
<1>4. SUFFICES ASSUME Matches(c, a, b, r, q) PROVE Matches(c, a, b, f, pos)
  BY DEF q, f
<1>5. /\ FlattenSeq(r) = a \o Piece(c, b, q)
      /\ \A n \in 0..Len(r) :
           Len(Piece(r, 0, n)) >= Len(a) => Ends(c, a, b, q, Len(Piece(r, 0, n)))
  BY <1>4 DEF Matches
<1>6. /\ FlattenSeq(r) = FlattenSeq(f) \o x /\ Len(r) = Len(f) + 1 /\ Len(f) \in Nat
      /\ \A n \in 0..Len(f) : Piece(r, 0, n) = Piece(f, 0, n)
  BY <1>2, PieceAppend
<1>7. FlattenSeq(f) = a \o P
  <2>1. FlattenSeq(f) \in Seq(Base) /\ a \o P \in Seq(Base)
    BY <1>2, <1>3, TextOf, TextsJoin
  <2>2. (a \o P) \o x = a \o (P \o x)
    BY <1>3, TextsAssociate, ZenonT(60)
  <2>3. FlattenSeq(f) \o x = (a \o P) \o x
    BY <1>3, <1>5, <1>6, <2>2, Zenon
  <2>4. QED  BY <1>3, <2>1, <2>3, TextsJoin, Zenon
<1>8. Len(FlattenSeq(f)) = Len(a) + Len(P) /\ Len(a) \in Nat /\ Len(P) \in Nat
  <2>1. Len(a \o P) = Len(a) + Len(P)
    BY <1>3, ConcatProperties
  <2>2. QED  BY <1>3, <1>7, <2>1, LenProperties
<1>9. Len(x) \in Nat \ {0}
  BY <1>2, <1>3, EmptySeq
<1>10. ASSUME NEW n \in 0..Len(f), Len(Piece(f, 0, n)) >= Len(a)
       PROVE  Ends(c, a, b, pos, Len(Piece(f, 0, n)))
  <2>1. n \in 0..Len(r) /\ Piece(r, 0, n) = Piece(f, 0, n)
    BY <1>6
  <2>2. Ends(c, a, b, q, Len(Piece(f, 0, n)))
    BY <1>5, <1>10, <2>1
  <2>3. PICK p \in b..q : Len(Piece(f, 0, n)) = Len(a) + Len(Piece(c, b, p))
    BY <2>2 DEF Ends
  <2>4. p # q
    <3>1. SUFFICES ASSUME p = q PROVE FALSE
      OBVIOUS
    <3>2. Len(Piece(f, 0, n)) = Len(a) + (Len(P) + Len(x))
      BY <1>3, <2>3, <3>1
    <3>3. Len(Piece(f, 0, n)) <= Len(FlattenSeq(f))
      BY <1>2, PieceShort
    <3>4. ~(Len(a) + (Len(P) + Len(x)) <= Len(a) + Len(P))
      BY <1>8, <1>9
    <3>5. QED  BY <1>8, <3>2, <3>3, <3>4
  <2>5. p \in b..pos
    BY <2>4 DEF q
  <2>6. QED  BY <2>3, <2>5 DEF Ends
<1>11. QED  BY <1>7, <1>10 DEF Matches, P

(* The parser's own token is no text.                                       *)
LEMMA MatchInvented ==
  ASSUME NEW c \in Seq(Token), NEW a \in Seq(Base), NEW b \in Nat, NEW r \in Seq(Token),
         NEW pos \in Nat, pos <= Len(c)
  PROVE  Matches(c, a, b, r, pos) => Matches(c, a, b, Append(r, <<>>), pos)
<1> SUFFICES ASSUME Matches(c, a, b, r, pos) PROVE Matches(c, a, b, Append(r, <<>>), pos)
  OBVIOUS
<1> DEFINE x == <<>>
<1>1. /\ b <= pos /\ FlattenSeq(r) = a \o Piece(c, b, pos)
      /\ \A n \in 0..Len(r) :
           Len(Piece(r, 0, n)) >= Len(a) => Ends(c, a, b, pos, Len(Piece(r, 0, n)))
  BY DEF Matches
<1>2. x \in Token
  BY EmptySeq DEF Token
<1>3. FlattenSeq(r) \o x = FlattenSeq(r)
  <2>1. FlattenSeq(r) \in Seq(Base)
    BY TextOf
  <2>2. QED  BY <2>1, ConcatEmptySeq
<1> HIDE DEF x
<1>4. FlattenSeq(r) \o x = a \o Piece(c, b, pos)
  BY <1>1, <1>3
<1>5. Matches(c, a, b, Append(r, x), pos)
  BY <1>1, <1>2, <1>4, MatchAppend
<1>6. QED  BY <1>5 DEF x

(* Tokens that become one have the text they had.                           *)
LEMMA MatchCoarser ==
  ASSUME NEW c \in Seq(Token), NEW a \in Seq(Base), NEW b \in Nat, NEW r \in Seq(Token),
         NEW pos \in Nat, pos <= Len(c), NEW j \in Nat, j >= 1, j <= Len(r)
  PROVE  Matches(c, a, b, r, pos) => Matches(c, a, b, Covering(r, j), pos)
<1> DEFINE x == Covered(r, j)
           l == Len(r)
<1>0. l \in Nat
  BY LenProperties
<1>1. PICK h \in Seq(Token) :
        /\ Len(h) = l - j /\ l - j \in Nat /\ Covering(r, j) = Append(h, x) /\ x \in Token
        /\ FlattenSeq(h) \o x = FlattenSeq(r)
        /\ \A n \in 0..Len(h) : Piece(h, 0, n) = Piece(r, 0, n)
  BY CoveringPieces
<1> HIDE DEF x, l
<1> SUFFICES ASSUME Matches(c, a, b, r, pos) PROVE Matches(c, a, b, Append(h, x), pos)
  BY <1>1
<1>2. /\ b <= pos /\ FlattenSeq(r) = a \o Piece(c, b, pos)
      /\ \A n \in 0..l :
           Len(Piece(r, 0, n)) >= Len(a) => Ends(c, a, b, pos, Len(Piece(r, 0, n)))
  BY DEF Matches, l
<1>3. \A n \in 0..Len(h) : n \in 0..l
  BY <1>0, <1>1
<1>4. \A n \in 0..Len(h) :
        Len(Piece(h, 0, n)) >= Len(a) => Ends(c, a, b, pos, Len(Piece(h, 0, n)))
  BY <1>1, <1>2, <1>3
<1>5. FlattenSeq(h) \o x = a \o Piece(c, b, pos)
  BY <1>1, <1>2
<1>6. QED  BY <1>1, <1>2, <1>4, <1>5, MatchAppend

(* An annotation t, in which no token of the text is twice, replaces the tokens
   of c behind the k-th: of those up to the pos-th the next one is the last that
   begins as it does.                                                        *)
CoversFrom(c, k, pos, t) ==
  /\ IsInjective(t) /\ t # <<>> /\ c[k + 1] # <<>> /\ Head(c[k + 1]) = Head(t)
  /\ \A q \in 1..pos : c[q] # <<>> /\ Head(c[q]) = Head(t) => q <= k + 1

(* The tokens that an annotation replaces in the cache have the text of those
   that it covers: if they had more of it, another token would begin where it
   does, and if they had less its first one would be in it twice.            *)
LEMMA AnnotatedText ==
  ASSUME NEW c \in Seq(Token), NEW a \in Seq(Base), NEW b \in Nat, NEW r \in Seq(Token),
         NEW pos \in Nat, pos <= Len(c), NEW j \in Nat, j >= 1, j <= Len(r),
         NEW k \in Nat, b <= k, k < pos, CoversFrom(c, k, pos, Covered(r, j))
  PROVE  Matches(c, a, b, r, pos) => Piece(c, k, pos) = Covered(r, j)
<1> DEFINE t == Covered(r, j)
           W == Piece(c, k, pos)
           Y == a \o Piece(c, b, k)
           X == Piece(r, 0, Len(r) - j)
<1>1. PICK h \in Seq(Token) :
        /\ Len(r) - j \in Nat /\ Len(r) - j < Len(r) /\ t \in Token
        /\ FlattenSeq(h) = X /\ FlattenSeq(h) \o t = FlattenSeq(r)
  BY CoveringPieces
<1>2. /\ IsInjective(t) /\ t # <<>> /\ c[k + 1] # <<>> /\ Head(c[k + 1]) = Head(t)
      /\ \A q \in 1..pos : c[q] # <<>> /\ Head(c[q]) = Head(t) => q <= k + 1
  BY DEF CoversFrom
<1>3. X \in Seq(Base) /\ t \in Seq(Base)
  BY <1>1, TextOf
<1>4. Len(r) \in Nat /\ Len(c) \in Nat
  BY LenProperties
<1> DEFINE m == Len(r) - j
<1>5. m \in 0..Len(r) /\ X = Piece(r, 0, m)
  BY <1>1, <1>4
<1> HIDE DEF t, X, m
<1>6. /\ Piece(c, b, pos) = Piece(c, b, k) \o W /\ W \in Seq(Base) /\ Piece(c, b, k) \in Seq(Base)
      /\ Len(Piece(c, b, k)) \in Nat
  <2>1. k <= pos
    OBVIOUS
  <2>2. QED  BY <2>1, PieceMeet, SMTT(30)
<1>7. Y \in Seq(Base) /\ Len(Y) = Len(a) + Len(Piece(c, b, k)) /\ Len(a) \in Nat
  BY <1>6, TextsJoin
<1>8. W # <<>> /\ Head(W) = Head(t) /\ Head(W) = W[1] /\ Len(W) # 0
  <2> DEFINE i == k + 1
             x == c[i]
             R == Piece(c, i, pos)
  <2>1. i \in Nat /\ k <= i /\ i <= pos /\ k < Len(c)
    BY <1>4
  <2>2. Piece(c, k, i) = x /\ x \in Token
    BY <2>1, PieceBounds
  <2>3. x # <<>> /\ Head(x) = Head(t)
    BY <1>2
  <2> HIDE DEF i
  <2>4. W = Piece(c, k, i) \o R /\ R \in Seq(Base)
    BY <2>1, PiecesMeet, ZenonT(60)
  <2> HIDE DEF x, R, W
  <2>5. x \in Seq(Base)
    BY <2>2, TextOf
  <2>6. Head(x \o R) = Head(x) /\ Head(x \o R) = (x \o R)[1] /\ Len(x \o R) # 0
    BY <2>3, <2>4, <2>5, HeadOfConcat
  <2>7. W = x \o R
    BY <2>2, <2>4
  <2>8. QED  BY <2>3, <2>6, <2>7
<1> HIDE DEF W, Y
<1>9. SUFFICES ASSUME Matches(c, a, b, r, pos) PROVE W = t
  BY DEF W, t
<1>10. /\ FlattenSeq(r) = a \o Piece(c, b, pos)
       /\ \A n \in 0..Len(r) :
            Len(Piece(r, 0, n)) >= Len(a) => Ends(c, a, b, pos, Len(Piece(r, 0, n)))
  BY <1>9 DEF Matches
<1>11. X \o t = Y \o W
  <2>1. (a \o Piece(c, b, k)) \o W = a \o (Piece(c, b, k) \o W)
    BY <1>6, TextsAssociate, ZenonT(60)
  <2>2. Y \o W = a \o (Piece(c, b, k) \o W)
    BY <2>1 DEF Y
  <2>3. X \o t = FlattenSeq(r)
    BY <1>1
  <2>4. QED  BY <1>6, <1>10, <2>2, <2>3, Zenon
<1>12. /\ Len(X) + Len(t) = Len(Y) + Len(W)
       /\ Len(X) \in Nat /\ Len(t) \in Nat /\ Len(Y) \in Nat /\ Len(W) \in Nat
       /\ Len(t) = Len(W) => t = W
       /\ Len(W) < Len(t) => \E d \in 2..Len(t) : t[d] = W[1]
  <2>1. Cut(X, t, Y, W)
    BY <1>3, <1>6, <1>7, <1>11, TextsCut, Zenon
  <2>2. QED  BY <1>8, <2>1 DEF Cut
<1>13. CASE Len(t) = Len(W)
  BY <1>12, <1>13
<1>14. CASE Len(W) < Len(t)
  <2>1. PICK d \in 2..Len(t) : t[d] = W[1]
    BY <1>12, <1>14
  <2>2. Head(t) = t[1] /\ DOMAIN t = 1..Len(t)
    BY <1>2, <1>3
  <2>3. d \in 1..Len(t) /\ 1 \in 1..Len(t) /\ d # 1
    BY <1>12
  <2>4. t[d] = t[1]
    BY <1>8, <2>1, <2>2
  <2>5. QED  BY <1>2, <2>2, <2>3, <2>4 DEF IsInjective
<1>15. CASE Len(W) > Len(t)
  <2>1. Len(X) > Len(Y)
    <3> DEFINE x == Len(X)
               y == Len(Y)
               u == Len(t)
               w == Len(W)
    <3>1. x + u = y + w /\ x \in Nat /\ u \in Nat /\ y \in Nat /\ w \in Nat /\ w > u
      BY <1>12, <1>15
    <3> HIDE DEF x, y, u, w
    <3>2. x > y
      BY <3>1
    <3>3. QED  BY <3>2 DEF x, y
  <2>2. Len(X) >= Len(a)
    <3> DEFINE x == Len(X)
               y == Len(a)
               z == Len(Piece(c, b, k))
    <3>1. x > y + z /\ x \in Nat /\ y \in Nat /\ z \in Nat
      BY <1>6, <1>7, <1>12, <2>1
    <3> HIDE DEF x, y, z
    <3>2. x >= y
      BY <3>1
    <3>3. QED  BY <3>2 DEF x, y
  <2>3. Ends(c, a, b, pos, Len(X))
    BY <1>5, <1>10, <2>2
  <2>4. PICK p \in b..pos : Len(X) = Len(a) + Len(Piece(c, b, p))
    BY <2>3 DEF Ends
  <2>5. p \in Nat /\ b <= p /\ p <= pos /\ p <= Len(c) /\ k <= Len(c)
    BY <1>4
  <2>6. p > k
    <3>1. SUFFICES ASSUME p <= k PROVE FALSE
      BY <2>5
    <3>2. /\ Len(Piece(c, b, k)) = Len(Piece(c, b, p)) + Len(Piece(c, p, k))
          /\ Len(Piece(c, b, p)) \in Nat /\ Len(Piece(c, p, k)) \in Nat
      BY <2>5, <3>1, PieceMeet
    <3> DEFINE x == Len(X)
               u == Len(a)
               v == Len(Piece(c, b, p))
               w == Len(Piece(c, p, k))
    <3>3. x = u + v /\ x > u + (v + w) /\ u \in Nat /\ v \in Nat /\ w \in Nat
      BY <1>7, <2>1, <2>4, <3>2
    <3> HIDE DEF x, u, v, w
    <3>4. QED  BY <3>3
  <2> DEFINE V == Piece(c, b, p)
             R == Piece(c, p, pos)
  <2>7. Piece(c, b, pos) = V \o R /\ V \in Seq(Base) /\ R \in Seq(Base)
    BY <2>5, PiecesMeet, ZenonT(60)
  <2>8. Len(X) = Len(a) + Len(V)
    BY <2>4
  <2> HIDE DEF V, R
  <2>9. a \o V \in Seq(Base) /\ Len(a \o V) = Len(X)
    BY <2>7, <2>8, TextsJoin
  <2>10. X \o t = (a \o V) \o R
    <3>1. (a \o V) \o R = a \o (V \o R)
      BY <2>7, TextsJoin, ZenonT(60)
    <3>2. X \o t = FlattenSeq(r)
      BY <1>1
    <3>3. QED  BY <1>10, <2>7, <3>1, <3>2, Zenon
  <2> DEFINE U == a \o V
  <2>11. X \o t = U \o R /\ U \in Seq(Base) /\ Len(U) = Len(X)
    BY <2>9, <2>10
  <2> HIDE DEF U
  <2>12. R = t
    <3>1. Len(X) + Len(t) = Len(U) + Len(R) /\ (Len(t) = Len(R) => t = R)
          /\ Len(X) \in Nat /\ Len(t) \in Nat /\ Len(R) \in Nat
      <4>1. Cut(X, t, U, R)
        BY <1>3, <2>7, <2>11, TextsCut, Zenon
      <4>2. QED  BY <4>1 DEF Cut
    <3> DEFINE x == Len(X)
               u == Len(t)
               w == Len(R)
    <3>2. x + u = x + w /\ x \in Nat /\ u \in Nat /\ w \in Nat
      BY <2>11, <3>1
    <3> HIDE DEF x, u, w
    <3>3. u = w
      BY <3>2
    <3>4. QED  BY <3>1, <3>3 DEF u, w
  <2>13. Piece(c, p, pos) # <<>>
    BY <1>2, <2>12 DEF R
  <2>14. PICK q \in p + 1..pos : c[q] # <<>> /\ Head(c[q]) = Head(Piece(c, p, pos))
    BY <2>5, <2>13, PieceHead
  <2>15. Head(c[q]) = Head(t)
    BY <2>12, <2>14 DEF R
  <2>16. q \in 1..pos /\ ~(q <= k + 1)
    BY <2>5, <2>6
  <2>17. QED  BY <1>2, <2>14, <2>15, <2>16
<1>16. QED
  <2>1. Len(t) = Len(W) \/ Len(W) < Len(t) \/ Len(W) > Len(t)
    BY <1>12
  <2>2. QED  BY <1>13, <1>14, <1>15, <2>1

(* A text that ends as another one does is like it before that.              *)
LEMMA TextsCancel ==
  \A h, t, a, p \in Seq(Base) :
    h \o t = a \o (p \o t) => h = a \o p /\ Len(h) = Len(a) + Len(p)
<1> TAKE h, t, a, p \in Seq(Base)
<1>1. HAVE h \o t = a \o (p \o t)
<1>2. (a \o p) \o t = a \o (p \o t) /\ a \o p \in Seq(Base)
  BY TextsJoin
<1>3. h \o t = (a \o p) \o t
  BY <1>1, <1>2, Zenon
<1>4. h = a \o p
  BY <1>2, <1>3, TextsJoin, Zenon
<1>5. QED  BY <1>4, TextsJoin, Zenon

(* d is c up to the k-th token, and then t.                                *)
AnnotatedIs(c, b, k, d, t) ==
  /\ d \in Seq(Token) /\ k + 1 <= Len(d)
  /\ \A p \in 0..k : Piece(c, b, p) = Piece(d, b, p)
  /\ Piece(d, b, k + 1) = Piece(c, b, k) \o t

(* What c is when its tokens behind the k-th and up to the pos-th are t: the
   same up to the k-th, and then t.                                          *)
LEMMA AnnotatedPieces ==
  ASSUME NEW c \in Seq(Token), NEW pos \in Nat, pos <= Len(c), NEW b \in Nat,
         NEW k \in Nat, b <= k, k < pos, NEW t \in Token
  PROVE  AnnotatedIs(c, b, k, Annotated(c, k + 1, pos, t), t)
<1> DEFINE i == k + 1
           d == Annotated(c, i, pos, t)
<1>1. i \in 1..pos + 1 /\ i = k + 1 /\ i - 1 = k
  OBVIOUS
<1> HIDE DEF i
<1>2. /\ d \in Seq(Token) /\ i <= Len(d) /\ d[i] = t /\ \A q \in 1..i - 1 : d[q] = c[q]
  BY <1>1, AnnotatedParts
<1> HIDE DEF d
<1>3. k <= Len(c) /\ k <= Len(d) /\ k < Len(d) /\ \A q \in 1..k : c[q] = d[q]
  <2>1. Len(d) \in Nat /\ Len(c) \in Nat
    BY <1>2, LenProperties
  <2>2. QED  BY <1>1, <1>2, <2>1
<1>4. ASSUME NEW p \in 0..k PROVE Piece(c, b, p) = Piece(d, b, p)
  <2>1. p \in Nat /\ p <= k
    OBVIOUS
  <2>2. QED  BY <1>2, <1>3, <2>1, PieceAgree
<1>5. Piece(d, b, k + 1) = Piece(d, b, k) \o d[k + 1]
  BY <1>2, <1>3, PieceStep
<1>6. k \in 0..k
  OBVIOUS
<1>7. Piece(d, b, k + 1) = Piece(c, b, k) \o t
  BY <1>1, <1>2, <1>4, <1>5, <1>6
<1>8. AnnotatedIs(c, b, k, d, t)
  BY <1>1, <1>2, <1>4, <1>7 DEF AnnotatedIs
<1>9. QED  BY <1>8 DEF d, i

(* The same of any tokens.                                                  *)
LEMMA AnnotatedAre ==
  \A c \in Seq(Token), t \in Token : \A pos, b, k \in Nat :
    pos <= Len(c) /\ b <= k /\ k < pos => AnnotatedIs(c, b, k, Annotated(c, k + 1, pos, t), t)
BY AnnotatedPieces

(* The tokens that an annotation covers become one, for the parser and in the
   cache.                                                                    *)
LEMMA MatchAnnotated ==
  ASSUME NEW c \in Seq(Token), NEW a \in Seq(Base), NEW b \in Nat, NEW r \in Seq(Token),
         NEW pos \in Nat, pos <= Len(c), NEW j \in Nat, j >= 1, j <= Len(r),
         NEW k \in Nat, b <= k, k < pos
  PROVE  Piece(c, k, pos) = Covered(r, j) /\ Matches(c, a, b, r, pos) =>
           Matches(Annotated(c, k + 1, pos, Covered(r, j)), a, b, Covering(r, j), k + 1)
<1> DEFINE t == Covered(r, j)
           i == k + 1
           d == Annotated(c, i, pos, t)
           m == Len(r) - j
           l == Len(r)
<1>1. PICK h \in Seq(Token) :
        /\ Len(h) = m /\ m \in Nat /\ Covering(r, j) = Append(h, t) /\ t \in Token
        /\ FlattenSeq(h) \o t = FlattenSeq(r)
        /\ \A n \in 0..Len(h) : Piece(h, 0, n) = Piece(r, 0, n)
  BY CoveringPieces
<1>0. l \in Nat /\ Len(c) \in Nat /\ m \in 0..l
  BY <1>1, LenProperties
<1>2. i \in Nat /\ k <= i /\ b <= i /\ i \in b..i /\ k \in b..i /\ k \in 0..k
  OBVIOUS
<1>4. /\ d \in Seq(Token) /\ i <= Len(d)
      /\ \A p \in 0..k : Piece(c, b, p) = Piece(d, b, p)
      /\ Piece(d, b, i) = Piece(c, b, k) \o t
  <2>1. t \in Token
    BY <1>1
  <2>2. d = Annotated(c, k + 1, pos, t) /\ i = k + 1
    OBVIOUS
  <2>3. pos <= Len(c) /\ b <= k /\ k < pos
    OBVIOUS
  <2> HIDE DEF t, i, d
  <2>4. AnnotatedIs(c, b, k, Annotated(c, k + 1, pos, t), t)
    BY <2>1, <2>3, AnnotatedAre, Zenon
  <2>5. AnnotatedIs(c, b, k, d, t)
    BY <2>2, <2>4
  <2>6. QED  BY <2>2, <2>5 DEF AnnotatedIs
<1> HIDE DEF t, i, d
<1>3. Piece(c, b, pos) = Piece(c, b, k) \o Piece(c, k, pos) /\ Piece(c, b, k) \in Seq(Base)
  <2>1. k <= pos
    OBVIOUS
  <2>2. QED  BY <2>1, PiecesMeet, ZenonT(60)
<1>16. ASSUME NEW p \in Nat, k <= p, p <= Len(c)
       PROVE  /\ Len(Piece(c, b, p)) = Len(Piece(c, b, k)) + Len(Piece(c, k, p))
              /\ Len(Piece(c, b, k)) \in Nat /\ Len(Piece(c, k, p)) \in Nat
  BY <1>16, PieceMeet, SMTT(30)
<1>15. SUFFICES ASSUME Piece(c, k, pos) = t, Matches(c, a, b, r, pos)
                PROVE  Matches(d, a, b, Append(h, t), i)
  BY <1>1 DEF d, i, t
<1>7. Piece(c, b, pos) = Piece(c, b, k) \o t /\ Piece(c, b, k) \in Seq(Base)
  BY <1>3, <1>15
<1>9. Piece(d, b, i) = Piece(c, b, pos)
  BY <1>4, <1>7
<1>10. /\ FlattenSeq(r) = a \o Piece(c, b, pos)
       /\ \A n \in 0..l :
            Len(Piece(r, 0, n)) >= Len(a) => Ends(c, a, b, pos, Len(Piece(r, 0, n)))
  BY <1>15 DEF Matches, l
<1>11. FlattenSeq(h) \o t = a \o Piece(d, b, i)
  BY <1>1, <1>9, <1>10
<1>12. Len(FlattenSeq(h)) = Len(a) + Len(Piece(c, b, k))
  <2>1. Piece(c, b, k) \in Seq(Base) /\ t \in Seq(Base) /\ FlattenSeq(h) \in Seq(Base)
    BY <1>1, <1>7, TextOf
  <2>2. FlattenSeq(h) \o t = a \o (Piece(c, b, k) \o t)
    BY <1>1, <1>7, <1>10
  <2>3. QED  BY <2>1, <2>2, TextsCancel
<1>13. ASSUME NEW n \in 0..Len(h), Len(Piece(h, 0, n)) >= Len(a)
       PROVE  Ends(d, a, b, i, Len(Piece(h, 0, n)))
  <2>1. n \in 0..l /\ Piece(r, 0, n) = Piece(h, 0, n)
    BY <1>0, <1>1
  <2> DEFINE s == Len(Piece(h, 0, n))
  <2>2. Ends(c, a, b, pos, s)
    BY <1>10, <1>13, <2>1
  <2>3. PICK p \in b..pos : s = Len(a) + Len(Piece(c, b, p))
    BY <2>2 DEF Ends
  <2>4. s \in Nat /\ s <= Len(FlattenSeq(h))
    BY PieceShort
  <2>5. CASE p <= k
    <3>1. p \in 0..k /\ p \in b..i
      BY <1>2, <2>5
    <3>2. Piece(c, b, p) = Piece(d, b, p)
      BY <1>4, <3>1
    <3>3. QED  BY <2>3, <3>1, <3>2 DEF Ends
  <2>6. CASE ~(p <= k)
    <3>1. p \in Nat /\ k <= p /\ p <= Len(c)
      BY <1>0, <2>6
    <3>2. /\ Len(Piece(c, b, p)) = Len(Piece(c, b, k)) + Len(Piece(c, k, p))
          /\ Len(Piece(c, b, k)) \in Nat /\ Len(Piece(c, k, p)) \in Nat
      BY <3>1, <1>16
    <3>3. s = Len(a) + Len(Piece(c, b, k))
      <4> DEFINE u == Len(a)
                 v == Len(Piece(c, b, k))
                 w == Len(Piece(c, k, p))
      <4>1. s = u + (v + w) /\ s <= u + v /\ s \in Nat /\ u \in Nat /\ v \in Nat /\ w \in Nat
        BY <1>12, <2>3, <2>4, <3>2, LenProperties
      <4> HIDE DEF s, u, v, w
      <4>2. s = u + v
        BY <4>1
      <4>3. QED  BY <4>2 DEF u, v
    <3>4. Piece(c, b, k) = Piece(d, b, k)
      BY <1>2, <1>4
    <3>5. QED  BY <1>2, <3>3, <3>4 DEF Ends
  <2>7. QED  BY <2>5, <2>6
<1>14. QED  BY <1>1, <1>2, <1>4, <1>11, <1>13, MatchAppend

(* An annotation covers some text.                                          *)
LEMMA CoveredText ==
  ASSUME NEW r \in Seq(Token), NEW j \in Nat, j >= 1, CanCover(r, j)
  PROVE  Covered(r, j) # <<>> /\ IsInjective(Covered(r, j)) /\ j <= Len(r)
<1> DEFINE l == Len(r)
           m == l - j
           k == m + 1
<1>1. /\ j <= l /\ IsInjective(Covered(r, j)) /\ \A i \in m + 1..l : r[i] # <<>>
      /\ l \in Nat
  BY LenProperties DEF CanCover
<1>2. m \in Nat /\ k \in Nat /\ m <= k /\ k <= l /\ m < l /\ k \in m + 1..l
  BY <1>1
<1>3. Covered(r, j) = Piece(r, m, l)
  BY DEF Covered, Piece
<1> DEFINE t == Covered(r, j)
<1> HIDE DEF t
<1>4. r[k] # <<>> /\ k = m + 1
  BY <1>1, <1>2
<1> HIDE DEF k, m
<1>5. Piece(r, m, m + 1) = r[m + 1] /\ r[m + 1] \in Token
  BY <1>2, PieceBounds DEF l
<1>6. /\ Len(Piece(r, m, l)) = Len(Piece(r, m, k)) + Len(Piece(r, k, l))
      /\ Len(Piece(r, k, l)) \in Nat /\ Piece(r, m, k) \in Seq(Base)
  BY <1>1, <1>2, PieceMeet DEF l
<1>7. Len(Piece(r, m, k)) \in Nat /\ Len(Piece(r, m, k)) # 0
  <2>1. Piece(r, m, k) # <<>>
    BY <1>4, <1>5
  <2>2. QED  BY <1>6, <2>1, LenProperties, EmptySeq
<1>8. Len(Piece(r, m, l)) # 0
  BY <1>6, <1>7
<1>9. Piece(r, m, l) # <<>>
  BY <1>8, EmptySeq
<1>10. QED  BY <1>1, <1>3, <1>9 DEF t, l

(* It replaces the tokens from the last one on that begins as it does.       *)
LEMMA LastBeginCovers ==
  ASSUME NEW c, NEW pos \in Nat, NEW t, BeginsAt(c, pos, t) # {}, IsInjective(t), t # <<>>
  PROVE  \E k \in Nat : /\ k < pos /\ LastBegin(c, pos, t) = k + 1
                        /\ CoversFrom(c, k, pos, t)
<1> DEFINE B == BeginsAt(c, pos, t)
           i == LastBegin(c, pos, t)
<1>1. B \subseteq 1..pos
  BY DEF BeginsAt
<1> HIDE DEF B
<1>2. B # {}
  BY DEF B
<1>3. \E q \in B : \A p \in B : p <= q
  BY <1>1, <1>2, Greatest
<1> DEFINE g == CHOOSE q \in B : \A p \in B : p <= q
<1>4. g \in B /\ \A p \in B : p <= g
  BY <1>3
<1>5. i = g
  BY DEF LastBegin, B
<1> HIDE DEF g, i
<1>6. i \in 1..pos /\ i \in B
  BY <1>1, <1>4, <1>5
<1> DEFINE k == i - 1
<1>7. k \in Nat /\ k < pos /\ i = k + 1
  BY <1>6
<1> HIDE DEF k
<1>8. c[k + 1] # <<>> /\ Head(c[k + 1]) = Head(t)
  BY <1>6, <1>7 DEF B, BeginsAt
<1>9. \A q \in 1..pos : c[q] # <<>> /\ Head(c[q]) = Head(t) => q <= k + 1
  <2>1. ASSUME NEW q \in 1..pos, c[q] # <<>>, Head(c[q]) = Head(t) PROVE q \in B
    BY <2>1 DEF B, BeginsAt
  <2>2. QED  BY <1>4, <1>5, <1>7, <2>1
<1>10. CoversFrom(c, k, pos, t)
  BY <1>8, <1>9 DEF CoversFrom
<1>11. QED  BY <1>7, <1>10 DEF i

(* The caches c and d agree up to p.                                        *)
Agree(c, d, p) == p <= Len(c) /\ p <= Len(d) /\ \A q \in 1..p : c[q] = d[q]

(* Caches that agree on more agree on less.                                *)
LEMMA AgreeLess ==
  ASSUME NEW c \in Seq(Token), NEW d \in Seq(Token), NEW m \in Nat, NEW k \in Nat, m <= k
  PROVE  Agree(c, d, k) => Agree(c, d, m)
<1>1. Len(c) \in Nat /\ Len(d) \in Nat
  BY LenProperties
<1>2. QED  BY <1>1 DEF Agree

(* They do up to where the annotation is.                                   *)
LEMMA AnnotatedAgrees ==
  \A c \in Seq(Token), t \in Token : \A pos, k \in Nat :
    pos <= Len(c) /\ k < pos =>
      Agree(c, Annotated(c, k + 1, pos, t), k) /\ Annotated(c, k + 1, pos, t) \in Seq(Token)
<1>1. SUFFICES ASSUME NEW c \in Seq(Token), NEW t \in Token, NEW pos \in Nat, NEW k \in Nat,
                      pos <= Len(c), k < pos
               PROVE  /\ Agree(c, Annotated(c, k + 1, pos, t), k)
                      /\ Annotated(c, k + 1, pos, t) \in Seq(Token)
  OBVIOUS
<1> DEFINE n == k + 1
           d == Annotated(c, n, pos, t)
<1>2. n \in 1..pos + 1 /\ n - 1 = k /\ k < n /\ n \in Nat
  BY <1>1
<1> HIDE DEF n
<1>3. d \in Seq(Token) /\ n <= Len(d) /\ \A q \in 1..n - 1 : d[q] = c[q]
  BY <1>1, <1>2, AnnotatedParts
<1> HIDE DEF d
<1>4. Len(d) \in Nat /\ Len(c) \in Nat
  BY <1>3, LenProperties
<1>5. Agree(c, d, k)
  BY <1>1, <1>2, <1>3, <1>4 DEF Agree
<1>6. QED  BY <1>3, <1>5 DEF d, n

(* AnnotateCachedTokens for a mark: the cache is the same up to the innermost
   one, and what had been read at each mark is followed there by what has been
   read since, with the annotation.                                          *)
LEMMA AnnotationMatches ==
  ASSUME cached \in Seq(Token), NEW pos \in Nat, pos <= Len(cached),
         NEW r \in Seq(Token), NEW j \in Nat, j >= 1, CanCover(r, j),
         backtrack \in Seq(Nat), isBacktrackEnabled(backtrack), Last(backtrack) <= pos,
         AnnotateCachedTokens(pos, Covered(r, j))
  PROVE  /\ Agree(cached, cached', Last(backtrack)) /\ cached' \in Seq(Token)
         /\ \A a \in Seq(Base), b \in Nat : b <= Last(backtrack) =>
              (Matches(cached, a, b, r, pos) => Matches(cached', a, b, Covering(r, j), cachedPos'))
<1> DEFINE t == Covered(r, j)
           B == BeginsAt(cached, pos, t)
           i == LastBegin(cached, pos, t)
           m == Last(backtrack)
<1>1. m \in Nat
  BY FrontFields DEF isBacktrackEnabled
<1>2. t # <<>> /\ IsInjective(t) /\ j <= Len(r)
  BY CoveredText
<1>3. CASE ~(pos # 0 /\ B # {})
  <2>1. cached' = cached /\ cachedPos' = pos
    BY <1>3 DEF AnnotateCachedTokens
  <2>2. m <= Len(cached)
    <3>1. Len(cached) \in Nat
      BY LenProperties
    <3> HIDE DEF m
    <3>2. m <= pos
      BY DEF m
    <3>3. QED  BY <1>1, <3>1, <3>2
  <2>3. Agree(cached, cached', m)
    BY <2>1, <2>2 DEF Agree
  <2>4. ASSUME NEW a \in Seq(Base), NEW b \in Nat
        PROVE  Matches(cached, a, b, r, pos) => Matches(cached, a, b, Covering(r, j), pos)
    <3> HIDE DEF m, t, B, i
    <3>1. QED  BY <1>2, MatchCoarser
  <2>5. QED  BY <2>1, <2>3, <2>4
<1>4. CASE pos # 0 /\ B # {}
  <2>1. /\ AnnotationAsserted(pos, t)
        /\ cached' = Annotated(cached, i, pos, t) /\ cachedPos' = i
    BY <1>4 DEF AnnotateCachedTokens
  <2>2. m < i
    BY <1>4, <2>1 DEF AnnotationAsserted
  <2>3. PICK k \in Nat : k < pos /\ i = k + 1 /\ CoversFrom(cached, k, pos, t)
    <3> HIDE DEF i, t, m
    <3>1. QED  BY <1>2, <1>4, LastBeginCovers DEF i, B
  <2>4. cached' = Annotated(cached, k + 1, pos, t) /\ cachedPos' = k + 1
    BY <2>1, <2>3
  <2> HIDE DEF i, B
  <2>5. m <= k
    <3> HIDE DEF m
    <3>1. QED  BY <1>1, <2>2, <2>3
  <2>6. ASSUME NEW a \in Seq(Base), NEW b \in Nat, b <= k
        PROVE  Matches(cached, a, b, r, pos)
               => Matches(Annotated(cached, k + 1, pos, Covered(r, j)), a, b, Covering(r, j), k + 1)
    <3>1. CoversFrom(cached, k, pos, Covered(r, j)) /\ k < pos
      BY <2>3 DEF t
    <3> HIDE DEF t, m
    <3>2. Matches(cached, a, b, r, pos) => Piece(cached, k, pos) = Covered(r, j)
      BY <1>2, <2>6, <3>1, AnnotatedText
    <3>3. Piece(cached, k, pos) = Covered(r, j) /\ Matches(cached, a, b, r, pos)
          => Matches(Annotated(cached, k + 1, pos, Covered(r, j)), a, b, Covering(r, j), k + 1)
      BY <1>2, <2>6, <3>1, MatchAnnotated
    <3>4. QED  BY <3>2, <3>3
  <2>7. Agree(cached, cached', m) /\ cached' \in Seq(Token)
    <3>1. t \in Token
      BY <1>2, CoveredTyped
    <3> HIDE DEF t, m
    <3>2. /\ Agree(cached, Annotated(cached, k + 1, pos, t), k)
          /\ Annotated(cached, k + 1, pos, t) \in Seq(Token)
      BY <2>3, <3>1, AnnotatedAgrees, Zenon
    <3>3. Agree(cached, cached', k) /\ cached' \in Seq(Token)
      BY <2>4, <3>2
    <3>4. QED  BY <1>1, <2>5, <3>3, AgreeLess
  <2>8. ASSUME NEW a \in Seq(Base), NEW b \in Nat, b <= m
        PROVE  Matches(cached, a, b, r, pos) => Matches(cached', a, b, Covering(r, j), cachedPos')
    <3>1. b <= k
      <4> HIDE DEF m
      <4>1. QED  BY <1>1, <2>5, <2>8
    <3>2. QED  BY <2>4, <2>6, <3>1
  <2>9. QED  BY <2>7, <2>8
<1>5. QED  BY <1>3, <1>4

-----------------------------------------------------------------------------
(* What is read again after Backtrack                                       *)

(* What the parser has read, with the token that it is being given.          *)
ReadSoFar == IF Len(calls) = 1 /\ calls[1].fn = "ConsumeToken" THEN read \o Pending ELSE read

(* What had been read at each mark is followed, in the cache, by what has been
   read since, and by what had been at each later mark.                      *)
MarksMatch ==
  \A k \in 1..Len(backtrack) :
    /\ Matches(cached, FlattenSeq(saved[k]), backtrack[k], ReadSoFar, cachedPos)
    /\ \A j \in k..Len(backtrack) :
         Matches(cached, FlattenSeq(saved[k]), backtrack[k], saved[j], backtrack[j])

(* A mark, and what had been read at it.                                    *)
LEMMA MarkTyped ==
  ASSUME IInv, MarksMatch, NEW k \in 1..Len(backtrack)
  PROVE  /\ saved[k] \in Seq(Token) /\ FlattenSeq(saved[k]) \in Seq(Base) /\ backtrack[k] \in Nat
         /\ backtrack[k] <= Last(backtrack) /\ backtrack # <<>>
         /\ Last(backtrack) \in Nat /\ Last(backtrack) <= cachedPos
<1>1. /\ backtrack \in Seq(Nat) /\ saved \in Seq(Seq(Token)) /\ Len(saved) = Len(backtrack)
      /\ Len(backtrack) \in Nat
  BY DEF IInv, TypeOK, Paired
<1>2. k \in k..Len(backtrack) /\ Len(backtrack) \in k..Len(backtrack) /\ k \in 1..Len(saved)
  BY <1>1
<1>3. saved[k] \in Seq(Token) /\ backtrack[k] \in Nat
  BY <1>1, <1>2, ElementOfSeq
<1>4. FlattenSeq(saved[k]) \in Seq(Base)
  BY <1>3, TextOf
<1>5. backtrack[k] <= backtrack[Len(backtrack)]
  BY <1>2 DEF MarksMatch, Matches
<1>6. backtrack # <<>>
  BY <1>1, EmptySeq
<1>7. Last(backtrack) \in Nat /\ Last(backtrack) <= cachedPos
  BY <1>6, CursorBehindMark DEF isBacktrackEnabled
<1>8. QED  BY <1>3, <1>4, <1>5, <1>6, <1>7 DEF Last

(* Caches that agree so far match alike.                                    *)
LEMMA MatchCopy ==
  \A c, d \in Seq(Token) : \A b, pos \in Nat : \A a, r :
    Agree(c, d, pos) => (Matches(c, a, b, r, pos) => Matches(d, a, b, r, pos))
BY MatchStable DEF Agree

(* Nothing that is read again changes.                                      *)
LEMMA MarksMatchSame ==
  ASSUME MarksMatch, ReadSoFar' = ReadSoFar, UNCHANGED <<cached, cachedPos, backtrack, saved>>
  PROVE  MarksMatch'
BY DEF MarksMatch

(* Without a mark nothing is read again.                                    *)
LEMMA MarksMatchNone == backtrack' = <<>> => MarksMatch'
<1>1. ASSUME NEW k \in 1..Len(<<>>) PROVE FALSE
  OBVIOUS
<1>2. QED  BY <1>1 DEF MarksMatch

(* The cache changes behind the innermost mark, and what has been read with it.  *)
LEMMA MarksMatchStep ==
  ASSUME IInv, MarksMatch, cached' \in Seq(Token), UNCHANGED <<backtrack, saved>>,
         isBacktrackEnabled(backtrack) =>
           /\ Agree(cached, cached', Last(backtrack))
           /\ \A a \in Seq(Base), b \in Nat : b <= Last(backtrack) =>
                (Matches(cached, a, b, ReadSoFar, cachedPos)
                 => Matches(cached', a, b, ReadSoFar', cachedPos'))
  PROVE  MarksMatch'
<1>1. cached \in Seq(Token)
  BY CursorBehindMark
<1>2. ASSUME NEW k \in 1..Len(backtrack)
      PROVE  /\ Matches(cached', FlattenSeq(saved[k]), backtrack[k], ReadSoFar', cachedPos')
             /\ \A j \in k..Len(backtrack) :
                  Matches(cached', FlattenSeq(saved[k]), backtrack[k], saved[j], backtrack[j])
  <2>1. /\ FlattenSeq(saved[k]) \in Seq(Base) /\ backtrack[k] \in Nat
        /\ backtrack[k] <= Last(backtrack) /\ isBacktrackEnabled(backtrack)
        /\ Last(backtrack) \in Nat
    BY MarkTyped DEF isBacktrackEnabled
  <2>2. Agree(cached, cached', Last(backtrack))
    BY <2>1
  <2>3. Matches(cached, FlattenSeq(saved[k]), backtrack[k], ReadSoFar, cachedPos)
    BY DEF MarksMatch
  <2>4. Matches(cached', FlattenSeq(saved[k]), backtrack[k], ReadSoFar', cachedPos')
    BY <2>1, <2>3
  <2>5. ASSUME NEW j \in k..Len(backtrack)
        PROVE  Matches(cached', FlattenSeq(saved[k]), backtrack[k], saved[j], backtrack[j])
    <3>1. Matches(cached, FlattenSeq(saved[k]), backtrack[k], saved[j], backtrack[j])
      BY DEF MarksMatch
    <3>2. j \in 1..Len(backtrack)
      OBVIOUS
    <3>3. backtrack[j] \in Nat /\ backtrack[j] <= Last(backtrack)
      BY <3>2, MarkTyped
    <3>4. Agree(cached, cached', backtrack[j])
      BY <1>1, <2>1, <2>2, <3>3, AgreeLess
    <3>5. QED  BY <1>1, <2>1, <3>1, <3>3, <3>4, MatchCopy, Zenon
  <2>6. QED  BY <2>4, <2>5
<1>3. QED  BY <1>2 DEF MarksMatch

(* The cache changes behind the cursor.                                     *)
LEMMA MarksMatchBehind ==
  ASSUME IInv, MarksMatch, cached' \in Seq(Token), Agree(cached, cached', cachedPos),
         ReadSoFar' = ReadSoFar, UNCHANGED <<cachedPos, backtrack, saved>>
  PROVE  MarksMatch'
<1>1. cached \in Seq(Token) /\ cachedPos \in Nat
  BY CursorBehindMark
<1>2. ASSUME isBacktrackEnabled(backtrack) PROVE Agree(cached, cached', Last(backtrack))
  <2>1. Last(backtrack) <= cachedPos /\ Last(backtrack) \in Nat
    BY <1>2, CursorBehindMark
  <2>2. QED  BY <1>1, <2>1, AgreeLess
<1>3. ASSUME NEW a \in Seq(Base), NEW b \in Nat
      PROVE  Matches(cached, a, b, ReadSoFar, cachedPos) => Matches(cached', a, b, ReadSoFar', cachedPos')
  <2>1. Matches(cached, a, b, ReadSoFar, cachedPos) => Matches(cached', a, b, ReadSoFar, cachedPos)
    BY <1>1, MatchCopy, Zenon
  <2>2. QED  BY <2>1
<1>4. QED  BY <1>2, <1>3, MarksMatchStep

(* What has been read, when no call waits or one that looks ahead or caches.   *)
LEMMA ReadIs ==
  /\ Len(calls) # 1 \/ calls[1].fn # "ConsumeToken" => ReadSoFar = read
  /\ Len(calls) = 1 /\ calls[1].fn = "ConsumeToken" => ReadSoFar = read \o Pending
BY DEF ReadSoFar

(* What has been read by then, after a step.                               *)
LEMMA ReadIsNext ==
  /\ Len(calls') # 1 \/ calls'[1].fn # "ConsumeToken" => ReadSoFar' = read'
  /\ Len(calls') = 1 /\ calls'[1].fn = "ConsumeToken" => ReadSoFar' = read' \o Pending'
BY DEF ReadSoFar

(* Between calls, it is what the parser has.                                *)
LEMMA ReadIdle ==
  /\ Idle => ReadSoFar = read
  /\ Idle' => ReadSoFar' = read'
BY DEF ReadSoFar, Idle

(* A call of Lex for the parser has given it nothing yet.                    *)
LEMMA ReadCalled ==
  ASSUME read' \in Seq(Token), calls' = <<Calling("ConsumeToken")>>, ret' = None
  PROVE  ReadSoFar' = read'
<1> DEFINE c == Calling("ConsumeToken")
<1>1. c.fn = "ConsumeToken" /\ calls' = <<c>>
  BY CallTyped
<1> HIDE DEF c
<1>2. Len(calls') = 1 /\ calls'[1] = c
  BY <1>1
<1>3. ReadSoFar' = read' \o <<>>
  BY <1>1, <1>2, ReadIsNext DEF Pending
<1>4. read' \o <<>> = read'
  BY ConcatEmptySeq
<1>5. QED  BY <1>3, <1>4

(* A call of Lex by the parser.                                             *)
LEMMA ConsumeTokenMatches == ASSUME IInv, IInv', MarksMatch, ConsumeToken PROVE MarksMatch'
<1>1. /\ Idle /\ ret = None /\ calls' = <<Calling("ConsumeToken")>> /\ read' \in Seq(Token)
      /\ UNCHANGED <<cached, cachedPos, backtrack, saved, read, ret>>
  BY TentativeMode DEF ConsumeToken, IInv, TypeOK
<1>2. ReadSoFar' = ReadSoFar
  BY <1>1, ReadIdle, ReadCalled
<1>3. QED  BY <1>1, <1>2, MarksMatchSame

(* A slot at the end of the cache.                                          *)
LEMMA AgreeAppend ==
  ASSUME NEW c \in Seq(Token), NEW x \in Token, NEW p \in Nat, p <= Len(c)
  PROVE  Agree(c, Append(c, x), p) /\ Append(c, x) \in Seq(Token)
<1> DEFINE d == Append(c, x)
           m == Len(c)
<1>1. /\ d \in Seq(Token) /\ Len(d) = m + 1 /\ \A i \in 1..m : d[i] = c[i]
      /\ m \in Nat
  BY AppendProperties, LenProperties
<1> HIDE DEF d
<1>2. p <= Len(d) /\ \A i \in 1..p : d[i] = c[i]
  <2>1. p <= m
    OBVIOUS
  <2> HIDE DEF m
  <2>2. QED  BY <1>1, <2>1
<1>3. QED  BY <1>1, <1>2 DEF Agree, d, m

(* A look ahead.                                                            *)
LEMMA LookAheadMatches ==
  ASSUME IInv, IInv', MarksMatch, NEW n \in 0..MaxPeek, LookAhead(n)
  PROVE  MarksMatch'
<1>1. Idle /\ UNCHANGED <<cachedPos, backtrack, read, saved>> /\ ReadSoFar = read
  BY ReadIdle DEF LookAhead
<1>2. CASE n < Len(Ahead)
  <2>1. Idle' /\ cached' = cached
    BY <1>1, <1>2 DEF LookAhead, Idle
  <2>2. QED  BY <1>1, <2>1, ReadIdle, MarksMatchSame
<1>3. CASE ~(n < Len(Ahead))
  <2> DEFINE c == [fn |-> "PeekAhead", left |-> n - Len(Ahead), slot |-> Len(cached) + 1]
  <2>1. calls' = <<c>> /\ cached' = Append(cached, <<>>) /\ c.fn = "PeekAhead"
    BY <1>3 DEF LookAhead
  <2> HIDE DEF c
  <2>2. calls'[1] = c
    BY <2>1
  <2>3. ReadSoFar' = ReadSoFar
    BY <1>1, <2>1, <2>2, ReadIsNext
  <2>4. <<>> \in Token
    BY EmptySeq DEF Token
  <2>5. Agree(cached, cached', cachedPos) /\ cached' \in Seq(Token)
    BY <2>1, <2>4, CursorBehindMark, AgreeAppend
  <2>6. QED  BY <1>1, <2>3, <2>5, MarksMatchBehind
<1>4. QED  BY <1>2, <1>3

(* Each look ahead fills its slot.                                          *)
LEMMA PeekAheadReturnsMatches ==
  ASSUME IInv, IInv', MarksMatch, PeekAheadReturns
  PROVE  MarksMatch'
<1> DEFINE m == Len(cached)
           stored == [cached EXCEPT ![m] = ret]
           call == calls[1]
<1>1. /\ ~Idle /\ ret \in Token /\ calls \in Seq(Call) /\ Len(calls) = 1
      /\ call.fn = "PeekAhead" /\ Last(calls) = call /\ call \in Call
      /\ Front(calls) \in Seq(Call) /\ Len(Front(calls)) = 0
      /\ UNCHANGED <<cachedPos, backtrack, read, saved>>
  BY Returning DEF PeekAheadReturns
<1>2. /\ call.slot = m /\ cachedPos < m
      /\ cached \in Seq(Token) /\ cachedPos \in Nat /\ m \in Nat
  BY <1>1, CursorBehindMark, WaitingCalls DEF Peeking
<1>3. [cached EXCEPT ![Last(calls).slot] = ret] = stored
  BY <1>1, <1>2
<1>4. /\ stored \in Seq(Token) /\ Len(stored) = m
      /\ \A i \in 1..m : stored[i] = IF i = m THEN ret ELSE cached[i]
  <2>1. m \in 1..Len(cached)
    BY <1>2
  <2>2. QED  BY <1>1, <1>2, <2>1, ExceptSeq
<1>5. Agree(cached, stored, cachedPos) /\ cachedPos <= Len(stored)
  <2> HIDE DEF stored
  <2>1. cachedPos <= Len(cached) /\ cachedPos <= Len(stored)
    BY <1>2, <1>4
  <2>2. ASSUME NEW i \in 1..cachedPos PROVE cached[i] = stored[i]
    <3>1. i \in 1..m /\ i # m
      <4> HIDE DEF m
      <4>1. QED  BY <1>2
    <3>2. QED  BY <1>4, <3>1
  <2>3. QED  BY <2>1, <2>2 DEF Agree
<1>6. ReadSoFar = read
  BY <1>1, ReadIs
<1> HIDE DEF stored, call, m
<1>7. CASE call.left > 0
  <2> DEFINE again == [call EXCEPT !.left = @ - 1, !.slot = Len(cached) + 1]
  <2>1. cached' = Append(stored, <<>>) /\ calls' = <<again>>
    BY <1>1, <1>3, <1>7 DEF PeekAheadReturns
  <2>2. again.fn = "PeekAhead"
    BY <1>1 DEF Call
  <2> HIDE DEF again
  <2>3. calls'[1] = again
    BY <2>1
  <2>4. ReadSoFar' = ReadSoFar
    BY <1>1, <1>6, <2>2, <2>3, ReadIsNext
  <2>5. <<>> \in Token
    BY EmptySeq DEF Token
  <2> DEFINE d == Append(stored, <<>>)
  <2>6. Agree(stored, d, cachedPos) /\ d \in Seq(Token)
    BY <1>2, <1>4, <1>5, <2>5, AgreeAppend
  <2>7. cached' = d
    BY <2>1
  <2> HIDE DEF d
  <2>8. Agree(cached, d, cachedPos)
    BY <1>5, <2>6 DEF Agree
  <2>9. QED  BY <1>1, <2>4, <2>6, <2>7, <2>8, MarksMatchBehind
<1>8. CASE ~(call.left > 0)
  <2>1. cached' = stored /\ calls' = Front(calls)
    BY <1>1, <1>3, <1>8 DEF PeekAheadReturns
  <2>2. Idle'
    BY <1>1, <2>1 DEF Idle
  <2>3. ReadSoFar' = ReadSoFar
    BY <1>1, <1>6, <2>2, ReadIdle
  <2>4. QED  BY <1>1, <1>4, <1>5, <2>1, <2>3, MarksMatchBehind
<1>9. QED  BY <1>7, <1>8

(* Without a tentative parse nothing is to be matched.                       *)
LEMMA NoMarksMatch == ASSUME backtrack' = backtrack, backtrack = <<>> PROVE MarksMatch'
BY MarksMatchNone

(* Below the cache a token is lexed for it, for a look ahead, or without marks.  *)
LEMMA LexMatches == ASSUME IInv, IInv', MarksMatch, Lex PROVE MarksMatch'
<1>1. /\ ~Idle /\ ret = None /\ ~InCachingLexMode(lexers)
      /\ UNCHANGED <<cached, cachedPos, backtrack, calls, read, saved>>
  BY TopWords DEF Lex, Waits, Idle
<1>2. CASE Len(calls) = 1 /\ calls[1].fn = "ConsumeToken"
  <2>1. backtrack = <<>>
    BY <1>1, <1>2 DEF IInv, Modes, Empty
  <2>2. QED  BY <1>1, <2>1, NoMarksMatch
<1>3. CASE ~(Len(calls) = 1 /\ calls[1].fn = "ConsumeToken")
  <2>1. ReadSoFar' = ReadSoFar
    BY <1>1, <1>3 DEF ReadSoFar
  <2>2. QED  BY <1>1, <2>1, MarksMatchSame
<1>4. QED  BY <1>2, <1>3

(* A step of the lexers alone.                                              *)
LEMMA LexersMatch ==
  ASSUME MarksMatch, UNCHANGED <<cached, cachedPos, backtrack, calls, ret, read, saved>>
  PROVE  MarksMatch'
<1>1. ReadSoFar' = ReadSoFar
  BY DEF ReadSoFar, Pending
<1>2. QED  BY <1>1, MarksMatchSame

(* The parser has its token.                                                *)
LEMMA ConsumeTokenReturnsMatches ==
  ASSUME IInv, IInv', MarksMatch, ConsumeTokenReturns
  PROVE  MarksMatch'
<1>1. /\ ret \in Token /\ Len(calls) = 1 /\ calls[1].fn = "ConsumeToken"
      /\ Front(calls) \in Seq(Call) /\ Len(Front(calls)) = Len(calls) - 1
      /\ calls' = Front(calls) /\ read' = Append(read, ret)
      /\ UNCHANGED <<cached, cachedPos, backtrack, saved>>
  BY Returning DEF ConsumeTokenReturns
<1>2. Idle'
  BY <1>1 DEF Idle
<1>3. ReadSoFar = read \o <<ret>>
  BY <1>1, NoneIsNoToken, ReadIs DEF Pending
<1>4. read \o <<ret>> = Append(read, ret)
  <2>1. read \in Seq(Token)
    BY DEF IInv, TypeOK
  <2>2. QED  BY <1>1, <2>1, AppendIsConcat
<1>5. ReadSoFar' = ReadSoFar
  BY <1>1, <1>2, <1>3, <1>4, ReadIdle
<1>6. QED  BY <1>1, <1>5, MarksMatchSame

(* A token that is read from the cache, or after it was put there.           *)
LEMMA ReadNext ==
  ASSUME IInv, MarksMatch, isBacktrackEnabled(backtrack), UNCHANGED <<backtrack, saved>>,
         cached' \in Seq(Token), Agree(cached, cached', cachedPos),
         cachedPos < Len(cached'), cachedPos' = cachedPos + 1,
         ReadSoFar \in Seq(Token), ReadSoFar' = Append(ReadSoFar, cached'[cachedPos + 1])
  PROVE  MarksMatch'
<1>1. /\ cached \in Seq(Token) /\ cachedPos \in Nat
      /\ Last(backtrack) <= cachedPos /\ Last(backtrack) \in Nat
  BY CursorBehindMark
<1>2. Agree(cached, cached', Last(backtrack))
  BY <1>1, AgreeLess
<1>3. ASSUME NEW a \in Seq(Base), NEW b \in Nat
      PROVE  Matches(cached, a, b, ReadSoFar, cachedPos) => Matches(cached', a, b, ReadSoFar', cachedPos')
  <2>1. Matches(cached, a, b, ReadSoFar, cachedPos) => Matches(cached', a, b, ReadSoFar, cachedPos)
    BY <1>1, MatchCopy, Zenon
  <2>2. Matches(cached', a, b, ReadSoFar, cachedPos)
        => Matches(cached', a, b, Append(ReadSoFar, cached'[cachedPos + 1]), cachedPos + 1)
    BY <1>1, MatchExtend
  <2>3. QED  BY <2>1, <2>2
<1>4. QED  BY <1>2, <1>3, MarksMatchStep

(* CachingLex takes a token of the cache, or asks the lexers for one.        *)
LEMMA CachingLexMatches == ASSUME IInv, IInv', MarksMatch, CachingLex PROVE MarksMatch'
<1>1. /\ ~Idle /\ ret = None /\ UNCHANGED <<cached, backtrack, read, saved>>
      /\ calls \in Seq(Call) /\ Len(calls) = 1 /\ calls[1].fn = "ConsumeToken"
  BY Waiting DEF CachingLex, Waits, Idle
<1>2. /\ cached \in Seq(Token) /\ cachedPos \in Nat /\ Len(cached) \in Nat
      /\ cachedPos <= Len(cached)
  BY CursorBehindMark
<1>3. read \in Seq(Token) /\ ReadSoFar = read
  <2>1. read \in Seq(Token)
    BY DEF IInv, TypeOK
  <2>2. ReadSoFar = read \o <<>>
    BY <1>1, ReadIs DEF Pending
  <2>3. QED  BY <2>1, <2>2, ConcatEmptySeq
<1>4. CASE cachedPos < Len(cached)
  <2> DEFINE x == cached[cachedPos + 1]
  <2>1. ret' = x /\ cachedPos' = cachedPos + 1 /\ calls' = calls
    BY <1>4 DEF CachingLex
  <2>2. x \in Token
    <3>1. cachedPos + 1 \in 1..Len(cached)
      BY <1>2, <1>4
    <3>2. QED  BY <1>2, <3>1
  <2> HIDE DEF x
  <2>3. ReadSoFar' = Append(ReadSoFar, x)
    <3>1. ReadSoFar' = read \o <<x>>
      BY <1>1, <2>1, <2>2, NoneIsNoToken, ReadIsNext DEF Pending
    <3>2. QED  BY <1>3, <2>2, <3>1, AppendIsConcat
  <2>4. Agree(cached, cached', cachedPos)
    BY <1>1, <1>2 DEF Agree
  <2>5. CASE isBacktrackEnabled(backtrack)
    BY <1>1, <1>2, <1>3, <1>4, <2>1, <2>3, <2>4, <2>5, ReadNext DEF x
  <2>6. CASE ~isBacktrackEnabled(backtrack)
    BY <1>1, <2>6, NoMarksMatch DEF isBacktrackEnabled
  <2>7. QED  BY <2>5, <2>6
<1>5. CASE ~(cachedPos < Len(cached))
  <2>1. calls' = Append(calls, Calling("CachingLex")) /\ UNCHANGED <<ret, cachedPos>>
    BY <1>5 DEF CachingLex
  <2>2. Len(calls') = 2
    BY <1>1, <2>1, CallTyped, TwoCalls
  <2>3. ReadSoFar' = ReadSoFar
    BY <1>1, <1>3, <2>2, ReadIsNext
  <2>4. QED  BY <1>1, <2>1, <2>3, MarksMatchSame
<1>6. QED  BY <1>4, <1>5

(* The token it was asked for is cached for the marks and goes to the parser.  *)
LEMMA CachingLexReturnsMatches ==
  ASSUME IInv, IInv', MarksMatch, CachingLexReturns
  PROVE  MarksMatch'
<1>1. /\ ~Idle /\ ret \in Token /\ calls \in Seq(Call) /\ Len(calls) = 2
      /\ Front(calls) \in Seq(Call) /\ Len(Front(calls)) = 1
      /\ calls' = Front(calls) /\ UNCHANGED <<backtrack, ret, read, saved>>
  <2>1. Returns("CachingLex") /\ calls' = Front(calls) /\ UNCHANGED <<backtrack, ret, read, saved>>
    BY DEF CachingLexReturns
  <2>2. /\ ~Idle /\ ret \in Token /\ calls \in Seq(Call) /\ Len(calls) = 2
        /\ Len(Front(calls)) = Len(calls) - 1 /\ Front(calls) \in Seq(Call)
    BY <2>1, Returning
  <2>3. QED  BY <2>1, <2>2
<1>2. calls'[1].fn = "ConsumeToken" /\ cachedPos = Len(cached)
  <2>1. Front(calls)[1] = calls[1]
    BY <1>1, Returning DEF CachingLexReturns
  <2>2. QED  BY <1>1, <2>1 DEF IInv, Modes
<1>3. cached \in Seq(Token) /\ cachedPos \in Nat /\ cachedPos <= Len(cached)
  BY CursorBehindMark
<1>4. read \in Seq(Token) /\ ReadSoFar = read
  BY <1>1, ReadIs DEF IInv, TypeOK
<1>5. ReadSoFar' = Append(ReadSoFar, ret)
  <2>1. ReadSoFar' = read \o <<ret>>
    BY <1>1, <1>2, NoneIsNoToken, ReadIsNext DEF Pending
  <2>2. QED  BY <1>1, <1>4, <2>1, AppendIsConcat
<1>6. CASE isBacktrackEnabled(backtrack)
  <2>1. cached' = Append(cached, ret) /\ cachedPos' = cachedPos + 1
    BY <1>6 DEF CachingLexReturns
  <2>2. Agree(cached, cached', cachedPos) /\ cached' \in Seq(Token)
    BY <1>1, <1>3, <2>1, AgreeAppend
  <2>3. Len(cached') = cachedPos + 1 /\ cached'[cachedPos + 1] = ret /\ cachedPos < Len(cached')
    <3>1. Len(cached') = Len(cached) + 1 /\ cached'[Len(cached) + 1] = ret
      BY <1>1, <1>3, <2>1, AppendProperties
    <3>2. QED  BY <1>2, <1>3, <3>1
  <2>4. QED  BY <1>1, <1>4, <1>5, <1>6, <2>1, <2>2, <2>3, ReadNext
<1>7. CASE ~isBacktrackEnabled(backtrack)
  BY <1>1, <1>7, NoMarksMatch DEF isBacktrackEnabled
<1>8. QED  BY <1>6, <1>7

(* What the parser has entered is behind the cursor.                        *)
LEMMA EnterTokenMatches == ASSUME IInv, IInv', MarksMatch, EnterToken PROVE MarksMatch'
<1>1. /\ Idle /\ Idle' /\ read \in Seq(Token) /\ read # <<>>
      /\ cached' = Entered(Tok) /\ read' = Append(read, <<>>)
      /\ UNCHANGED <<cachedPos, backtrack, saved>>
  BY DEF IInv, TypeOK, EnterToken, Idle
<1>2. Tok \in Token
  BY <1>1, FrontFields DEF Tok
<1>3. /\ cached \in Seq(Token) /\ cachedPos \in Nat /\ cachedPos <= Len(cached)
  BY CursorBehindMark
<1>4. Agree(cached, cached', cachedPos) /\ cached' \in Seq(Token)
  BY <1>1, <1>2, <1>3, EnteredAhead DEF Agree
<1>5. ReadSoFar = read /\ ReadSoFar' = Append(read, <<>>)
  BY <1>1, ReadIdle
<1>6. ASSUME NEW a \in Seq(Base), NEW b \in Nat
      PROVE  Matches(cached, a, b, ReadSoFar, cachedPos) => Matches(cached', a, b, ReadSoFar', cachedPos')
  <2>1. Matches(cached, a, b, read, cachedPos) => Matches(cached', a, b, read, cachedPos)
    BY <1>3, <1>4, MatchCopy, Zenon
  <2>2. cachedPos <= Len(cached')
    BY <1>4 DEF Agree
  <2>3. Matches(cached', a, b, read, cachedPos) => Matches(cached', a, b, Append(read, <<>>), cachedPos)
    BY <1>1, <1>3, <1>4, <2>2, MatchInvented
  <2>4. QED  BY <1>1, <1>5, <2>1, <2>3
<1>7. ASSUME isBacktrackEnabled(backtrack) PROVE Agree(cached, cached', Last(backtrack))
  <2>1. Last(backtrack) <= cachedPos /\ Last(backtrack) \in Nat
    BY <1>7, CursorBehindMark
  <2>2. QED  BY <1>3, <1>4, <2>1, AgreeLess
<1>8. QED  BY <1>1, <1>4, <1>6, <1>7, MarksMatchStep

(* A name is annotated.                                                     *)
LEMMA AnnotateNameMatches ==
  ASSUME IInv, IInv', MarksMatch, NEW j \in 1..Len(read), AnnotateName(j)
  PROVE  MarksMatch'
<1>1. /\ Idle /\ Idle' /\ read \in Seq(Token) /\ j \in Nat /\ j >= 1 /\ CanCover(read, j)
      /\ AnnotateCachedTokens(cachedPos, Covered(read, j)) /\ read' = Covering(read, j)
      /\ UNCHANGED <<backtrack, saved>>
  BY DEF IInv, TypeOK, AnnotateName, Idle
<1>2. ReadSoFar = read /\ ReadSoFar' = Covering(read, j)
  BY <1>1, ReadIdle
<1>3. CASE isBacktrackEnabled(backtrack)
  <2>1. /\ cached \in Seq(Token) /\ cachedPos \in Nat /\ cachedPos <= Len(cached)
        /\ backtrack \in Seq(Nat) /\ Last(backtrack) <= cachedPos
    BY <1>3, CursorBehindMark
  <2>2. /\ Agree(cached, cached', Last(backtrack)) /\ cached' \in Seq(Token)
        /\ \A a \in Seq(Base), b \in Nat : b <= Last(backtrack) =>
              (Matches(cached, a, b, read, cachedPos)
               => Matches(cached', a, b, Covering(read, j), cachedPos'))
    BY <1>1, <1>3, <2>1, AnnotationMatches
  <2>3. QED  BY <1>1, <1>2, <2>2, MarksMatchStep
<1>4. CASE ~isBacktrackEnabled(backtrack)
  BY <1>1, <1>4, NoMarksMatch DEF isBacktrackEnabled
<1>5. QED  BY <1>3, <1>4

(* Tok is taken back, and a scope is annotated.                             *)
LEMMA AnnotateScopeMatches ==
  ASSUME IInv, IInv', MarksMatch, NEW j \in 1..Len(read), NEW isNew \in BOOLEAN,
         AnnotateScopeToken(j, isNew)
  PROVE  MarksMatch'
<1> DEFINE r == Front(read)
<1>1. /\ Idle /\ Idle' /\ read \in Seq(Token) /\ read # <<>> /\ Tok # <<>> /\ j \in Nat /\ j >= 1
      /\ CanCover(r, j) /\ j <= Len(r) /\ read' = Covering(r, j)
      /\ UNCHANGED <<backtrack, saved>>
  BY DEF IInv, TypeOK, AnnotateScopeToken, CanCover, Idle
<1>2. r \in Seq(Token) /\ Tok \in Token
  BY <1>1, FrontFields DEF Tok
<1>3. ReadSoFar = read /\ ReadSoFar' = Covering(r, j)
  BY <1>1, ReadIdle
<1> HIDE DEF r
<1>4. CASE isBacktrackEnabled(backtrack)
  <2> DEFINE pos == cachedPos - 1
  <2>1. /\ cachedPos > Last(backtrack) /\ cached[cachedPos] = Tok
        /\ IF isNew THEN AnnotateCachedTokens(pos, Covered(r, j))
           ELSE cached' = cached /\ cachedPos' = pos
    BY <1>4 DEF AnnotateScopeToken, r
  <2>2. /\ cached \in Seq(Token) /\ cachedPos \in Nat /\ cachedPos <= Len(cached)
        /\ Len(cached) \in Nat /\ backtrack \in Seq(Nat) /\ Last(backtrack) \in Nat
    BY <1>4, CursorBehindMark
  <2>3. /\ pos \in Nat /\ pos < Len(cached) /\ pos <= Len(cached) /\ Last(backtrack) <= pos
        /\ pos + 1 = cachedPos
    BY <2>1, <2>2
  <2> HIDE DEF pos
  <2>4. ASSUME NEW a \in Seq(Base), NEW b \in Nat, b <= Last(backtrack)
        PROVE  Matches(cached, a, b, read, cachedPos) => Matches(cached, a, b, r, pos)
    <3>1. b <= pos
      BY <2>2, <2>3, <2>4
    <3>2. Last(read) = cached[pos + 1] /\ Last(read) # <<>>
      BY <1>1, <2>1, <2>3 DEF Tok
    <3>3. Matches(cached, a, b, read, pos + 1) => Matches(cached, a, b, Front(read), pos)
      BY <1>1, <2>2, <2>3, <3>1, <3>2, MatchRevert
    <3>4. QED  BY <2>3, <3>3 DEF r
  <2>5. CASE isNew
    <3>1. AnnotateCachedTokens(pos, Covered(r, j))
      BY <2>1, <2>5
    <3>2. /\ Agree(cached, cached', Last(backtrack)) /\ cached' \in Seq(Token)
          /\ \A a \in Seq(Base), b \in Nat : b <= Last(backtrack) =>
                (Matches(cached, a, b, r, pos)
                 => Matches(cached', a, b, Covering(r, j), cachedPos'))
      BY <1>1, <1>2, <1>4, <2>2, <2>3, <3>1, AnnotationMatches
    <3>3. QED  BY <1>1, <1>3, <2>4, <3>2, MarksMatchStep
  <2>6. CASE ~isNew
    <3>1. cached' = cached /\ cachedPos' = pos
      BY <2>1, <2>6
    <3>2. Agree(cached, cached', Last(backtrack))
      <4>1. Last(backtrack) <= Len(cached)
        BY <2>2, <2>3
      <4>2. QED  BY <3>1, <4>1 DEF Agree
    <3>3. ASSUME NEW a \in Seq(Base), NEW b \in Nat
          PROVE  Matches(cached, a, b, r, pos) => Matches(cached, a, b, Covering(r, j), pos)
      BY <1>1, <1>2, <2>2, <2>3, MatchCoarser
    <3>4. QED  BY <1>1, <1>3, <2>2, <2>4, <3>1, <3>2, <3>3, MarksMatchStep
  <2>7. QED  BY <2>5, <2>6
<1>5. CASE ~isBacktrackEnabled(backtrack)
  BY <1>1, <1>5, NoMarksMatch DEF isBacktrackEnabled
<1>6. QED  BY <1>4, <1>5

(* At a new mark, what has been read so far is what had been read there.      *)
LEMMA EnableBacktrackMatches ==
  ASSUME IInv, IInv', MarksMatch, EnableBacktrackAtThisPos
  PROVE  MarksMatch'
<1> DEFINE n == Len(backtrack)
           b == Append(backtrack, cachedPos)
           s == Append(saved, read)
<1>1. /\ Idle /\ Idle' /\ backtrack' = b /\ saved' = s
      /\ UNCHANGED <<cached, cachedPos, read>>
  BY DEF EnableBacktrackAtThisPos, Idle
<1>2. ReadSoFar' = read /\ ReadSoFar = read
  BY <1>1, ReadIdle
<1>3. /\ cached \in Seq(Token) /\ cachedPos \in Nat /\ read \in Seq(Token)
      /\ saved \in Seq(Seq(Token)) /\ backtrack \in Seq(Nat) /\ Len(saved) = n /\ n \in Nat
  BY CursorBehindMark DEF IInv, TypeOK, Paired
<1>4. /\ Len(b) = n + 1 /\ b[n + 1] = cachedPos /\ \A i \in 1..n : b[i] = backtrack[i]
      /\ s[n + 1] = read /\ \A i \in 1..n : s[i] = saved[i]
  BY <1>3, AppendProperties
<1> HIDE DEF b, s
<1>5. ASSUME NEW k \in 1..n + 1
      PROVE  /\ Matches(cached, FlattenSeq(s[k]), b[k], read, cachedPos)
             /\ \A j \in k..n + 1 : Matches(cached, FlattenSeq(s[k]), b[k], s[j], b[j])
  <2>1. CASE k = n + 1
    <3>1. Matches(cached, FlattenSeq(read), cachedPos, read, cachedPos)
      BY <1>3, MatchSelf
    <3>2. ASSUME NEW j \in k..n + 1 PROVE j = n + 1
      BY <1>3, <2>1
    <3>3. QED  BY <1>4, <2>1, <3>1, <3>2
  <2>2. CASE k # n + 1
    <3>1. k \in 1..n
      BY <1>3, <2>2
    <3>2. s[k] = saved[k] /\ b[k] = backtrack[k]
      BY <1>4, <3>1
    <3>3. /\ Matches(cached, FlattenSeq(s[k]), b[k], read, cachedPos)
          /\ \A j \in k..n : Matches(cached, FlattenSeq(s[k]), b[k], saved[j], backtrack[j])
      BY <1>2, <3>1, <3>2 DEF MarksMatch
    <3>4. ASSUME NEW j \in k..n + 1 PROVE Matches(cached, FlattenSeq(s[k]), b[k], s[j], b[j])
      <4>1. CASE j = n + 1
        BY <1>4, <3>3, <4>1
      <4>2. CASE j # n + 1
        <5>1. j \in k..n /\ j \in 1..n
          <6> HIDE DEF n
          <6>1. QED  BY <1>3, <3>1, <4>2
        <5>2. QED  BY <1>4, <3>3, <5>1
      <4>3. QED  BY <4>1, <4>2
    <3>5. QED  BY <3>3, <3>4
  <2>3. QED  BY <2>1, <2>2
<1> HIDE DEF n
<1>6. QED  BY <1>1, <1>2, <1>4, <1>5 DEF MarksMatch

(* The innermost mark goes, and the cursor may go back to it.                *)
LEMMA FewerMarksMatch ==
  ASSUME IInv, MarksMatch, isBacktrackEnabled(backtrack), cached' = cached,
         backtrack' = Front(backtrack), saved' = Front(saved),
         \/ cachedPos' = cachedPos /\ ReadSoFar' = ReadSoFar
         \/ cachedPos' = Last(backtrack) /\ ReadSoFar' = Last(saved)
  PROVE  MarksMatch'
<1> DEFINE n == Len(backtrack)
           b == Front(backtrack)
           s == Front(saved)
<1>1. /\ saved \in Seq(Seq(Token)) /\ backtrack \in Seq(Nat) /\ Len(saved) = n /\ n \in Nat
      /\ backtrack # <<>> /\ n >= 1 /\ saved # <<>>
  <2>1. /\ saved \in Seq(Seq(Token)) /\ backtrack \in Seq(Nat) /\ Len(saved) = n
        /\ backtrack # <<>>
    BY DEF IInv, TypeOK, Paired, isBacktrackEnabled
  <2>2. n \in Nat /\ n >= 1
    BY <2>1, FrontFields
  <2> HIDE DEF n
  <2>3. saved # <<>>
    BY <2>1, <2>2
  <2>4. QED  BY <2>1, <2>2, <2>3
<1>2. Len(b) = n - 1 /\ \A i \in 1..n - 1 : b[i] = backtrack[i]
  BY <1>1, FrontFields
<1>3. Len(s) = n - 1 /\ \A i \in 1..n - 1 : s[i] = saved[i]
  <2>1. Len(s) = Len(saved) - 1 /\ \A i \in 1..Len(saved) - 1 : s[i] = saved[i]
    BY <1>1, FrontFields
  <2>2. QED  BY <1>1, <2>1
<1>4. Last(backtrack) = backtrack[n] /\ Last(saved) = saved[n]
  BY <1>1 DEF Last
<1> HIDE DEF b, s
<1>5. ASSUME NEW k \in 1..n - 1
      PROVE  /\ Matches(cached, FlattenSeq(s[k]), b[k], ReadSoFar', cachedPos')
             /\ \A j \in k..n - 1 : Matches(cached, FlattenSeq(s[k]), b[k], s[j], b[j])
  <2>1. k \in 1..n /\ n \in k..n
    BY <1>1
  <2>2. s[k] = saved[k] /\ b[k] = backtrack[k]
    BY <1>2, <1>3
  <2>3. /\ Matches(cached, FlattenSeq(s[k]), b[k], ReadSoFar, cachedPos)
        /\ \A j \in k..n : Matches(cached, FlattenSeq(s[k]), b[k], saved[j], backtrack[j])
    BY <2>1, <2>2 DEF MarksMatch
  <2>4. Matches(cached, FlattenSeq(s[k]), b[k], ReadSoFar', cachedPos')
    <3>1. Matches(cached, FlattenSeq(s[k]), b[k], saved[n], backtrack[n])
      BY <2>1, <2>3
    <3>2. QED  BY <1>4, <2>3, <3>1
  <2>5. ASSUME NEW j \in k..n - 1 PROVE Matches(cached, FlattenSeq(s[k]), b[k], s[j], b[j])
    <3>1. j \in k..n /\ j \in 1..n - 1
      BY <1>1
    <3>2. QED  BY <1>2, <1>3, <2>3, <3>1
  <2>6. QED  BY <2>4, <2>5
<1> HIDE DEF n
<1>6. backtrack' = b /\ saved' = s /\ Len(b) = n - 1 /\ cached' = cached
  BY <1>2 DEF b, s
<1>7. QED  BY <1>5, <1>6 DEF MarksMatch

(* A mark that is taken away leaves the others matching.                   *)
LEMMA CommitMatches ==
  ASSUME IInv, IInv', MarksMatch, CommitBacktrackedTokens
  PROVE  MarksMatch'
<1>1. /\ Idle /\ Idle' /\ isBacktrackEnabled(backtrack)
      /\ backtrack' = Front(backtrack) /\ saved' = Front(saved)
      /\ UNCHANGED <<cached, cachedPos, read>>
  BY DEF CommitBacktrackedTokens, Idle
<1>2. ReadSoFar' = ReadSoFar
  BY <1>1, ReadIdle
<1>3. QED  BY <1>1, <1>2, FewerMarksMatch

(* Going back to the innermost mark leaves the others matching.            *)
LEMMA BacktrackMatches ==
  ASSUME IInv, IInv', MarksMatch, Backtrack
  PROVE  MarksMatch'
<1>1. /\ Idle /\ Idle' /\ isBacktrackEnabled(backtrack) /\ cached' = cached
      /\ backtrack' = Front(backtrack) /\ saved' = Front(saved)
      /\ cachedPos' = Last(backtrack) /\ read' = Last(saved)
  BY DEF Backtrack, Idle
<1>2. ReadSoFar' = Last(saved)
  BY <1>1, ReadIdle
<1>3. QED  BY <1>1, <1>2, FewerMarksMatch

(* Every step keeps what is read again what has been read.                   *)
LEMMA NextMatches ==
  ASSUME ~StreamsWhileCaching, IInv, IInv', MarksMatch, [Next]_vars
  PROVE  MarksMatch'
<1>1. CASE ConsumeToken
  BY <1>1, ConsumeTokenMatches
<1>2. ASSUME NEW n \in 0..MaxPeek, LookAhead(n) PROVE MarksMatch'
  BY <1>2, LookAheadMatches
<1>3. CASE EnableBacktrackAtThisPos
  BY <1>3, EnableBacktrackMatches
<1>4. CASE CommitBacktrackedTokens
  BY <1>4, CommitMatches
<1>5. CASE Backtrack
  BY <1>5, BacktrackMatches
<1>6. ASSUME NEW j \in 1..Len(read), AnnotateName(j) PROVE MarksMatch'
  BY <1>6, AnnotateNameMatches
<1>7. ASSUME NEW j \in 1..Len(read), NEW isNew \in BOOLEAN, AnnotateScopeToken(j, isNew)
      PROVE  MarksMatch'
  BY <1>7, AnnotateScopeMatches
<1>8. CASE EnterToken
  BY <1>8, EnterTokenMatches
<1>9. ASSUME NEW s \in Streams, EnterTokenStream(s) PROVE MarksMatch'
  <2>1. Empty /\ backtrack' = backtrack
    BY <1>9, EnterTokenStreamUpcoming DEF EnterTokenStream
  <2>2. QED  BY <2>1, NoMarksMatch DEF Empty
<1>10. CASE CachingLex
  BY <1>10, CachingLexMatches
<1>11. CASE Lex
  BY <1>11, LexMatches
<1>12. CASE EnterMacro
  BY <1>12, LexersMatch DEF EnterMacro
<1>13. CASE HandleEndOfTokenLexer
  BY <1>13, LexersMatch DEF HandleEndOfTokenLexer
<1>14. CASE CachingLexReturns
  BY <1>14, CachingLexReturnsMatches
<1>15. CASE ConsumeTokenReturns
  BY <1>15, ConsumeTokenReturnsMatches
<1>16. CASE PeekAheadReturns
  BY <1>16, PeekAheadReturnsMatches
<1>17. CASE Finished \/ UNCHANGED vars
  <2>1. UNCHANGED <<cached, cachedPos, backtrack, calls, ret, read, saved>>
    BY <1>17 DEF Finished, vars
  <2>2. QED  BY <2>1, LexersMatch
<1>18. QED
  BY <1>1, <1>2, <1>3, <1>4, <1>5, <1>6, <1>7, <1>8, <1>9, <1>10, <1>11, <1>12,
     <1>13, <1>14, <1>15, <1>16, <1>17 DEF Next

-----------------------------------------------------------------------------
(* The text is what has been read and what comes next                       *)

(* The slot that a look ahead is to fill is empty.                          *)
SlotEmpty == Peeking => Last(cached) = <<>>

TextRead == Text = FlattenSeq(read) \o FlattenSeq(Upcoming)

(* What is ahead of the cursor when the last slot holds x.                   *)
LEMMA SlotFilled ==
  ASSUME NEW c \in Seq(Token), NEW pos \in Nat, pos < Len(c), NEW x \in Token
  PROVE  /\ After([c EXCEPT ![Len(c)] = x], pos) = BeforeSlot(c, pos) \o <<x>>
         /\ After(c, pos) = BeforeSlot(c, pos) \o <<Last(c)>>
         /\ BeforeSlot(c, pos) \in Seq(Token) /\ Last(c) \in Token
<1> DEFINE n == Len(c) - 1
           d == [c EXCEPT ![Len(c)] = x]
<1>1. n \in Nat /\ n + 1 = Len(c) /\ pos <= n /\ n + 1 \in 1..Len(c) /\ n < Len(c)
  <2>1. Len(c) \in Nat
    BY LenProperties
  <2>2. QED  BY <2>1
<1>2. BeforeSlot(c, pos) = SubSeq(c, pos + 1, n)
  BY DEF BeforeSlot
<1> HIDE DEF n
<1>3. /\ SubSeq(c, pos + 1, n + 1) = Append(SubSeq(c, pos + 1, n), c[n + 1])
      /\ SubSeq(c, pos + 1, n) \in Seq(Token) /\ c[n + 1] \in Token
  BY <1>1, LastOfPart
<1>4. /\ d \in Seq(Token) /\ Len(d) = n + 1 /\ d[n + 1] = x
      /\ \A i \in 1..n : d[i] = c[i]
  <2>1. /\ d \in Seq(Token) /\ Len(d) = Len(c)
        /\ \A i \in 1..Len(c) : d[i] = IF i = Len(c) THEN x ELSE c[i]
    BY <1>1, ExceptSeq
  <2> HIDE DEF d
  <2>2. ASSUME NEW i \in 1..n PROVE i \in 1..Len(c) /\ i # n + 1
    BY <1>1
  <2>3. QED  BY <1>1, <2>1, <2>2
<1> HIDE DEF d
<1>5. SubSeq(d, pos + 1, n) = SubSeq(c, pos + 1, n)
  <2>1. n <= Len(d) /\ n <= Len(c) /\ n <= n
    BY <1>1, <1>4
  <2>2. QED  BY <1>1, <1>4, <2>1, PartsAgree
<1>6. /\ SubSeq(d, pos + 1, n + 1) = Append(SubSeq(d, pos + 1, n), d[n + 1])
  <2>1. n < Len(d)
    BY <1>1, <1>4
  <2>2. QED  BY <1>1, <1>4, <2>1, LastOfPart
<1> DEFINE A == BeforeSlot(c, pos)
<1>7. After(d, pos) = Append(A, x) /\ After(c, pos) = Append(A, Last(c)) /\ A \in Seq(Token)
      /\ Last(c) \in Token
  BY <1>1, <1>2, <1>3, <1>4, <1>5, <1>6 DEF After, Last
<1> HIDE DEF A
<1>8. Append(A, x) = A \o <<x>> /\ Append(A, Last(c)) = A \o <<Last(c)>>
  BY <1>7, AppendIsConcat
<1>9. QED  BY <1>7, <1>8 DEF A, d

(* The text of tokens put end to end, whichever comes first.                 *)
LEMMA TextThree ==
  \A a, b \in Seq(Token), x \in Token :
    /\ FlattenSeq(a \o (<<x>> \o b)) = FlattenSeq((a \o <<x>>) \o b)
    /\ FlattenSeq(<<x>> \o b) = x \o FlattenSeq(b)
<1> TAKE a, b \in Seq(Token), x \in Token
<1>1. <<x>> \in Seq(Token)
  OBVIOUS
<1>2. a \o (<<x>> \o b) = (a \o <<x>>) \o b
  BY <1>1, Concatenates
<1>3. FlattenSeq(<<x>> \o b) = FlattenSeq(<<x>>) \o FlattenSeq(b) /\ FlattenSeq(<<x>>) = x
  BY <1>1, TextOf
<1>4. QED  BY <1>2, <1>3

(* An empty token is no text.                                               *)
LEMMA TextEmpty ==
  \A a, b \in Seq(Token) : FlattenSeq((a \o <<<<>>>>) \o b) = FlattenSeq(a \o b)
<1> TAKE a, b \in Seq(Token)
<1> DEFINE x == <<>>
<1>1. x \in Token /\ <<x>> \in Seq(Token)
  BY EmptySeq DEF Token
<1> HIDE DEF x
<1>2. FlattenSeq(a \o (<<x>> \o b)) = FlattenSeq((a \o <<x>>) \o b)
  BY <1>1, TextThree
<1>3. FlattenSeq(a \o (<<x>> \o b)) = FlattenSeq(a) \o FlattenSeq(<<x>> \o b)
  <2>1. <<x>> \o b \in Seq(Token)
    BY <1>1, Concatenates
  <2>2. QED  BY <2>1, TextOf
<1>4. FlattenSeq(<<x>> \o b) = x \o FlattenSeq(b)
  BY <1>1, TextThree
<1>5. x \o FlattenSeq(b) = FlattenSeq(b)
  <2>1. FlattenSeq(b) \in Seq(Base)
    BY TextOf
  <2>2. QED  BY <2>1, TextsJoin DEF x
<1>6. FlattenSeq(a \o b) = FlattenSeq(a) \o FlattenSeq(b)
  BY TextOf
<1>7. FlattenSeq((a \o <<x>>) \o b) = FlattenSeq(a \o b)
  BY <1>2, <1>3, <1>4, <1>5, <1>6
<1>8. QED  BY <1>7 DEF x

(* So the text is one: what has been read, and what comes next.              *)
LEMMA TextIs == IInv /\ SlotEmpty => TextRead
<1> SUFFICES ASSUME IInv, SlotEmpty PROVE TextRead
  OBVIOUS
<1> DEFINE R == FlattenSeq(read)
           A == After(cached, cachedPos)
           S == BeforeSlot(cached, cachedPos)
           L == ToLex(lexers)
<1>1. R \in Seq(Base) /\ ret \in Token \cup {None} /\ read \in Seq(Token)
  BY TextOf DEF IInv, TypeOK
<1>2. A \in Seq(Token) /\ L \in Seq(Token) /\ Uncached = L
  BY TokensTyped, UncachedIs DEF Tokens
<1>3. /\ cached \in Seq(Token) /\ cachedPos \in Nat
  BY CursorBehindMark
<1>4. CASE ~Peeking
  <2>1. Text = R \o (IF ret = None THEN <<>> ELSE ret) \o FlattenSeq(A \o L)
    BY <1>2, <1>4 DEF Text, After
  <2>2. Upcoming = Pending \o (A \o L)
    BY <1>4 DEF Upcoming
  <2> HIDE DEF R, A, L
  <2>3. A \o L \in Seq(Token) /\ FlattenSeq(A \o L) \in Seq(Base)
    BY <1>2, Concatenates, TextOf
  <2>4. CASE ret = None
    <3>1. Text = R \o <<>> \o FlattenSeq(A \o L) /\ Upcoming = <<>> \o (A \o L)
      BY <2>1, <2>2, <2>4 DEF Pending
    <3>2. R \o <<>> = R
      BY <1>1, TextsJoin
    <3>3. <<>> \o (A \o L) = A \o L
      BY <2>3, Concatenates
    <3>4. QED  BY <3>1, <3>2, <3>3 DEF TextRead, R
  <2>5. CASE ret # None
    <3>1. Text = R \o ret \o FlattenSeq(A \o L) /\ Upcoming = <<ret>> \o (A \o L) /\ ret \in Token
      BY <1>1, <2>1, <2>2, <2>5 DEF Pending
    <3>2. FlattenSeq(Upcoming) = ret \o FlattenSeq(A \o L)
      BY <2>3, <3>1, TextThree
    <3>3. ret \in Seq(Base)
      BY <3>1, TextOf
    <3>4. (R \o ret) \o FlattenSeq(A \o L) = R \o (ret \o FlattenSeq(A \o L))
      BY <1>1, <2>3, <3>3, TextsJoin
    <3>5. QED  BY <3>1, <3>2, <3>4 DEF TextRead, R
  <2>6. QED  BY <2>4, <2>5
<1>5. CASE Peeking
  <2>1. cachedPos < Len(cached) /\ calls[1].slot = Len(cached) /\ Last(cached) = <<>>
    BY <1>5, WaitingCalls DEF SlotEmpty
  <2>2. /\ A = S \o <<Last(cached)>> /\ S \in Seq(Token)
        /\ \A x \in Token : After([cached EXCEPT ![Len(cached)] = x], cachedPos) = S \o <<x>>
    <3>1. ASSUME NEW x \in Token
          PROVE  /\ After([cached EXCEPT ![Len(cached)] = x], cachedPos) = S \o <<x>>
                 /\ A = S \o <<Last(cached)>> /\ S \in Seq(Token)
      BY <1>3, <2>1, SlotFilled
    <3>2. <<>> \in Token
      BY EmptySeq DEF Token
    <3> HIDE DEF A, S
    <3>3. QED  BY <3>1, <3>2
  <2>3. Upcoming = S \o (Pending \o L)
    BY <1>5 DEF Upcoming
  <2>4. CASE ret = None
    <3>1. Text = R \o <<>> \o FlattenSeq(A \o L)
      BY <1>2, <1>5, <2>4 DEF Text, After
    <3> HIDE DEF R, A, L, S
    <3>2. R \o <<>> = R
      BY <1>1, TextsJoin
    <3>3. FlattenSeq(A \o L) = FlattenSeq(S \o L)
      BY <1>2, <2>1, <2>2, TextEmpty
    <3>4. Upcoming = S \o (<<>> \o L)
      BY <2>3, <2>4 DEF Pending
    <3>5. <<>> \o L = L
      BY <1>2, Concatenates
    <3>6. QED  BY <3>1, <3>2, <3>3, <3>4, <3>5 DEF TextRead, R
  <2>5. CASE ret # None
    <3> DEFINE d == [cached EXCEPT ![Len(cached)] = ret]
    <3>1. [cached EXCEPT ![calls[1].slot] = ret] = d
      BY <2>1
    <3>2. Text = R \o <<>> \o FlattenSeq(After(d, cachedPos) \o L)
      BY <1>2, <1>5, <2>5, <3>1 DEF Text, After
    <3>3. ret \in Token
      BY <1>1, <2>5
    <3>4. After(d, cachedPos) = S \o <<ret>>
      BY <2>2, <3>3
    <3> HIDE DEF R, A, L, S, d
    <3>5. R \o <<>> = R
      BY <1>1, TextsJoin
    <3>6. Upcoming = S \o (<<ret>> \o L)
      BY <2>3, <2>5 DEF Pending
    <3>7. FlattenSeq(Upcoming) = FlattenSeq((S \o <<ret>>) \o L)
      BY <1>2, <2>2, <3>3, <3>6, TextThree
    <3>8. QED  BY <3>2, <3>4, <3>5, <3>7 DEF TextRead, R
  <2>6. QED  BY <2>4, <2>5
<1>6. QED  BY <1>4, <1>5

(* It is so after a step too.                                               *)
LEMMA TextIsNext == IInv' /\ SlotEmpty' => TextRead'
BY TextIs, PTL

(* A slot that is appended is the last.                                     *)
LEMMA LastAppended ==
  ASSUME NEW c \in Seq(Token), NEW x \in Token
  PROVE  Last(Append(c, x)) = x
<1>1. Len(Append(c, x)) = Len(c) + 1 /\ Append(c, x)[Len(c) + 1] = x
  BY AppendProperties
<1>2. QED  BY <1>1 DEF Last

(* Only a look ahead makes a slot, and it is empty until the token is there.  *)
LEMMA NextSlots ==
  ASSUME IInv, IInv', SlotEmpty, [Next]_vars
  PROVE  SlotEmpty'
<1>0. cached \in Seq(Token) /\ <<>> \in Token
  BY CursorBehindMark, EmptySeq DEF Token
<1>1. ASSUME calls' = <<>> \/ calls' = <<Calling("ConsumeToken")>> PROVE SlotEmpty'
  BY <1>1, ConsumingLooksNot DEF SlotEmpty
<1>2. ASSUME calls' = calls, cached' = cached PROVE SlotEmpty'
  BY <1>2 DEF SlotEmpty, Peeking, Idle
<1>3. CASE ConsumeToken \/ \E s \in Streams : EnterTokenStream(s)
  BY <1>1, <1>3 DEF ConsumeToken, EnterTokenStream
<1>4. ASSUME NEW n \in 0..MaxPeek, LookAhead(n) PROVE SlotEmpty'
  <2>1. CASE n < Len(Ahead)
    BY <1>2, <1>4, <2>1 DEF LookAhead
  <2>2. CASE ~(n < Len(Ahead))
    <3>1. cached' = Append(cached, <<>>)
      BY <1>4, <2>2 DEF LookAhead
    <3>2. QED  BY <1>0, <3>1, LastAppended DEF SlotEmpty
  <2>3. QED  BY <2>1, <2>2
<1>5. CASE EnableBacktrackAtThisPos \/ CommitBacktrackedTokens \/ Backtrack \/ EnterToken
  <2>1. calls' = calls /\ Idle
    BY <1>5 DEF EnableBacktrackAtThisPos, CommitBacktrackedTokens, Backtrack, EnterToken
  <2>2. QED  BY <1>1, <2>1 DEF Idle
<1>6. ASSUME NEW j \in 1..Len(read),
             AnnotateName(j) \/ \E isNew \in BOOLEAN : AnnotateScopeToken(j, isNew)
      PROVE  SlotEmpty'
  <2>1. calls' = calls /\ Idle
    BY <1>6 DEF AnnotateName, AnnotateScopeToken
  <2>2. QED  BY <1>1, <2>1 DEF Idle
<1>7. CASE CachingLex
  <2>1. /\ calls \in Seq(Call) /\ Len(calls) = 1 /\ calls[1].fn = "ConsumeToken"
    BY <1>7, Waiting DEF CachingLex, Waits, Idle
  <2>2. CASE calls' = calls
    BY <2>1, <2>2 DEF SlotEmpty, Peeking
  <2>3. CASE calls' = Append(calls, Calling("CachingLex"))
    BY <2>1, <2>3, CallTyped, TwoCalls DEF SlotEmpty, Peeking
  <2>4. QED  BY <1>7, <2>2, <2>3 DEF CachingLex
<1>8. CASE Lex \/ EnterMacro \/ HandleEndOfTokenLexer \/ Finished \/ UNCHANGED vars
  BY <1>2, <1>8 DEF Lex, EnterMacro, HandleEndOfTokenLexer, Finished, vars
<1>9. CASE CachingLexReturns
  <2>1. calls' = Front(calls) /\ Returns("CachingLex")
    BY <1>9 DEF CachingLexReturns
  <2>2. Len(calls) = 2 /\ Front(calls)[1] = calls[1]
    BY <2>1, Returning
  <2>3. calls'[1].fn = "ConsumeToken"
    BY <2>1, <2>2 DEF IInv, Modes
  <2>4. QED  BY <2>3 DEF SlotEmpty, Peeking
<1>10. CASE ConsumeTokenReturns
  <2>1. /\ Len(calls) = 1 /\ Front(calls) \in Seq(Call) /\ Len(Front(calls)) = Len(calls) - 1
        /\ calls' = Front(calls)
    BY <1>10, Returning DEF ConsumeTokenReturns
  <2>2. Idle'
    BY <2>1 DEF Idle
  <2>3. QED  BY <2>2 DEF SlotEmpty, Peeking
<1>11. CASE PeekAheadReturns
  <2> DEFINE call == Last(calls)
             stored == [cached EXCEPT ![call.slot] = ret]
  <2>1. /\ Len(calls) = 1 /\ ret \in Token /\ call.fn = "PeekAhead" /\ call = calls[1]
        /\ Front(calls) \in Seq(Call) /\ Len(Front(calls)) = Len(calls) - 1
    BY <1>11, Returning DEF PeekAheadReturns
  <2>2. call.slot = Len(cached) /\ cachedPos < Len(cached) /\ Len(cached) \in 1..Len(cached)
    BY <2>1, CursorBehindMark DEF IInv, Modes
  <2>3. stored \in Seq(Token)
    BY <1>0, <2>1, <2>2, ExceptSeq
  <2>4. CASE call.left > 0
    <3>1. cached' = Append(stored, <<>>)
      BY <1>11, <2>4 DEF PeekAheadReturns
    <3> HIDE DEF stored
    <3>2. QED  BY <1>0, <2>3, <3>1, LastAppended DEF SlotEmpty
  <2>5. CASE ~(call.left > 0)
    <3>1. calls' = Front(calls)
      BY <1>11, <2>5 DEF PeekAheadReturns
    <3>2. Idle'
      BY <2>1, <3>1 DEF Idle
    <3>3. QED  BY <3>2 DEF SlotEmpty, Peeking
  <2>6. QED  BY <2>4, <2>5
<1>12. QED
  BY <1>3, <1>4, <1>5, <1>6, <1>7, <1>8, <1>9, <1>10, <1>11 DEF Next

-----------------------------------------------------------------------------
(* Each step is one of the contract's                                       *)

(* How much has been read, by now and at each mark.                         *)
At == Len(FlattenSeq(read))
Marks == [i \in DOMAIN saved |-> Len(FlattenSeq(saved[i]))]

(* What the refinement needs to know of a state.                            *)
Reading == IInv /\ SlotEmpty /\ MarksMatch

(* The text of such a state is what has been read and what comes next.       *)
LEMMA ReadingText ==
  /\ Reading => TextRead
  /\ Reading' => TextRead'
BY TextIs, TextIsNext DEF Reading

Texts ==
  /\ read \in Seq(Token) /\ FlattenSeq(read) \in Seq(Base) /\ At \in Nat
  /\ Upcoming \in Seq(Token) /\ FlattenSeq(Upcoming) \in Seq(Base)

(* Texts they are, in each state.                                           *)
LEMMA TextsTyped == IInv => Texts
<1>1. IInv => read \in Seq(Token) /\ Upcoming \in Seq(Token)
  BY TokensTyped DEF IInv, TypeOK, Tokens
<1>2. QED  BY <1>1, TextOf DEF At, Texts

(* And after a step.                                                        *)
LEMMA TextsTypedNext == IInv' => Texts'
BY TextsTyped, PTL

(* A step that reads nothing and leaves what comes next does not show.       *)
LEMMA NothingShows ==
  ASSUME Reading, Reading', FlattenSeq(read') = FlattenSeq(read),
         FlattenSeq(Upcoming') = FlattenSeq(Upcoming), saved' = saved
  PROVE  Text' = Text /\ At' = At /\ Marks' = Marks
BY ReadingText DEF TextRead, At, Marks

(* A token is read.                                                         *)
LEMMA ReadStep ==
  ASSUME Reading, Reading', ConsumeTokenReturns
  PROVE  /\ Text' = Text /\ Marks' = Marks
         /\ At' = At \/ At' \in At + 1..Len(Text)
<1> DEFINE R == FlattenSeq(read)
           U == FlattenSeq(Upcoming')
<1>1. Upcoming = <<ret>> \o Upcoming' /\ ret \in Token
  BY ConsumeTokenReturnsUpcoming DEF Reading
<1>2. read' = Append(read, ret) /\ saved' = saved
  BY DEF ConsumeTokenReturns
<1>3. /\ R \in Seq(Base) /\ read \in Seq(Token) /\ U \in Seq(Base) /\ Upcoming' \in Seq(Token)
      /\ ret \in Seq(Base)
  BY <1>1, TextsTyped, TextsTypedNext, TextOf DEF Reading, Texts
<1>4. FlattenSeq(Upcoming) = ret \o U
  BY <1>1, <1>3, TextThree
<1>5. FlattenSeq(read') = R \o ret
  BY <1>1, <1>2, <1>3, TextOf
<1>6. Text = R \o (ret \o U) /\ Text' = (R \o ret) \o U
  BY <1>4, <1>5, ReadingText DEF TextRead
<1>7. At = Len(R) /\ At' = Len(R \o ret) /\ Marks' = Marks
  BY <1>2, <1>5 DEF At, Marks
<1> HIDE DEF R, U
<1>8. Text' = Text
  BY <1>3, <1>6, TextsJoin, SMTT(30)
<1>9. R \o ret \in Seq(Base)
  BY <1>3, TextsJoin
<1>10. /\ Len(Text') = Len(R \o ret) + Len(U) /\ Len(R \o ret) = Len(R) + Len(ret)
       /\ Len(R) \in Nat /\ Len(ret) \in Nat /\ Len(U) \in Nat
  BY <1>3, <1>6, <1>9, TextsJoin
<1> DEFINE x == Len(R)
           y == Len(ret)
           z == Len(U)
           w == Len(Text)
<1>11. At = x /\ At' = x + y /\ w = x + y + z /\ x \in Nat /\ y \in Nat /\ z \in Nat
  BY <1>7, <1>8, <1>10
<1> HIDE DEF x, y, z, w
<1>12. At' = At \/ At' \in At + 1..w
  BY <1>11
<1>13. QED  BY <1>7, <1>8, <1>12 DEF w

(* The innermost of the marks, or the beginning of the text.                 *)
FloorAt == IF Marks = <<>> THEN 0 ELSE Marks[Len(Marks)]
FloorBelow == Idle => FloorAt \in Nat /\ FloorAt <= At

Shown == <<Text, At, Marks>>

(* What a step may show of itself: the steps of the contract.                *)
ShownStep ==
  \/ UNCHANGED Shown
  \/ At' \in At + 1..Len(Text) /\ UNCHANGED <<Text, Marks>>
  \/ At' \in FloorAt..At - 1 /\ UNCHANGED <<Text, Marks>>
  \/ Marks' = Append(Marks, At) /\ UNCHANGED <<Text, At>>
  \/ Marks # <<>> /\ Marks' = SubSeq(Marks, 1, Len(Marks) - 1) /\ UNCHANGED <<Text, At>>
  \/ /\ Marks # <<>> /\ At' = Marks[Len(Marks)]
     /\ Marks' = SubSeq(Marks, 1, Len(Marks) - 1) /\ UNCHANGED Text
  \/ /\ At' \in FloorAt..At /\ UNCHANGED Marks
     /\ Len(Text') - Len(Text) > 0
     /\ Text = SubSeq(Text', 1, At') \o SubSeq(Text', At' + (Len(Text') - Len(Text)) + 1, Len(Text'))

(* The marks are as many as there are tentative parses.                      *)
LEMMA MarksTyped ==
  ASSUME IInv
  PROVE  /\ saved \in Seq(Seq(Token)) /\ Len(saved) = Len(backtrack) /\ Len(saved) \in Nat
         /\ Marks \in Seq(Nat) /\ Len(Marks) = Len(saved)
         /\ \A i \in 1..Len(saved) : Marks[i] = Len(FlattenSeq(saved[i])) /\ saved[i] \in Seq(Token)
         /\ Marks = <<>> <=> backtrack = <<>>
<1>1. /\ saved \in Seq(Seq(Token)) /\ Len(saved) = Len(backtrack) /\ backtrack \in Seq(Nat)
      /\ Len(saved) \in Nat /\ DOMAIN saved = 1..Len(saved)
  <2>1. saved \in Seq(Seq(Token)) /\ Len(saved) = Len(backtrack) /\ backtrack \in Seq(Nat)
    BY DEF IInv, TypeOK, Paired
  <2>2. QED  BY <2>1, LenProperties
<1>2. ASSUME NEW i \in 1..Len(saved)
      PROVE  saved[i] \in Seq(Token) /\ Len(FlattenSeq(saved[i])) \in Nat
  <2>1. saved[i] \in Seq(Token)
    BY <1>1, ElementOfSeq
  <2>2. QED  BY <2>1, TextOf
<1> DEFINE n == Len(saved)
           F(i) == Len(FlattenSeq(saved[i]))
<1>3. Marks = [i \in 1..n |-> F(i)]
  BY <1>1 DEF Marks
<1>4. \A i \in 1..n : F(i) \in Nat
  BY <1>2
<1>5. n \in Nat
  BY <1>1
<1> HIDE DEF n, F
<1>6. Marks \in Seq(Nat) /\ Len(Marks) = n /\ \A i \in 1..n : Marks[i] = F(i)
  BY <1>3, <1>4, <1>5
<1>7. Marks = <<>> <=> backtrack = <<>>
  <2>1. Marks = <<>> <=> n = 0
    BY <1>5, <1>6, EmptySeq
  <2>2. backtrack = <<>> <=> n = 0
    BY <1>1, EmptySeq DEF n
  <2>3. QED  BY <2>1, <2>2
<1>8. QED  BY <1>1, <1>2, <1>6, <1>7 DEF n, F

(* What has been read reaches back to the innermost mark at least.           *)
LEMMA FloorIsBelow == Reading => FloorBelow
<1> SUFFICES ASSUME Reading, Idle PROVE FloorAt \in Nat /\ FloorAt <= At
  BY DEF FloorBelow
<1>1. IInv /\ MarksMatch /\ ReadSoFar = read
  BY ReadIdle DEF Reading
<1>2. At \in Nat /\ read \in Seq(Token)
  BY <1>1, TextsTyped DEF Texts
<1>3. CASE Marks = <<>>
  BY <1>2, <1>3 DEF FloorAt
<1>4. CASE Marks # <<>>
  <2> DEFINE k == Len(backtrack)
             a == FlattenSeq(saved[k])
  <2>1. /\ backtrack # <<>> /\ Len(saved) = k /\ k \in Nat /\ Len(Marks) = k
        /\ \A i \in 1..k : Marks[i] = Len(FlattenSeq(saved[i]))
    BY <1>1, <1>4, MarksTyped
  <2>2. k \in 1..k
    <3>1. k >= 1
      BY <1>1, <2>1, FrontFields DEF IInv, TypeOK
    <3> HIDE DEF k
    <3>2. QED  BY <2>1, <3>1
  <2>3. Matches(cached, a, backtrack[k], read, cachedPos)
    BY <1>1, <2>2 DEF MarksMatch
  <2>4. a \in Seq(Base) /\ backtrack[k] \in Nat
    BY <1>1, <2>2, MarkTyped
  <2> DEFINE p == Piece(cached, backtrack[k], cachedPos)
  <2>5. backtrack[k] <= cachedPos /\ FlattenSeq(read) = a \o p
    BY <2>3 DEF Matches
  <2>6. p \in Seq(Base)
    <3>1. cached \in Seq(Token) /\ cachedPos \in Nat /\ cachedPos <= Len(cached)
      BY <1>1, CursorBehindMark
    <3> HIDE DEF k
    <3>2. cachedPos <= cachedPos
      BY <3>1
    <3>3. QED  BY <2>4, <2>5, <3>1, <3>2, PiecesMeet, Zenon
  <2>7. FloorAt = Len(a)
    BY <1>4, <2>1, <2>2 DEF FloorAt
  <2> HIDE DEF a, p, k
  <2>8. At = Len(a) + Len(p) /\ Len(a) \in Nat /\ Len(p) \in Nat
    BY <2>4, <2>5, <2>6, TextsJoin DEF At
  <2>9. QED  BY <2>7, <2>8
<1>5. QED  BY <1>3, <1>4

(* After a step too.                                                        *)
LEMMA FloorIsBelowNext == Reading' => FloorBelow'
BY FloorIsBelow, PTL

(* A mark is set.                                                           *)
LEMMA MarkStep ==
  ASSUME Reading, Reading', EnableBacktrackAtThisPos
  PROVE  Marks' = Append(Marks, At) /\ UNCHANGED <<Text, At>>
<1>1. saved' = Append(saved, read) /\ read' = read
  BY DEF EnableBacktrackAtThisPos
<1>2. Upcoming' = Upcoming
  BY EnableBacktrackUpcoming DEF Reading
<1>3. UNCHANGED <<Text, At>>
  BY <1>1, <1>2, ReadingText DEF TextRead, At
<1> DEFINE n == Len(saved)
           F(r) == Len(FlattenSeq(r))
           s == Append(saved, read)
<1>4. saved \in Seq(Seq(Token)) /\ read \in Seq(Token) /\ n \in Nat /\ At \in Nat
  BY MarksTyped, TextsTyped DEF Reading, Texts
<1>5. /\ Marks \in Seq(Nat) /\ Len(Marks) = n /\ \A i \in 1..n : Marks[i] = F(saved[i])
  BY MarksTyped DEF Reading
<1>6. /\ s \in Seq(Seq(Token)) /\ Len(s) = n + 1 /\ s[n + 1] = read
      /\ \A i \in 1..n : s[i] = saved[i]
  BY <1>4, AppendProperties
<1>7. DOMAIN s = 1..n + 1
  BY <1>6, LenProperties
<1>8. Marks' = [i \in DOMAIN s |-> F(s[i])] /\ At = F(read)
  BY <1>1 DEF Marks, At
<1> HIDE DEF n, s, F
<1> DEFINE m == Append(Marks, At)
<1>9. /\ m \in Seq(Nat) /\ Len(m) = n + 1 /\ m[n + 1] = At /\ \A i \in 1..n : m[i] = Marks[i]
  BY <1>4, <1>5, AppendProperties
<1> HIDE DEF m
<1>10. ASSUME NEW i \in 1..n + 1 PROVE F(s[i]) = m[i]
  <2>1. CASE i = n + 1
    BY <1>6, <1>8, <1>9, <2>1
  <2>2. CASE i # n + 1
    <3>1. i \in 1..n
      BY <1>4, <2>2
    <3>2. QED  BY <1>5, <1>6, <1>9, <3>1
  <2>3. QED  BY <2>1, <2>2
<1>11. m = [i \in 1..n + 1 |-> m[i]]
  BY <1>9
<1>12. Marks' = m
  BY <1>7, <1>8, <1>10, <1>11
<1>13. QED  BY <1>3, <1>12 DEF m

(* The innermost mark goes.                                                 *)
LEMMA UnmarkStep ==
  ASSUME IInv, backtrack # <<>>, saved' = Front(saved)
  PROVE  /\ Marks # <<>> /\ Marks' = SubSeq(Marks, 1, Len(Marks) - 1)
         /\ Marks[Len(Marks)] = Len(FlattenSeq(Last(saved))) /\ Last(saved) \in Seq(Token)
         /\ Last(saved) = saved[Len(backtrack)] /\ Len(backtrack) \in 1..Len(backtrack)
<1> DEFINE n == Len(saved)
           F(r) == Len(FlattenSeq(r))
           s == Front(saved)
<1>1. /\ saved \in Seq(Seq(Token)) /\ n = Len(backtrack) /\ n \in Nat
      /\ Marks \in Seq(Nat) /\ Len(Marks) = n /\ Marks # <<>>
      /\ \A i \in 1..n : Marks[i] = F(saved[i]) /\ saved[i] \in Seq(Token)
  BY MarksTyped
<1>2. n >= 1 /\ n \in 1..n
  <2>1. Len(backtrack) >= 1
    BY FrontFields DEF IInv, TypeOK
  <2> HIDE DEF n
  <2>2. QED  BY <1>1, <2>1
<1>3. saved # <<>>
  <2>1. saved = <<>> => n = 0
    OBVIOUS
  <2> HIDE DEF n
  <2>2. QED  BY <1>2, <2>1
<1>4. /\ s \in Seq(Seq(Token)) /\ Len(s) = n - 1 /\ \A i \in 1..n - 1 : s[i] = saved[i]
      /\ Last(saved) = saved[n]
  BY <1>1, <1>3, FrontFields DEF Last
<1>5. DOMAIN s = 1..n - 1
  BY <1>4, LenProperties
<1>6. Marks' = [i \in DOMAIN s |-> F(s[i])]
  BY DEF Marks
<1> HIDE DEF n, s, F
<1> DEFINE m == Front(Marks)
<1>7. /\ m \in Seq(Nat) /\ Len(m) = n - 1 /\ \A i \in 1..n - 1 : m[i] = Marks[i]
  BY <1>1, FrontFields
<1>8. m = SubSeq(Marks, 1, Len(Marks) - 1)
  BY DEF Front
<1> HIDE DEF m
<1>9. ASSUME NEW i \in 1..n - 1 PROVE F(s[i]) = m[i]
  <2>1. i \in 1..n
    BY <1>1
  <2>2. QED  BY <1>1, <1>4, <1>7, <2>1
<1>10. m = [i \in 1..n - 1 |-> m[i]]
  BY <1>7
<1>11. Marks' = m
  BY <1>5, <1>6, <1>9, <1>10
<1>12. QED  BY <1>1, <1>2, <1>4, <1>8, <1>11 DEF F, n

(* The innermost mark is taken away.                                        *)
LEMMA CommitStep ==
  ASSUME Reading, Reading', CommitBacktrackedTokens
  PROVE  /\ Marks # <<>> /\ Marks' = SubSeq(Marks, 1, Len(Marks) - 1)
         /\ UNCHANGED <<Text, At>>
<1>1. /\ backtrack # <<>> /\ saved' = Front(saved) /\ read' = read
  BY DEF CommitBacktrackedTokens, isBacktrackEnabled
<1>2. Upcoming' = Upcoming
  BY CommitUpcoming DEF Reading
<1>3. UNCHANGED <<Text, At>>
  BY <1>1, <1>2, ReadingText DEF TextRead, At
<1>4. QED  BY <1>1, <1>3, UnmarkStep DEF Reading

(* The parser goes back to the innermost mark.                              *)
LEMMA RewindStep ==
  ASSUME Reading, Reading', Backtrack
  PROVE  /\ Marks # <<>> /\ At' = Marks[Len(Marks)]
         /\ Marks' = SubSeq(Marks, 1, Len(Marks) - 1) /\ UNCHANGED Text
<1> DEFINE k == Len(backtrack)
           a == FlattenSeq(Last(saved))
           part == SubSeq(cached, Last(backtrack) + 1, cachedPos)
           p == Piece(cached, Last(backtrack), cachedPos)
           U == FlattenSeq(Upcoming)
<1>1. /\ backtrack # <<>> /\ saved' = Front(saved) /\ read' = Last(saved) /\ Idle
  BY DEF Backtrack, isBacktrackEnabled
<1>2. /\ Marks # <<>> /\ Marks' = SubSeq(Marks, 1, Len(Marks) - 1)
      /\ Marks[Len(Marks)] = Len(a) /\ Last(saved) \in Seq(Token)
      /\ Last(saved) = saved[k] /\ k \in 1..k
  BY <1>1, UnmarkStep DEF Reading
<1>3. At' = Len(a)
  BY <1>1 DEF At
<1>4. Upcoming' = part \o Upcoming
  BY BacktrackUpcoming DEF Reading
<1>5. ReadSoFar = read
  BY <1>1, ReadIdle
<1>6. Last(backtrack) = backtrack[k]
  BY DEF Last
<1>7. Matches(cached, a, Last(backtrack), read, cachedPos)
  BY <1>2, <1>5, <1>6 DEF MarksMatch, Reading
<1>8. FlattenSeq(read) = a \o p
  BY <1>7 DEF Matches
<1>9. /\ cached \in Seq(Token) /\ cachedPos \in Nat /\ cachedPos <= Len(cached)
      /\ Last(backtrack) \in Nat /\ Last(backtrack) <= cachedPos
  BY <1>1, CursorBehindMark DEF Reading, isBacktrackEnabled
<1>10. part \in Seq(Token)
  BY <1>9, PartsMeet
<1>11. Upcoming \in Seq(Token) /\ U \in Seq(Base)
  BY TextsTyped DEF Reading, Texts
<1>12. p = FlattenSeq(part)
  BY DEF Piece
<1> HIDE DEF part
<1>13. p \in Seq(Base) /\ FlattenSeq(Upcoming') = p \o U /\ a \in Seq(Base)
  BY <1>2, <1>4, <1>10, <1>11, <1>12, TextOf
<1>14. Text = (a \o p) \o U /\ Text' = a \o (p \o U)
  BY <1>1, <1>8, <1>13, ReadingText DEF TextRead, Reading
<1> HIDE DEF a, p, U
<1>15. Text' = Text
  BY <1>11, <1>13, <1>14, TextsJoin
<1>16. QED  BY <1>2, <1>3, <1>15

(* A name is annotated: none of it shows.                                   *)
LEMMA AnnotateNameStep ==
  ASSUME Reading, Reading', NEW j \in 1..Len(read), AnnotateName(j)
  PROVE  Text' = Text /\ At' = At /\ Marks' = Marks
<1>1. read' = Covering(read, j) /\ saved' = saved
  BY DEF AnnotateName
<1>2. Upcoming' = Upcoming
  BY AnnotateNameUpcoming DEF Reading
<1>3. read \in Seq(Token)
  BY TextsTyped DEF Reading, Texts
<1>4. j \in Nat /\ j >= 1 /\ j <= Len(read)
  BY <1>3, LenProperties
<1>5. FlattenSeq(read') = FlattenSeq(read)
  BY <1>1, <1>3, <1>4, CoveringPieces
<1>6. QED  BY <1>1, <1>2, <1>5, NothingShows

(* A token that is taken back comes next.                                   *)
LEMMA PushBackStep ==
  ASSUME Reading, Reading', read # <<>>, Tok # <<>>, Tok \in Token,
         FlattenSeq(read') = FlattenSeq(Front(read)),
         FlattenSeq(Upcoming') = Tok \o FlattenSeq(Upcoming)
  PROVE  Text' = Text /\ At' \in Nat /\ At' < At
<1> DEFINE R == FlattenSeq(Front(read))
           U == FlattenSeq(Upcoming)
           t == Tok
<1>1. read = Append(Front(read), t) /\ Front(read) \in Seq(Token)
  <2>1. read \in Seq(Token)
    BY TextsTyped DEF Reading, Texts
  <2>2. QED  BY <2>1, FrontAndLast DEF Tok
<1>2. /\ R \in Seq(Base) /\ t \in Seq(Base) /\ U \in Seq(Base)
      /\ FlattenSeq(read) = R \o t
  <2>1. R \in Seq(Base) /\ t \in Seq(Base) /\ FlattenSeq(Append(Front(read), t)) = R \o t
    BY <1>1, TextOf
  <2>2. U \in Seq(Base)
    BY TextsTyped DEF Reading, Texts
  <2>3. QED  BY <1>1, <2>1, <2>2
<1>3. Text = (R \o t) \o U /\ Text' = R \o (t \o U)
  BY <1>2, ReadingText DEF TextRead
<1>4. At = Len(R \o t) /\ At' = Len(R)
  BY <1>2 DEF At
<1>5. t # <<>>
  OBVIOUS
<1> HIDE DEF R, U, t
<1>6. Text' = Text
  BY <1>2, <1>3, TextsJoin
<1>7. Len(R \o t) = Len(R) + Len(t) /\ Len(R) \in Nat /\ Len(t) \in Nat
  BY <1>2, TextsJoin
<1>8. Len(t) # 0
  BY <1>2, <1>5, EmptySeq
<1>9. QED  BY <1>4, <1>6, <1>7, <1>8

(* AnnotateScopeToken takes a token back, not beyond the mark.              *)
LEMMA AnnotateScopeStep ==
  ASSUME Reading, Reading', NEW j \in 1..Len(read), NEW isNew \in BOOLEAN,
         AnnotateScopeToken(j, isNew)
  PROVE  At' \in FloorAt..At - 1 /\ UNCHANGED <<Text, Marks>>
<1>1. /\ read' = Covering(Front(read), j) /\ saved' = saved /\ calls' = calls /\ Idle
      /\ Len(read) > 1 /\ Tok # <<>> /\ CanCover(Front(read), j)
  BY DEF AnnotateScopeToken
<1>2. Upcoming' = <<Tok>> \o Upcoming /\ Tok \in Token
  BY AnnotateScopeUpcoming DEF Reading
<1>3. read \in Seq(Token) /\ Upcoming \in Seq(Token) /\ At \in Nat
  BY TextsTyped DEF Reading, Texts
<1>4. read # <<>>
  BY <1>1
<1>5. Front(read) \in Seq(Token)
  BY <1>3, <1>4, FrontAndLast
<1>6. j \in Nat /\ j >= 1 /\ j <= Len(Front(read))
  <2>1. j \in Nat /\ j >= 1
    BY <1>3, LenProperties
  <2>2. QED  BY <1>1, <2>1, CoveredText DEF CanCover
<1>7. FlattenSeq(read') = FlattenSeq(Front(read))
  BY <1>1, <1>5, <1>6, CoveringPieces
<1>8. FlattenSeq(Upcoming') = Tok \o FlattenSeq(Upcoming)
  BY <1>2, <1>3, TextThree
<1>9. Text' = Text /\ At' \in Nat /\ At' < At
  BY <1>1, <1>2, <1>4, <1>7, <1>8, PushBackStep
<1>10. Marks' = Marks
  BY <1>1 DEF Marks
<1>11. FloorAt \in Nat /\ FloorAt <= At'
  <2>1. Idle'
    BY <1>1 DEF Idle
  <2>2. FloorAt' \in Nat /\ FloorAt' <= At'
    BY <2>1, FloorIsBelowNext DEF FloorBelow
  <2>3. FloorAt' = FloorAt
    BY <1>10 DEF FloorAt
  <2>4. QED  BY <2>2, <2>3
<1>12. QED  BY <1>3, <1>9, <1>10, <1>11

(* The tokens that a step enters into the text.                             *)
EnterShown ==
  /\ At' \in FloorAt..At /\ UNCHANGED Marks
  /\ Len(Text') - Len(Text) > 0
  /\ Text = SubSeq(Text', 1, At') \o SubSeq(Text', At' + (Len(Text') - Len(Text)) + 1, Len(Text'))

(* A text with something put into it, without it again.                     *)
LEMMA Inserted ==
  ASSUME NEW x \in Seq(Base), NEW y \in Seq(Base), NEW z \in Seq(Base)
  PROVE  /\ Len(x \o (y \o z)) - Len(x \o z) = Len(y) /\ Len(x) \in Nat /\ Len(y) \in Nat
         /\ SubSeq(x \o (y \o z), 1, Len(x)) = x
         /\ SubSeq(x \o (y \o z), Len(x) + Len(y) + 1, Len(x \o (y \o z))) = z
<1> DEFINE t == x \o (y \o z)
           u == x \o y
<1>1. y \o z \in Seq(Base) /\ u \in Seq(Base) /\ t = u \o z
  BY TextsJoin
<1>2. /\ Len(t) = Len(x) + Len(y \o z) /\ Len(y \o z) = Len(y) + Len(z)
      /\ Len(x \o z) = Len(x) + Len(z) /\ Len(u) = Len(x) + Len(y)
      /\ Len(x) \in Nat /\ Len(y) \in Nat /\ Len(z) \in Nat
  BY <1>1, TextsJoin
<1>3. SubSeq(t, 1, Len(x)) = x
  BY <1>1, Joined
<1> HIDE DEF t, u
<1>4. After(u \o z, Len(u)) = z
  BY <1>1, Joined
<1>5. SubSeq(t, Len(u) + 1, Len(t)) = z
  BY <1>1, <1>4 DEF After
<1>6. Len(t) - Len(x \o z) = Len(y)
  BY <1>2
<1>7. SubSeq(t, Len(x) + Len(y) + 1, Len(t)) = z
  BY <1>2, <1>5
<1>8. QED  BY <1>2, <1>3, <1>6, <1>7 DEF t

(* What is put in behind what has been read is entered.                     *)
LEMMA InsertShows ==
  ASSUME NEW x \in Seq(Base), NEW y \in Seq(Base), NEW z \in Seq(Base),
         Text = x \o z, Text' = x \o (y \o z), At' = Len(x), Marks' = Marks,
         FloorAt \in Nat, FloorAt <= Len(x), Len(x) <= At, At \in Nat
  PROVE  y # <<>> => EnterShown
<1> SUFFICES ASSUME y # <<>> PROVE EnterShown
  OBVIOUS
<1> DEFINE t == x \o (y \o z)
           n == Len(x)
           m == Len(y)
           d == Len(Text') - Len(Text)
<1>1. /\ Len(Text') - Len(Text) = m /\ n \in Nat /\ m \in Nat
      /\ SubSeq(Text', 1, n) = x /\ SubSeq(Text', n + m + 1, Len(Text')) = z
  BY Inserted
<1>2. m # 0
  BY EmptySeq
<1>3. At' = n /\ FloorAt <= n /\ n <= At /\ Text = x \o z
  OBVIOUS
<1> HIDE DEF n, m
<1>4. At' \in FloorAt..At
  BY <1>1, <1>3
<1>5. Len(Text') - Len(Text) > 0
  BY <1>1, <1>2
<1>6. Text = SubSeq(Text', 1, At') \o SubSeq(Text', At' + (Len(Text') - Len(Text)) + 1, Len(Text'))
  BY <1>1, <1>3
<1>7. QED  BY <1>4, <1>5, <1>6 DEF EnterShown

(* EnterToken enters the token that has been read last.                     *)
LEMMA EnterTokenStep ==
  ASSUME Reading, Reading', EnterToken
  PROVE  EnterShown
<1> DEFINE R == FlattenSeq(read)
           U == FlattenSeq(Upcoming)
           t == Tok
<1>1. /\ read' = Append(read, <<>>) /\ saved' = saved /\ Idle /\ t # <<>>
  BY DEF EnterToken
<1>2. Upcoming' = <<t>> \o Upcoming /\ t \in Token
  BY EnterTokenUpcoming DEF Reading
<1>3. /\ read \in Seq(Token) /\ Upcoming \in Seq(Token) /\ At \in Nat
      /\ R \in Seq(Base) /\ U \in Seq(Base) /\ t \in Seq(Base)
  BY <1>2, TextsTyped, TextOf DEF Reading, Texts
<1>4. FlattenSeq(Upcoming') = t \o U
  BY <1>2, <1>3, TextThree
<1>5. FlattenSeq(read') = R
  <2> DEFINE e == <<>>
  <2>1. e \in Token
    BY EmptySeq DEF Token
  <2> HIDE DEF e
  <2>2. FlattenSeq(Append(read, e)) = R \o e
    BY <1>3, <2>1, TextOf
  <2>3. R \o <<>> = R
    BY <1>3, TextsJoin
  <2>4. QED  BY <1>1, <2>2, <2>3 DEF e
<1>6. Text = R \o U /\ Text' = R \o (t \o U) /\ At = Len(R) /\ At' = Len(R) /\ Marks' = Marks
  BY <1>1, <1>4, <1>5, ReadingText DEF TextRead, At, Marks
<1>7. FloorAt \in Nat /\ FloorAt <= At
  BY <1>1, FloorIsBelow DEF FloorBelow
<1> HIDE DEF R, U, t
<1>8. FloorAt <= Len(R) /\ Len(R) <= At
  BY <1>3, <1>6, <1>7
<1>9. t # <<>> => EnterShown
  BY <1>3, <1>6, <1>7, <1>8, InsertShows
<1>10. QED  BY <1>1, <1>9

(* EnterTokenStream takes the last token back and enters the stream, which may
   hold no text.                                                            *)
LEMMA EnterTokenStreamStep ==
  ASSUME ~StreamsWhileCaching, Reading, Reading', NEW s \in Streams, EnterTokenStream(s)
  PROVE  EnterShown \/ (At' \in FloorAt..At - 1 /\ UNCHANGED <<Text, Marks>>)
<1> DEFINE R == FlattenSeq(Front(read))
           S == FlattenSeq(s)
           U == FlattenSeq(Upcoming)
           t == Tok
           v == t \o U
<1>1. /\ read' = Front(read) /\ saved' = saved /\ t # <<>> /\ read # <<>>
  BY DEF EnterTokenStream
<1>2. /\ Upcoming' = Append(s, t) \o Upcoming /\ t \in Token /\ s \in Seq(Token) /\ Empty
  BY EnterTokenStreamUpcoming DEF Reading
<1>3. /\ read \in Seq(Token) /\ Upcoming \in Seq(Token) /\ U \in Seq(Base)
  BY TextsTyped DEF Reading, Texts
<1>4. read = Append(Front(read), t) /\ Front(read) \in Seq(Token)
  BY <1>1, <1>3, FrontAndLast DEF Tok
<1>5. /\ R \in Seq(Base) /\ S \in Seq(Base) /\ t \in Seq(Base)
      /\ FlattenSeq(Append(Front(read), t)) = R \o t
      /\ FlattenSeq(Append(s, t)) = S \o t
  BY <1>2, <1>4, TextOf
<1>6. FlattenSeq(Upcoming') = (S \o t) \o U
  <2>1. Append(s, t) \in Seq(Token)
    BY <1>2, AppendProperties
  <2>2. FlattenSeq(Append(s, t) \o Upcoming) = FlattenSeq(Append(s, t)) \o U
    BY <1>3, <2>1, TextOf
  <2>3. QED  BY <1>2, <1>5, <2>2
<1>7. /\ Text = (R \o t) \o U /\ Text' = R \o ((S \o t) \o U)
      /\ At = Len(R \o t) /\ At' = Len(R) /\ Marks' = Marks
  BY <1>1, <1>4, <1>5, <1>6, ReadingText DEF TextRead, At, Marks
<1>8. FloorAt = 0
  <2>1. Marks = <<>>
    BY <1>2, MarksTyped DEF Empty, Reading
  <2>2. QED  BY <2>1 DEF FloorAt
<1> HIDE DEF R, S, U, t
<1>9. v \in Seq(Base) /\ Text = R \o v /\ Text' = R \o (S \o v)
  <2>1. v \in Seq(Base) /\ (R \o t) \o U = R \o v /\ (S \o t) \o U = S \o v
    <3>0. R \in Seq(Base) /\ S \in Seq(Base) /\ t \in Seq(Base) /\ U \in Seq(Base)
      BY <1>3, <1>5
    <3>1. v \in Seq(Base)
      BY <3>0, TextsJoin
    <3>2. (R \o t) \o U = R \o (t \o U)
      BY <3>0, TextsJoin
    <3>3. (S \o t) \o U = S \o (t \o U)
      BY <3>0, TextsJoin
    <3>4. QED  BY <3>1, <3>2, <3>3
  <2> HIDE DEF v
  <2>2. QED  BY <1>7, <2>1
<1>10. /\ Len(R \o t) = Len(R) + Len(t) /\ Len(R) \in Nat /\ Len(t) \in Nat
  BY <1>5, TextsJoin
<1>11. Len(t) # 0
  BY <1>1, <1>5, EmptySeq
<1> HIDE DEF v
<1>12. FloorAt \in Nat /\ FloorAt <= Len(R) /\ Len(R) <= At /\ At \in Nat
  <2>1. At = Len(R) + Len(t)
    BY <1>7, <1>10
  <2>2. QED  BY <1>8, <1>10, <2>1
<1>13. CASE S = <<>>
  <2>1. S \o v = v
    BY <1>9, <1>13, TextsJoin
  <2>2. Text' = Text
    BY <1>9, <2>1
  <2>3. At' \in FloorAt..At - 1
    BY <1>7, <1>8, <1>10, <1>11
  <2>4. QED  BY <1>7, <2>2, <2>3
<1>14. CASE S # <<>>
  <2>1. S # <<>> => EnterShown
    BY <1>5, <1>7, <1>9, <1>12, InsertShows
  <2>2. QED  BY <1>14, <2>1
<1>15. QED  BY <1>13, <1>14

(* A step that neither reads nor marks does not show.                       *)
LEMMA SameShown ==
  ASSUME Reading, Reading', Upcoming' = Upcoming, read' = read, saved' = saved
  PROVE  ShownStep
<1>1. Text' = Text /\ At' = At /\ Marks' = Marks
  BY NothingShows
<1>2. QED  BY <1>1 DEF ShownStep, Shown

(* Every step shows what the contract allows.                               *)
LEMMA NextShows ==
  ASSUME ~StreamsWhileCaching, Reading, Reading', [Next]_vars
  PROVE  ShownStep
<1>0. IInv /\ IInv'
  BY DEF Reading
<1>1. CASE ConsumeToken
  BY <1>0, <1>1, ConsumeTokenUpcoming, SameShown DEF ConsumeToken
<1>2. ASSUME NEW n \in 0..MaxPeek, LookAhead(n) PROVE ShownStep
  <2>1. Upcoming' = Upcoming
    BY <1>0, <1>2, LookAheadUpcoming
  <2>2. read' = read /\ saved' = saved
    BY <1>2 DEF LookAhead
  <2>3. QED  BY <2>1, <2>2, SameShown
<1>3. CASE EnableBacktrackAtThisPos
  BY <1>3, MarkStep DEF ShownStep
<1>4. CASE CommitBacktrackedTokens
  BY <1>4, CommitStep DEF ShownStep
<1>5. CASE Backtrack
  BY <1>5, RewindStep DEF ShownStep
<1>6. ASSUME NEW j \in 1..Len(read), AnnotateName(j) PROVE ShownStep
  BY <1>6, AnnotateNameStep DEF ShownStep, Shown
<1>7. ASSUME NEW j \in 1..Len(read), NEW isNew \in BOOLEAN, AnnotateScopeToken(j, isNew)
      PROVE  ShownStep
  BY <1>7, AnnotateScopeStep DEF ShownStep
<1>8. CASE EnterToken
  BY <1>8, EnterTokenStep DEF ShownStep, EnterShown
<1>9. ASSUME NEW s \in Streams, EnterTokenStream(s) PROVE ShownStep
  BY <1>9, EnterTokenStreamStep DEF ShownStep, EnterShown
<1>10. CASE CachingLex
  BY <1>0, <1>10, CachingLexUpcoming, SameShown DEF CachingLex
<1>11. CASE Lex
  BY <1>0, <1>11, LexUpcoming, SameShown DEF Lex
<1>12. CASE EnterMacro
  BY <1>0, <1>12, EnterMacroUpcoming, SameShown DEF EnterMacro
<1>13. CASE HandleEndOfTokenLexer
  BY <1>0, <1>13, HandleEndUpcoming, SameShown DEF HandleEndOfTokenLexer
<1>14. CASE CachingLexReturns
  BY <1>0, <1>14, CachingLexReturnsUpcoming, SameShown DEF CachingLexReturns
<1>15. CASE ConsumeTokenReturns
  BY <1>15, ReadStep DEF ShownStep, Shown
<1>16. CASE PeekAheadReturns
  <2>1. Upcoming' = Upcoming
    BY <1>0, <1>16, PeekAheadReturnsUpcoming
  <2>2. read' = read /\ saved' = saved
    BY <1>16 DEF PeekAheadReturns
  <2>3. QED  BY <2>1, <2>2, SameShown
<1>17. CASE Finished \/ UNCHANGED vars
  <2>1. UNCHANGED vars
    BY <1>17 DEF Finished
  <2>2. ToLex(lexers') = ToLex(lexers) /\ read' = read /\ saved' = saved
    BY <2>1 DEF vars
  <2>3. Upcoming' = Upcoming
    BY <2>1, <2>2, LexersMove DEF vars
  <2>4. QED  BY <2>2, <2>3, SameShown
<1>18. QED
  BY <1>1, <1>2, <1>3, <1>4, <1>5, <1>6, <1>7, <1>8, <1>9, <1>10, <1>11, <1>12, <1>13, <1>14,
     <1>15, <1>16, <1>17 DEF Next

(* Nothing is read or marked at first, and the text is that of the file.     *)
LEMMA InitReads == Init => Reading /\ Tape!Init
<1> SUFFICES ASSUME Init PROVE Reading /\ Tape!Init
  OBVIOUS
<1>1. IInv
  BY InitKeeps
<1>2. /\ lexers = <<[kind |-> "file", words |-> File]>> /\ cached = <<>> /\ cachedPos = 0
      /\ backtrack = <<>> /\ calls = <<>> /\ ret = None /\ read = <<>> /\ saved = <<>>
  BY DEF Init
<1>3. SlotEmpty
  BY <1>2 DEF SlotEmpty, Peeking, Idle
<1>4. MarksMatch
  <2>1. ASSUME NEW k \in 1..Len(<<>>) PROVE FALSE
    OBVIOUS
  <2>2. QED  BY <1>2, <2>1 DEF MarksMatch
<1>5. Reading
  BY <1>1, <1>3, <1>4 DEF Reading
<1>6. FlattenSeq(read) = <<>> /\ At = 0
  <2>1. FlattenSeq(read) = <<>>
    BY <1>2, TextOf
  <2>2. QED  BY <2>1 DEF At
<1>7. Marks = <<>>
  BY <1>1, <1>2, MarksTyped
<1>8. Upcoming = ExpandAll(File)
  <2> DEFINE x == [kind |-> "file", words |-> File]
             e == <<>>
  <2>1. x \in Lexer /\ x.words = File /\ File \in Seq(Word)
    BY TokenCacheAssumption DEF Lexer
  <2>2. e \in Seq(Lexer) /\ Append(e, x) = <<x>>
    BY <2>1
  <2> HIDE DEF x
  <2>3. ToLex(Append(e, x)) = ExpandAll(File) \o ToLex(e) /\ ToLex(e) \in Seq(Token)
        /\ ExpandAll(File) \in Seq(Token)
    BY <2>1, <2>2, ToLexAppend
  <2>4. ToLex(e) = <<>>
    <3> DEFINE f == [i \in DOMAIN e |-> ExpandAll(Reverse(e)[i].words)]
    <3>1. f = <<>>
      <4>1. DOMAIN e = {}
        OBVIOUS
      <4>2. QED  BY <4>1
    <3>2. FlattenSeq(<<>>) = <<>>
      BY TextOf
    <3>3. ToLex(e) = FlattenSeq(f)
      BY DEF ToLex
    <3> HIDE DEF f, e
    <3>4. QED  BY <3>1, <3>2, <3>3
  <2>5. ToLex(lexers) = ExpandAll(File)
    BY <1>2, <2>2, <2>3, <2>4, Concatenates DEF x
  <2>6. Upcoming = After(cached, cachedPos) \o ToLex(lexers)
    BY <1>1, <1>2, UpcomingIdle DEF Idle
  <2>7. After(cached, cachedPos) = <<>>
    <3>1. cached \in Seq(Token) /\ cachedPos = Len(cached)
      BY <1>2
    <3>2. QED  BY <3>1, AfterAll
  <2>8. QED  BY <2>3, <2>5, <2>6, <2>7, Concatenates
<1>9. Text = FlattenSeq(ExpandAll(File))
  <2>1. Text = FlattenSeq(read) \o FlattenSeq(Upcoming) /\ FlattenSeq(Upcoming) \in Seq(Base)
    BY <1>1, <1>5, ReadingText, TextsTyped DEF TextRead, Texts
  <2>2. QED  BY <1>6, <1>8, <2>1, TextsJoin
<1>10. Tape!Init
  BY <1>6, <1>7, <1>9 DEF Tape!Init, At, Marks, ExpandAll
<1>11. QED  BY <1>5, <1>10

(* What the parser sees is one text, read in order from a cursor that can be
   marked and taken back: that is all its calls can show, however much was
   looked at, cached, annotated or expanded meanwhile.                       *)
THEOREM TokensAreOneTape ==
  ASSUME ~StreamsWhileCaching
  PROVE  Spec => ImplementsTape
<1>1. Init => Reading /\ Tape!Init
  BY InitReads
<1>2. Reading /\ [Next]_vars => Reading'
  <2> SUFFICES ASSUME Reading, [Next]_vars PROVE Reading'
    OBVIOUS
  <2>1. IInv'
    BY NextKeeps DEF Reading
  <2>2. QED  BY <2>1, NextSlots, NextMatches DEF Reading
<1>3. Reading /\ Reading' /\ [Next]_vars => [Tape!Next]_Tape!vars
  BY NextShows DEF ShownStep, Shown, FloorAt, At, Marks, Tape!Next, Tape!Read, Tape!PushBack,
     Tape!Floor, Tape!Mark, Tape!Commit, Tape!Rewind, Tape!Enter, Tape!vars
<1>4. QED
  BY <1>1, <1>2, <1>3, PTL DEF Spec, ImplementsTape, Tape!Spec
=============================================================================
