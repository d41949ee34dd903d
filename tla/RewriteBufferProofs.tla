------------------------- MODULE RewriteBufferProofs -------------------------
(* Proofs about RewriteBuffer for every text, and any number of edits of any
   kind: the tree stays verified, offsets in use are mapped and ranges read as
   they should be, and every edit hits the text the client meant.           *)
EXTENDS RewriteBuffer, DeltaTreeProofs, FiniteSetTheorems

-----------------------------------------------------------------------------
(* The text                                                                  *)
Letters == UNION {{str[i] : i \in DOMAIN str} : str \in Originals \cup Strings}
Chars == [at : Nat, ch : Letters, orig : BOOLEAN]

(* Texts and strings are sequences of letters, as assumed.                  *)
LEMMA StringsAre ==
  /\ \A str \in Originals \cup Strings : str \in Seq(Letters)
  /\ Offsets \subseteq Nat /\ \A f \in Originals : 0..Len(f) \subseteq Offsets
  /\ MaxEdits \in [Originals -> Nat]
<1>1. ASSUME NEW str \in Originals \cup Strings PROVE str \in Seq(Letters)
  <2> DEFINE S == {str[i] : i \in DOMAIN str}
  <2>1. str \in Seq(S)
    BY RewriteBufferAssumption
  <2>2. S \subseteq Letters
    BY DEF Letters
  <2> HIDE DEF S
  <2> QED
    BY <2>1, <2>2
<1> QED
  BY <1>1, RewriteBufferAssumption

(* A character has what it is made of.                                      *)
LEMMA CharIs ==
  ASSUME NEW a \in Nat, NEW c \in Letters
  PROVE  /\ Anchored!Char(a, c, FALSE) \in Chars /\ Anchored!Char(a, c, TRUE) \in Chars
         /\ Anchored!Char(a, c, FALSE).at = a /\ Anchored!Char(a, c, TRUE).at = a
         /\ ~Anchored!Char(a, c, FALSE).orig /\ Anchored!Char(a, c, TRUE).orig
<1>1. Anchored!Char(a, c, FALSE) \in Chars /\ Anchored!Char(a, c, TRUE) \in Chars
  BY DEF Anchored!Char, Chars
<1>2. Anchored!Char(a, c, FALSE).at = a /\ Anchored!Char(a, c, TRUE).at = a
  BY DEF Anchored!Char
<1>3. ~Anchored!Char(a, c, FALSE).orig /\ Anchored!Char(a, c, TRUE).orig
  BY Zenon DEF Anchored!Char
<1> QED
  BY <1>1, <1>2, <1>3

(* The characters of a text.                                                *)
LEMMA CharsTyped ==
  ASSUME NEW t \in Seq(Chars)
  PROVE  /\ Len(t) \in Nat /\ DOMAIN t = 1..Len(t)
         /\ \A i \in 1..Len(t) : t[i] \in Chars /\ t[i].at \in Nat /\ t[i].orig \in BOOLEAN
<1>1. Len(t) \in Nat /\ DOMAIN t = 1..Len(t) /\ \A i \in 1..Len(t) : t[i] \in Chars
  OBVIOUS
<1>2. \A c \in Chars : c.at \in Nat /\ c.orig \in BOOLEAN
  BY DEF Chars
<1> QED
  BY <1>1, <1>2, Zenon

(* A string of characters, all with one anchor.                              *)
Inserted(s, a) == s \in Seq(Chars) /\ \A i \in 1..Len(s) : s[i].at = a /\ ~s[i].orig

(* A function on an interval is a sequence.                                 *)
LEMMA SeqMade ==
  ASSUME NEW S, NEW n \in Nat, NEW s \in [1..n -> S]
  PROVE  s \in Seq(S) /\ Len(s) = n
<1>1. s \in Seq(S)
  BY SeqDef
<1> QED
  BY <1>1, LenProperties

(* Anchored anchors every letter of a string.                               *)
LEMMA AnchoredIs ==
  ASSUME NEW str \in Seq(Letters), NEW a \in Nat
  PROVE  /\ Inserted(Anchored!Anchored(str, a), a)
         /\ Len(Anchored!Anchored(str, a)) = Len(str)
<1> DEFINE s == Anchored!Anchored(str, a)
<1>1. s = [i \in DOMAIN str |-> Anchored!Char(a, str[i], FALSE)]
  BY DEF Anchored!Anchored
<1>2. Len(str) \in Nat /\ DOMAIN str = 1..Len(str) /\ \A i \in 1..Len(str) : str[i] \in Letters
  OBVIOUS
<1> HIDE DEF s
<1>3. ASSUME NEW i \in 1..Len(str) PROVE s[i] \in Chars /\ s[i].at = a /\ ~s[i].orig
  <2>1. str[i] \in Letters /\ i \in DOMAIN str
    BY <1>2
  <2>2. s[i] = Anchored!Char(a, str[i], FALSE)
    BY <1>1, <2>1, Zenon
  <2> QED
    BY <2>1, <2>2, CharIs
<1>4. s \in Seq(Chars) /\ Len(s) = Len(str)
  <2> DEFINE n == Len(str)
  <2>1. s \in [1..n -> Chars]
    <3>1. s = [i \in 1..n |-> s[i]]
      BY <1>1, <1>2
    <3> QED
      BY <1>3, <3>1
  <2> QED
    BY <1>2, <2>1, SeqMade
<1>5. \A i \in 1..Len(s) : s[i].at = a /\ ~s[i].orig
  BY <1>3, <1>4
<1> QED
  BY <1>4, <1>5 DEF s, Inserted

(* At first every character is at its offset.                               *)
LEMMA UneditedIs ==
  ASSUME NEW f \in Originals
  PROVE  LET t == Anchored!Unedited(f)
         IN /\ t \in Seq(Chars) /\ Len(t) = Len(f) /\ Len(f) \in Nat
            /\ \A i \in 1..Len(f) : t[i].at = 2 * i - 1 /\ t[i].orig
<1> DEFINE t == Anchored!Unedited(f)
<1>1. t = [i \in DOMAIN f |-> Anchored!Char(2 * i - 1, f[i], TRUE)]
  BY DEF Anchored!Unedited
<1>2. f \in Seq(Letters)
  BY StringsAre
<1>3. Len(f) \in Nat /\ DOMAIN f = 1..Len(f) /\ \A i \in 1..Len(f) : f[i] \in Letters
  BY <1>2
<1> HIDE DEF t
<1>4. ASSUME NEW i \in 1..Len(f) PROVE t[i] \in Chars /\ t[i].at = 2 * i - 1 /\ t[i].orig
  <2> DEFINE a == 2 * i - 1
  <2>1. t[i] = Anchored!Char(a, f[i], TRUE) /\ f[i] \in Letters /\ a \in Nat
    BY <1>1, <1>3
  <2> HIDE DEF a
  <2>2. t[i] \in Chars /\ t[i].at = a /\ t[i].orig
    BY <2>1, CharIs
  <2> QED
    BY <2>2 DEF a
<1>5. t \in Seq(Chars) /\ Len(t) = Len(f)
  <2> DEFINE n == Len(f)
  <2>1. t \in [1..n -> Chars]
    <3>1. t = [i \in 1..n |-> t[i]]
      BY <1>1, <1>3
    <3> QED
      BY <1>4, <3>1
  <2> QED
    BY <1>3, <2>1, SeqMade
<1>6. \A i \in 1..Len(f) : t[i].at = 2 * i - 1 /\ t[i].orig
  BY <1>4
<1> QED
  BY <1>3, <1>5, <1>6 DEF t

Joined(S, u, a, b) ==
  /\ u \in Seq(S) /\ Len(u) = Len(a) + Len(b) /\ Len(a) \in Nat /\ Len(b) \in Nat
  /\ \A i \in 1..Len(a) : u[i] = a[i]
  /\ \A i \in Len(a) + 1..Len(a) + Len(b) : u[i] = b[i - Len(a)]

(* Two sequences joined.                                                    *)
LEMMA JoinedIs ==
  \A S : \A a, b \in Seq(S) : Joined(S, a \o b, a, b)
<1>1. SUFFICES ASSUME NEW S, NEW a \in Seq(S), NEW b \in Seq(S)
               PROVE  Joined(S, a \o b, a, b)
  BY Zenon
<1> QED
  BY <1>1 DEF Joined

(* Where the characters are that a cut leaves.                              *)
LEMMA WithoutIs ==
  ASSUME NEW S, NEW t \in Seq(S), NEW p \in 0..Len(t), NEW q \in 0..Len(t), p <= q
  PROVE  LET u == Anchored!Without(t, p, q)
         IN /\ u \in Seq(S) /\ Len(u) = Len(t) - (q - p)
            /\ \A i \in 1..p : u[i] = t[i]
            /\ \A i \in p + 1..Len(u) : u[i] = t[i + (q - p)]
<1> DEFINE a == SubSeq(t, 1, p)
           b == SubSeq(t, q + 1, Len(t))
           u == a \o b
<1>1. a \in Seq(S) /\ Len(a) = p /\ \A j \in 1..p : a[j] = t[j]
  OBVIOUS
<1>2. b \in Seq(S) /\ Len(b) = Len(t) - q /\ \A j \in 1..Len(t) - q : b[j] = t[q + j]
  BY RestIs
<1>3. Anchored!Without(t, p, q) = u
  BY DEF Anchored!Without
<1>4. Len(t) \in Nat
  OBVIOUS
<1> HIDE DEF a, b
<1>5. /\ u \in Seq(S) /\ Len(u) = Len(a) + Len(b)
      /\ \A i \in 1..Len(a) : u[i] = a[i]
      /\ \A i \in Len(a) + 1..Len(a) + Len(b) : u[i] = b[i - Len(a)]
  <2>1. Joined(S, u, a, b)
    BY <1>1, <1>2, JoinedIs, Zenon
  <2> HIDE DEF u
  <2> QED
    BY <2>1 DEF Joined
<1> HIDE DEF u
<1>6. Len(u) = Len(t) - (q - p)
  BY <1>1, <1>2, <1>4, <1>5
<1>7. \A i \in 1..p : u[i] = t[i]
  BY <1>1, <1>5
<1>8. ASSUME NEW i \in p + 1..Len(u) PROVE u[i] = t[i + (q - p)]
  <2>1. i - p \in 1..Len(t) - q /\ q + (i - p) = i + (q - p)
    BY <1>4, <1>6
  <2>2. u[i] = b[i - p]
    BY <1>1, <1>5
  <2>3. b[i - p] = t[q + (i - p)]
    BY <1>2, <2>1
  <2> QED
    BY <2>1, <2>2, <2>3
<1> QED
  BY <1>3, <1>5, <1>6, <1>7, <1>8

(* Where the characters are when a string was put between them.             *)
LEMMA PutIs ==
  ASSUME NEW S, NEW t \in Seq(S), NEW p \in 0..Len(t), NEW s \in Seq(S)
  PROVE  LET u == Put(t, p, s)
         IN /\ u \in Seq(S) /\ Len(u) = Len(t) + Len(s)
            /\ \A i \in 1..p : u[i] = t[i]
            /\ \A i \in p + 1..p + Len(s) : u[i] = s[i - p]
            /\ \A i \in p + Len(s) + 1..Len(u) : u[i] = t[i - Len(s)]
<1> DEFINE a == SubSeq(t, 1, p)
           b == SubSeq(t, p + 1, Len(t))
           c == a \o s
           u == c \o b
<1>1. a \in Seq(S) /\ Len(a) = p /\ \A j \in 1..p : a[j] = t[j]
  OBVIOUS
<1>2. b \in Seq(S) /\ Len(b) = Len(t) - p /\ \A j \in 1..Len(t) - p : b[j] = t[p + j]
  BY RestIs
<1>3. Put(t, p, s) = u
  BY DEF Put
<1>4. Len(t) \in Nat /\ Len(s) \in Nat
  OBVIOUS
<1> HIDE DEF a, b
<1>5. /\ c \in Seq(S) /\ Len(c) = Len(a) + Len(s)
      /\ \A i \in 1..Len(a) : c[i] = a[i]
      /\ \A i \in Len(a) + 1..Len(a) + Len(s) : c[i] = s[i - Len(a)]
  <2>1. Joined(S, c, a, s)
    BY <1>1, JoinedIs, Zenon
  <2> HIDE DEF c, u
  <2> QED
    BY <2>1 DEF Joined
<1> HIDE DEF c
<1>6. /\ u \in Seq(S) /\ Len(u) = Len(c) + Len(b)
      /\ \A i \in 1..Len(c) : u[i] = c[i]
      /\ \A i \in Len(c) + 1..Len(c) + Len(b) : u[i] = b[i - Len(c)]
  <2>1. Joined(S, u, c, b)
    BY <1>2, <1>5, JoinedIs, Zenon
  <2> HIDE DEF u
  <2> QED
    BY <2>1 DEF Joined
<1> HIDE DEF u
<1>7. Len(u) = Len(t) + Len(s) /\ Len(c) = p + Len(s)
  BY <1>1, <1>2, <1>4, <1>5, <1>6
<1>8. ASSUME NEW i \in 1..p PROVE u[i] = t[i]
  BY <1>1, <1>4, <1>5, <1>6, <1>7
<1>9. ASSUME NEW i \in p + 1..p + Len(s) PROVE u[i] = s[i - p]
  BY <1>1, <1>4, <1>5, <1>6, <1>7
<1>10. ASSUME NEW i \in p + Len(s) + 1..Len(u) PROVE u[i] = t[i - Len(s)]
  <2> DEFINE j == i - Len(c)
  <2>1. j \in 1..Len(t) - p /\ p + j = i - Len(s)
    BY <1>4, <1>7
  <2>2. u[i] = b[j]
    BY <1>2, <1>4, <1>6, <1>7
  <2> HIDE DEF j
  <2>3. b[j] = t[p + j]
    BY <1>2, <2>1
  <2> QED
    BY <2>1, <2>2, <2>3
<1> QED
  BY <1>3, <1>6, <1>7, <1>8, <1>9, <1>10

-----------------------------------------------------------------------------
(* Cuts and puts                                                             *)

(* The place of a character of the original that no edit has touched.        *)
Home(n, D, a) == \E o \in 0..n - 1 : a = 2 * o + 1 /\ o \notin D /\ o + 1 \notin D

Sorted(t) == \A i, j \in 1..Len(t) : i < j => t[i].at <= t[j].at
Alone(t) == \A i, j \in 1..Len(t) : t[i].orig /\ i # j => t[i].at # t[j].at

(* A text, and the offsets that are no longer in use.                        *)
Kept(n, t, D) ==
  /\ t \in Seq(Chars) /\ Sorted(t) /\ Alone(t) /\ D \subseteq 1..n
  /\ \A i \in 1..Len(t) : t[i].at <= 2 * n /\ (t[i].orig => Home(n, D, t[i].at))

(* What a kept text is, member by member.                                   *)
LEMMA KeptIs ==
  ASSUME NEW n, NEW t, NEW D, Kept(n, t, D)
  PROVE  /\ t \in Seq(Chars) /\ Len(t) \in Nat /\ DOMAIN t = 1..Len(t) /\ D \subseteq 1..n
         /\ \A i \in 1..Len(t) : /\ t[i].at \in Nat /\ t[i].orig \in BOOLEAN /\ t[i].at <= 2 * n
                                 /\ t[i].orig => Home(n, D, t[i].at)
         /\ \A i, j \in 1..Len(t) : i < j => t[i].at <= t[j].at
         /\ \A i, j \in 1..Len(t) : t[i].orig /\ i # j => t[i].at # t[j].at
<1>1. t \in Seq(Chars)
  BY DEF Kept
<1> QED
  BY <1>1, CharsTyped DEF Kept, Sorted, Alone

(* Anchors divide a text.                                                    *)
LEMMA DividesIs ==
  ASSUME NEW t \in Seq(Chars), NEW a, NEW k
  PROVE  Divides(t, a, k) <=> k \in 0..Len(t) /\ \A i \in 1..Len(t) : i <= k <=> t[i].at <= a
<1>1. DOMAIN t = 1..Len(t)
  BY CharsTyped
<1> QED
  BY <1>1 DEF Divides

(* A higher anchor divides a text no earlier.                               *)
LEMMA DividesMonotone ==
  ASSUME NEW t \in Seq(Chars), NEW a \in Int, NEW b \in Int, a <= b, NEW k, NEW m,
         Divides(t, a, k), Divides(t, b, m)
  PROVE  k <= m /\ k \in Nat /\ m \in Nat
<1>1. /\ k \in 0..Len(t) /\ \A i \in 1..Len(t) : i <= k <=> t[i].at <= a
      /\ m \in 0..Len(t) /\ \A i \in 1..Len(t) : i <= m <=> t[i].at <= b
  BY DividesIs
<1>2. Len(t) \in Nat /\ \A i \in 1..Len(t) : t[i].at \in Nat
  BY CharsTyped
<1>3. CASE k > m
  <2>1. k \in 1..Len(t) /\ ~(k <= m)
    BY <1>1, <1>2, <1>3
  <2>2. t[k].at <= a /\ ~(t[k].at <= b) /\ t[k].at \in Nat
    BY <1>1, <1>2, <2>1
  <2> QED
    BY <2>2
<1> QED
  BY <1>1, <1>2, <1>3

(* Where the characters of a text were in another.                           *)
LEMMA CutSource ==
  ASSUME NEW t \in Seq(Chars), NEW p \in 0..Len(t), NEW q \in 0..Len(t), p <= q
  PROVE  LET u == Anchored!Without(t, p, q)
         IN /\ u \in Seq(Chars) /\ Len(u) = Len(t) - (q - p) /\ Len(u) \in Nat
            /\ \A i \in 1..Len(u) : \E j \in 1..Len(t) :
                 u[i] = t[j] /\ ((j = i /\ i <= p) \/ (j = i + (q - p) /\ i > p))
<1> DEFINE u == Anchored!Without(t, p, q)
<1>1. /\ u \in Seq(Chars) /\ Len(u) = Len(t) - (q - p)
      /\ \A i \in 1..p : u[i] = t[i]
      /\ \A i \in p + 1..Len(u) : u[i] = t[i + (q - p)]
  BY WithoutIs
<1>2. Len(t) \in Nat
  BY CharsTyped
<1> HIDE DEF u
<1>3. Len(u) \in Nat
  BY <1>1, <1>2
<1>4. ASSUME NEW i \in 1..Len(u)
      PROVE  \E j \in 1..Len(t) : u[i] = t[j] /\ ((j = i /\ i <= p) \/ (j = i + (q - p) /\ i > p))
  <2>1. CASE i <= p
    <3>1. i \in 1..Len(t) /\ i \in 1..p
      BY <1>2, <2>1
    <3> QED
      BY <1>1, <2>1, <3>1
  <2>2. CASE i > p
    <3>1. i + (q - p) \in 1..Len(t) /\ i \in p + 1..Len(u)
      BY <1>1, <1>2, <2>2
    <3> QED
      BY <1>1, <2>2, <3>1
  <2> QED
    BY <1>2, <2>1, <2>2
<1> QED
  BY <1>1, <1>3, <1>4 DEF u

(* All between two anchors is cut out.                                       *)
Cut(t, u, a, b, p, q) ==
  /\ u = Anchored!Without(t, p, q) /\ a <= b
  /\ Divides(t, a, p) /\ Divides(t, b, q)

(* A cut moves the places behind it by its length, and none before it.      *)
LEMMA CutDivides ==
  ASSUME NEW t \in Seq(Chars), NEW u, NEW a \in Int, NEW b \in Int, NEW p, NEW q,
         Cut(t, u, a, b, p, q)
  PROVE  /\ p <= q /\ p \in Nat /\ q \in Nat /\ p \in 0..Len(t) /\ q \in 0..Len(t)
         /\ \A c \in Int : \A k : c <= a /\ Divides(t, c, k) => Divides(u, c, k)
         /\ \A c \in Int : \A k : c >= b /\ Divides(t, c, k) => Divides(u, c, k - (q - p))
<1>1. /\ p \in 0..Len(t) /\ \A i \in 1..Len(t) : i <= p <=> t[i].at <= a
      /\ q \in 0..Len(t) /\ \A i \in 1..Len(t) : i <= q <=> t[i].at <= b
      /\ u = Anchored!Without(t, p, q) /\ a <= b
  BY DividesIs DEF Cut
<1>2. p <= q
  BY DividesMonotone DEF Cut
<1>3. Len(t) \in Nat /\ \A i \in 1..Len(t) : t[i].at \in Nat
  BY CharsTyped
<1>4. /\ u \in Seq(Chars) /\ Len(u) = Len(t) - (q - p) /\ Len(u) \in Nat
      /\ \A i \in 1..Len(u) : \E j \in 1..Len(t) :
           u[i] = t[j] /\ ((j = i /\ i <= p) \/ (j = i + (q - p) /\ i > p))
  BY <1>1, <1>2, CutSource
<1>5. ASSUME NEW c \in Int, NEW k, c <= a, Divides(t, c, k) PROVE Divides(u, c, k)
  <2>1. k \in 0..Len(t) /\ \A i \in 1..Len(t) : i <= k <=> t[i].at <= c
    BY <1>5, DividesIs
  <2>2. k <= p
    BY <1>5, DividesMonotone DEF Cut
  <2>3. k \in 0..Len(u)
    BY <1>1, <1>2, <1>3, <1>4, <2>1, <2>2
  <2>4. ASSUME NEW i \in 1..Len(u) PROVE i <= k <=> u[i].at <= c
    <3>1. PICK j \in 1..Len(t) : u[i] = t[j] /\ ((j = i /\ i <= p) \/ (j = i + (q - p) /\ i > p))
      BY <1>4
    <3>2. j <= k <=> t[j].at <= c
      BY <2>1
    <3>3. i <= k <=> j <= k
      BY <1>1, <1>2, <1>3, <2>1, <2>2, <3>1
    <3> QED
      BY <3>1, <3>2, <3>3
  <2> QED
    BY <1>4, <2>3, <2>4, DividesIs
<1>6. ASSUME NEW c \in Int, NEW k, c >= b, Divides(t, c, k) PROVE Divides(u, c, k - (q - p))
  <2>1. k \in 0..Len(t) /\ \A i \in 1..Len(t) : i <= k <=> t[i].at <= c
    BY <1>6, DividesIs
  <2>2. q <= k
    BY <1>6, DividesMonotone DEF Cut
  <2>3. k - (q - p) \in 0..Len(u)
    BY <1>1, <1>2, <1>3, <1>4, <2>1, <2>2
  <2>4. ASSUME NEW i \in 1..Len(u) PROVE i <= k - (q - p) <=> u[i].at <= c
    <3>1. PICK j \in 1..Len(t) : u[i] = t[j] /\ ((j = i /\ i <= p) \/ (j = i + (q - p) /\ i > p))
      BY <1>4
    <3>2. j <= k <=> t[j].at <= c
      BY <2>1
    <3>3. i <= k - (q - p) <=> j <= k
      BY <1>1, <1>2, <1>3, <2>1, <2>2, <3>1
    <3> QED
      BY <3>1, <3>2, <3>3
  <2> QED
    BY <1>4, <2>3, <2>4, DividesIs
<1> QED
  BY <1>1, <1>2, <1>3, <1>5, <1>6

(* What is left is a text, of which the offsets cut out are not in use.      *)
LEMMA CutKept ==
  ASSUME NEW n \in Nat, NEW t, NEW D, Kept(n, t, D), NEW s \in Nat, NEW last \in Nat,
         s <= last, last < n, NEW u, NEW p, NEW q, Cut(t, u, 2 * s, 2 * last + 1, p, q)
  PROVE  Kept(n, u, D \cup s + 1..last)
<1> DEFINE E == D \cup s + 1..last
<1>1. /\ t \in Seq(Chars) /\ Len(t) \in Nat /\ D \subseteq 1..n
      /\ \A i \in 1..Len(t) : /\ t[i].at \in Nat /\ t[i].orig \in BOOLEAN /\ t[i].at <= 2 * n
                              /\ t[i].orig => Home(n, D, t[i].at)
      /\ \A i, j \in 1..Len(t) : i < j => t[i].at <= t[j].at
      /\ \A i, j \in 1..Len(t) : t[i].orig /\ i # j => t[i].at # t[j].at
  BY KeptIs
<1>2. p <= q /\ p \in 0..Len(t) /\ q \in 0..Len(t)
  BY <1>1, CutDivides
<1>3. /\ \A i \in 1..Len(t) : i <= p <=> t[i].at <= 2 * s
      /\ \A i \in 1..Len(t) : i <= q <=> t[i].at <= 2 * last + 1
      /\ u = Anchored!Without(t, p, q)
  BY <1>1, DividesIs DEF Cut
<1>4. /\ u \in Seq(Chars) /\ Len(u) = Len(t) - (q - p) /\ Len(u) \in Nat
      /\ \A i \in 1..Len(u) : \E j \in 1..Len(t) :
           u[i] = t[j] /\ ((j = i /\ i <= p) \/ (j = i + (q - p) /\ i > p))
  BY <1>1, <1>2, <1>3, CutSource
<1>5. Sorted(u)
  <2>1. ASSUME NEW i \in 1..Len(u), NEW j \in 1..Len(u), i < j PROVE u[i].at <= u[j].at
    <3>1. PICK x \in 1..Len(t) : u[i] = t[x] /\ ((x = i /\ i <= p) \/ (x = i + (q - p) /\ i > p))
      BY <1>4
    <3>2. PICK y \in 1..Len(t) : u[j] = t[y] /\ ((y = j /\ j <= p) \/ (y = j + (q - p) /\ j > p))
      BY <1>4
    <3>3. x < y
      BY <1>1, <1>2, <2>1, <3>1, <3>2
    <3> QED
      BY <1>1, <3>1, <3>2, <3>3
  <2> QED
    BY <2>1 DEF Sorted
<1>6. Alone(u)
  <2>1. ASSUME NEW i \in 1..Len(u), NEW j \in 1..Len(u), u[i].orig, i # j PROVE u[i].at # u[j].at
    <3>1. PICK x \in 1..Len(t) : u[i] = t[x] /\ ((x = i /\ i <= p) \/ (x = i + (q - p) /\ i > p))
      BY <1>4
    <3>2. PICK y \in 1..Len(t) : u[j] = t[y] /\ ((y = j /\ j <= p) \/ (y = j + (q - p) /\ j > p))
      BY <1>4
    <3>3. x # y
      BY <1>1, <1>2, <2>1, <3>1, <3>2
    <3>4. t[x].orig
      BY <2>1, <3>1
    <3> QED
      BY <1>1, <3>1, <3>2, <3>3, <3>4
  <2> QED
    BY <2>1 DEF Alone
<1>7. ASSUME NEW i \in 1..Len(u)
      PROVE  u[i].at <= 2 * n /\ (u[i].orig => Home(n, E, u[i].at))
  <2>1. PICK j \in 1..Len(t) : u[i] = t[j] /\ ((j = i /\ i <= p) \/ (j = i + (q - p) /\ i > p))
    BY <1>4
  <2>2. t[j].at <= 2 * n /\ t[j].at \in Nat /\ (t[j].orig => Home(n, D, t[j].at))
    BY <1>1
  <2>3. t[j].at <= 2 * s \/ t[j].at > 2 * last + 1
    <3>1. j <= p \/ j > q
      BY <1>1, <1>2, <2>1
    <3>2. j <= p => t[j].at <= 2 * s
      BY <1>3
    <3>3. j > q => ~(t[j].at <= 2 * last + 1)
      BY <1>1, <1>2, <1>3
    <3> QED
      BY <2>2, <3>1, <3>2, <3>3
  <2> DEFINE a == t[j].at
  <2>4. ASSUME t[j].orig PROVE Home(n, E, a)
    <3>1. a \in Nat /\ (a <= 2 * s \/ a > 2 * last + 1) /\ Home(n, D, a)
      BY <2>2, <2>3, <2>4
    <3> HIDE DEF a
    <3>2. PICK o \in 0..n - 1 : a = 2 * o + 1 /\ o \notin D /\ o + 1 \notin D
      BY <3>1 DEF Home
    <3>3. o + 1 <= s \/ o > last
      BY <3>1, <3>2
    <3>4. o \notin s + 1..last /\ o + 1 \notin s + 1..last
      BY <3>3
    <3> QED
      BY <3>2, <3>4 DEF Home
  <2> QED
    BY <2>1, <2>2, <2>4
<1>8. E \subseteq 1..n
  BY <1>1
<1> QED
  BY <1>4, <1>5, <1>6, <1>7, <1>8 DEF Kept

(* To put nothing into a text leaves it as it is.                           *)
LEMMA PutNothing ==
  ASSUME NEW t \in Seq(Chars), NEW p \in 0..Len(t), NEW s \in Seq(Chars)
  PROVE  Len(s) = 0 => Put(t, p, s) = t
<1> DEFINE u == Put(t, p, s)
<1>1. /\ u \in Seq(Chars) /\ Len(u) = Len(t) + Len(s)
      /\ \A i \in 1..p : u[i] = t[i]
      /\ \A i \in p + 1..p + Len(s) : u[i] = s[i - p]
      /\ \A i \in p + Len(s) + 1..Len(u) : u[i] = t[i - Len(s)]
  BY PutIs
<1>2. Len(t) \in Nat
  OBVIOUS
<1> HIDE DEF u
<1> HAVE Len(s) = 0
<1>3. ASSUME NEW i \in 1..Len(t) PROVE u[i] = t[i]
  <2>1. CASE i <= p
    BY <1>1, <1>2, <2>1
  <2>2. CASE i > p
    <3>1. i \in p + Len(s) + 1..Len(u) /\ i - Len(s) = i
      BY <1>1, <1>2, <2>2
    <3> QED
      BY <1>1, <3>1
  <2> QED
    BY <1>2, <2>1, <2>2
<1>4. u = t
  BY <1>1, <1>2, <1>3, SeqEqual
<1> QED
  BY <1>4 DEF u

(* Where the characters of a text were, or that they are put into it.        *)
PutIn(t, u, p, a, s) ==
  /\ u \in Seq(Chars) /\ Len(u) = Len(t) + Len(s) /\ Len(u) \in Nat /\ Len(s) \in Nat
  /\ \A i \in 1..Len(u) :
       \/ i \in p + 1..p + Len(s) /\ u[i].at = a /\ ~u[i].orig
       \/ \E j \in 1..Len(t) :
            u[i] = t[j] /\ ((j = i /\ i <= p) \/ (j = i - Len(s) /\ i > p + Len(s)))

(* Every character was there before or is of the string.                    *)
LEMMA PutSource ==
  ASSUME NEW t \in Seq(Chars), NEW p \in 0..Len(t), NEW a, NEW s, Inserted(s, a)
  PROVE  PutIn(t, Put(t, p, s), p, a, s)
<1> DEFINE u == Put(t, p, s)
<1>1. s \in Seq(Chars) /\ \A i \in 1..Len(s) : s[i].at = a /\ ~s[i].orig
  BY DEF Inserted
<1>2. /\ u \in Seq(Chars) /\ Len(u) = Len(t) + Len(s)
      /\ \A i \in 1..p : u[i] = t[i]
      /\ \A i \in p + 1..p + Len(s) : u[i] = s[i - p]
      /\ \A i \in p + Len(s) + 1..Len(u) : u[i] = t[i - Len(s)]
  BY <1>1, PutIs
<1>3. Len(t) \in Nat /\ Len(s) \in Nat
  BY <1>1, CharsTyped
<1> HIDE DEF u
<1>4. Len(u) \in Nat
  BY <1>2, <1>3
<1>5. ASSUME NEW i \in 1..Len(u)
      PROVE  \/ i \in p + 1..p + Len(s) /\ u[i].at = a /\ ~u[i].orig
             \/ \E j \in 1..Len(t) :
                  u[i] = t[j] /\ ((j = i /\ i <= p) \/ (j = i - Len(s) /\ i > p + Len(s)))
  <2>1. CASE i <= p
    <3>1. i \in 1..Len(t) /\ i \in 1..p
      BY <1>3, <2>1
    <3> QED
      BY <1>2, <2>1, <3>1
  <2>2. CASE i > p + Len(s)
    <3>1. i - Len(s) \in 1..Len(t) /\ i \in p + Len(s) + 1..Len(u)
      BY <1>2, <1>3, <2>2
    <3> QED
      BY <1>2, <2>2, <3>1
  <2>3. CASE i > p /\ i <= p + Len(s)
    <3>1. i \in p + 1..p + Len(s) /\ i - p \in 1..Len(s)
      BY <1>3, <2>3
    <3>2. u[i] = s[i - p]
      BY <1>2, <3>1
    <3>3. s[i - p].at = a /\ ~s[i - p].orig
      BY <1>1, <3>1
    <3> QED
      BY <3>1, <3>2, <3>3
  <2> QED
    BY <1>3, <2>1, <2>2, <2>3
<1> QED
  BY <1>2, <1>3, <1>4, <1>5 DEF u, PutIn

(* A string is put where its anchor belongs, and where no character of the
   original is.                                                              *)
Placed(t, u, a, p, s) ==
  /\ u = Put(t, p, s) /\ Inserted(s, a) /\ p \in 0..Len(t)
  /\ \A i \in 1..Len(t) : /\ i <= p => t[i].at <= a
                          /\ i > p => t[i].at >= a
                          /\ t[i].orig => t[i].at # a

(* A string moves the places behind its anchor by its length.               *)
LEMMA PutDivides ==
  ASSUME NEW t \in Seq(Chars), NEW u, NEW a \in Nat, NEW p, NEW s, Placed(t, u, a, p, s)
  PROVE  /\ \A c \in Int : \A k : c < a /\ Divides(t, c, k) => Divides(u, c, k)
         /\ \A c \in Int : \A k : c >= a /\ Divides(t, c, k) => Divides(u, c, k + Len(s))
<1>1. /\ u = Put(t, p, s) /\ Inserted(s, a) /\ p \in 0..Len(t)
      /\ \A i \in 1..Len(t) : (i <= p => t[i].at <= a) /\ (i > p => t[i].at >= a)
  BY DEF Placed
<1>2. Len(t) \in Nat /\ \A i \in 1..Len(t) : t[i].at \in Nat
  BY CharsTyped
<1>3. /\ u \in Seq(Chars) /\ Len(u) = Len(t) + Len(s) /\ Len(u) \in Nat /\ Len(s) \in Nat
      /\ \A i \in 1..Len(u) :
           \/ i \in p + 1..p + Len(s) /\ u[i].at = a /\ ~u[i].orig
           \/ \E j \in 1..Len(t) :
                u[i] = t[j] /\ ((j = i /\ i <= p) \/ (j = i - Len(s) /\ i > p + Len(s)))
  <2>1. PutIn(t, u, p, a, s)
    BY <1>1, PutSource
  <2> QED
    BY <2>1 DEF PutIn
<1> DEFINE l == Len(s)
<1>4. ASSUME NEW c \in Int, NEW k, c < a, Divides(t, c, k) PROVE Divides(u, c, k)
  <2>1. k \in 0..Len(t) /\ \A i \in 1..Len(t) : i <= k <=> t[i].at <= c
    BY <1>4, DividesIs
  <2>2. k <= p
    <3>1. CASE k > p
      <4>1. k \in 1..Len(t) /\ k <= k
        BY <1>1, <1>2, <2>1, <3>1
      <4>2. t[k].at <= c /\ t[k].at >= a /\ t[k].at \in Nat
        BY <1>1, <1>2, <2>1, <3>1, <4>1
      <4> QED
        BY <1>4, <4>2
    <3> QED
      BY <1>1, <1>2, <2>1, <3>1
  <2>3. k \in 0..Len(u)
    BY <1>1, <1>2, <1>3, <2>1
  <2>4. ASSUME NEW i \in 1..Len(u) PROVE i <= k <=> u[i].at <= c
    <3>1. CASE i \in p + 1..p + Len(s) /\ u[i].at = a
      BY <1>1, <1>2, <1>3, <1>4, <2>1, <2>2, <3>1
    <3>2. CASE \E j \in 1..Len(t) :
                 u[i] = t[j] /\ ((j = i /\ i <= p) \/ (j = i - Len(s) /\ i > p + Len(s)))
      <4>1. PICK j \in 1..Len(t) :
                   u[i] = t[j] /\ ((j = i /\ i <= p) \/ (j = i - Len(s) /\ i > p + Len(s)))
        BY <3>2
      <4>2. j <= k <=> t[j].at <= c
        BY <2>1
      <4>3. i <= k <=> j <= k
        BY <1>1, <1>2, <1>3, <2>1, <2>2, <4>1
      <4> QED
        BY <4>1, <4>2, <4>3
    <3> QED
      BY <1>3, <3>1, <3>2
  <2> QED
    BY <1>3, <2>3, <2>4, DividesIs
<1>5. ASSUME NEW c \in Int, NEW k, c >= a, Divides(t, c, k) PROVE Divides(u, c, k + Len(s))
  <2>1. k \in 0..Len(t) /\ \A i \in 1..Len(t) : i <= k <=> t[i].at <= c
    BY <1>5, DividesIs
  <2>2. p <= k
    <3>1. CASE k < p
      <4>1. p \in 1..Len(t) /\ p <= p /\ ~(p <= k)
        BY <1>1, <1>2, <2>1, <3>1
      <4>2. ~(t[p].at <= c) /\ t[p].at <= a /\ t[p].at \in Nat
        BY <1>1, <1>2, <2>1, <3>1, <4>1
      <4> QED
        BY <1>5, <4>2
    <3> QED
      BY <1>1, <1>2, <2>1, <3>1
  <2>3. k + Len(s) \in 0..Len(u)
    BY <1>1, <1>2, <1>3, <2>1
  <2>4. ASSUME NEW i \in 1..Len(u) PROVE i <= k + Len(s) <=> u[i].at <= c
    <3>1. CASE i \in p + 1..p + Len(s) /\ u[i].at = a
      BY <1>1, <1>2, <1>3, <1>5, <2>1, <2>2, <3>1
    <3>2. CASE \E j \in 1..Len(t) :
                 u[i] = t[j] /\ ((j = i /\ i <= p) \/ (j = i - Len(s) /\ i > p + Len(s)))
      <4>1. PICK j \in 1..Len(t) :
                   u[i] = t[j] /\ ((j = i /\ i <= p) \/ (j = i - Len(s) /\ i > p + Len(s)))
        BY <3>2
      <4>2. j <= k <=> t[j].at <= c
        BY <2>1
      <4>3. i <= k + Len(s) <=> j <= k
        BY <1>1, <1>2, <1>3, <2>1, <2>2, <4>1
      <4> QED
        BY <4>1, <4>2, <4>3
    <3> QED
      BY <1>3, <3>1, <3>2
  <2> QED
    BY <1>3, <2>3, <2>4, DividesIs
<1> QED
  BY <1>4, <1>5

(* A text stays one that is kept when a string is put where it belongs.     *)
LEMMA PutKept ==
  ASSUME NEW n \in Nat, NEW t, NEW D, Kept(n, t, D), NEW a \in Nat, a <= 2 * n,
         NEW u, NEW p, NEW s, Placed(t, u, a, p, s)
  PROVE  Kept(n, u, D)
<1>1. /\ t \in Seq(Chars) /\ Len(t) \in Nat /\ D \subseteq 1..n
      /\ \A i \in 1..Len(t) : /\ t[i].at \in Nat /\ t[i].orig \in BOOLEAN /\ t[i].at <= 2 * n
                              /\ t[i].orig => Home(n, D, t[i].at)
      /\ \A i, j \in 1..Len(t) : i < j => t[i].at <= t[j].at
      /\ \A i, j \in 1..Len(t) : t[i].orig /\ i # j => t[i].at # t[j].at
  BY KeptIs
<1>2. /\ u = Put(t, p, s) /\ Inserted(s, a) /\ p \in 0..Len(t)
      /\ \A i \in 1..Len(t) : /\ i <= p => t[i].at <= a
                              /\ i > p => t[i].at >= a
                              /\ t[i].orig => t[i].at # a
  BY DEF Placed
<1>3. /\ u \in Seq(Chars) /\ Len(u) = Len(t) + Len(s) /\ Len(u) \in Nat /\ Len(s) \in Nat
      /\ \A i \in 1..Len(u) :
           \/ i \in p + 1..p + Len(s) /\ u[i].at = a /\ ~u[i].orig
           \/ \E j \in 1..Len(t) :
                u[i] = t[j] /\ ((j = i /\ i <= p) \/ (j = i - Len(s) /\ i > p + Len(s)))
  <2>1. PutIn(t, u, p, a, s)
    BY <1>1, <1>2, PutSource
  <2> QED
    BY <2>1 DEF PutIn
<1> DEFINE New(i) == i \in p + 1..p + Len(s) /\ u[i].at = a /\ ~u[i].orig
           Was(i, j) == /\ u[i] = t[j]
                        /\ ((j = i /\ i <= p) \/ (j = i - Len(s) /\ i > p + Len(s)))
<1>4. \A i \in 1..Len(u) : New(i) \/ \E j \in 1..Len(t) : Was(i, j)
  BY <1>3
<1>5. ASSUME NEW i \in 1..Len(u), NEW j \in 1..Len(u), i < j PROVE u[i].at <= u[j].at
  <2>1. CASE New(i) /\ New(j)
    BY <2>1
  <2>2. CASE New(i) /\ \E y \in 1..Len(t) : Was(j, y)
    <3>1. PICK y \in 1..Len(t) : Was(j, y)
      BY <2>2
    <3>2. y > p
      BY <1>1, <1>2, <1>3, <1>5, <2>2, <3>1
    <3> QED
      BY <1>2, <2>2, <3>1, <3>2
  <2>3. CASE New(j) /\ \E x \in 1..Len(t) : Was(i, x)
    <3>1. PICK x \in 1..Len(t) : Was(i, x)
      BY <2>3
    <3>2. x <= p
      BY <1>1, <1>2, <1>3, <1>5, <2>3, <3>1
    <3> QED
      BY <1>2, <2>3, <3>1, <3>2
  <2>4. CASE (\E x \in 1..Len(t) : Was(i, x)) /\ (\E y \in 1..Len(t) : Was(j, y))
    <3>1. PICK x \in 1..Len(t) : Was(i, x)
      BY <2>4
    <3>2. PICK y \in 1..Len(t) : Was(j, y)
      BY <2>4
    <3>3. x < y
      BY <1>1, <1>2, <1>3, <1>5, <3>1, <3>2
    <3> QED
      BY <1>1, <3>1, <3>2, <3>3
  <2> QED
    BY <1>4, <2>1, <2>2, <2>3, <2>4
<1>6. ASSUME NEW i \in 1..Len(u), NEW j \in 1..Len(u), u[i].orig, i # j PROVE u[i].at # u[j].at
  <2>1. ~New(i)
    BY <1>6
  <2>2. PICK x \in 1..Len(t) : Was(i, x)
    BY <1>4, <2>1
  <2>3. t[x].orig
    BY <1>6, <2>2
  <2>4. CASE New(j)
    BY <1>2, <2>2, <2>3, <2>4
  <2>5. CASE \E y \in 1..Len(t) : Was(j, y)
    <3>1. PICK y \in 1..Len(t) : Was(j, y)
      BY <2>5
    <3>2. x # y
      BY <1>1, <1>2, <1>3, <1>6, <2>2, <3>1
    <3> QED
      BY <1>1, <2>2, <2>3, <3>1, <3>2
  <2> QED
    BY <1>4, <2>4, <2>5
<1>7. ASSUME NEW i \in 1..Len(u) PROVE u[i].at <= 2 * n /\ (u[i].orig => Home(n, D, u[i].at))
  <2>1. CASE New(i)
    BY <2>1
  <2>2. CASE \E x \in 1..Len(t) : Was(i, x)
    <3>1. PICK x \in 1..Len(t) : Was(i, x)
      BY <2>2
    <3> QED
      BY <1>1, <3>1
  <2> QED
    BY <1>4, <2>1, <2>2
<1>8. Sorted(u) /\ Alone(u)
  BY <1>5, <1>6 DEF Sorted, Alone
<1> QED
  BY <1>1, <1>3, <1>7, <1>8 DEF Kept

(* The offsets in use are mapped by what a tree counts.                      *)
Mapped(n, t, G, D) ==
  \A o \in 0..n \ D : Divides(t, 2 * o - 1, G[2 * o] + o) /\ Divides(t, 2 * o, G[2 * o + 1] + o)

(* G counts d more than F behind a.                                          *)
Behind(G, F, a, d) ==
  /\ F \in [Nat -> Int] /\ G \in [Nat -> Int]
  /\ \A x \in Nat : G[x] = F[x] + (IF a < x THEN d ELSE 0)

(* What is still in use after a cut is mapped if the tree counts the cut.   *)
LEMMA CutMapped ==
  ASSUME NEW n \in Nat, NEW t \in Seq(Chars), NEW D, NEW s \in Nat, NEW last \in Nat, s <= last,
         NEW u, NEW p, NEW q, Cut(t, u, 2 * s, 2 * last + 1, p, q),
         NEW F, NEW G, Mapped(n, t, F, D), Behind(G, F, 2 * s + 1, p - q)
  PROVE  Mapped(n, u, G, D \cup s + 1..last)
<1> DEFINE a == 2 * s
           b == 2 * last + 1
<1>1. Cut(t, u, a, b, p, q) /\ a \in Int /\ b \in Int
  OBVIOUS
<1> HIDE DEF a, b
<1>2. /\ p <= q /\ p \in Nat /\ q \in Nat
      /\ \A c \in Int : \A k : c <= a /\ Divides(t, c, k) => Divides(u, c, k)
      /\ \A c \in Int : \A k : c >= b /\ Divides(t, c, k) => Divides(u, c, k - (q - p))
  BY <1>1, CutDivides
<1>3. /\ F \in [Nat -> Int] /\ G \in [Nat -> Int]
      /\ \A x \in Nat : G[x] = F[x] + (IF 2 * s + 1 < x THEN p - q ELSE 0)
  BY DEF Behind
<1>4. ASSUME NEW o \in 0..n \ (D \cup s + 1..last)
      PROVE  Divides(u, 2 * o - 1, G[2 * o] + o) /\ Divides(u, 2 * o, G[2 * o + 1] + o)
  <2> DEFINE x == 2 * o
             y == 2 * o + 1
             c == 2 * o - 1
             k == F[x] + o
             m == F[y] + o
  <2>1. o \in Nat /\ o \in 0..n \ D /\ (o <= s \/ o > last) /\ x \in Nat /\ y \in Nat /\ c \in Int
    OBVIOUS
  <2>2. Divides(t, c, k) /\ Divides(t, x, m)
    BY <2>1 DEF Mapped
  <2>3. F[x] \in Int /\ F[y] \in Int
    BY <1>3, <2>1
  <2>4. CASE o <= s
    <3>1. c <= a /\ x <= a /\ ~(2 * s + 1 < x) /\ ~(2 * s + 1 < y)
      BY <2>1, <2>4 DEF a
    <3>2. G[x] = F[x] + 0 /\ G[y] = F[y] + 0
      BY <1>3, <2>1, <3>1
    <3>3. G[x] + o = k /\ G[y] + o = m
      BY <2>1, <2>3, <3>2
    <3> HIDE DEF c, x, y, k, m
    <3>4. Divides(u, c, k) /\ Divides(u, x, m)
      BY <1>2, <2>1, <2>2, <3>1
    <3> QED
      BY <3>3, <3>4 DEF c, x, y
  <2>5. CASE o > last
    <3>1. c >= b /\ x >= b /\ 2 * s + 1 < x /\ 2 * s + 1 < y
      BY <2>1, <2>5 DEF b
    <3>2. G[x] = F[x] + (p - q) /\ G[y] = F[y] + (p - q)
      BY <1>3, <2>1, <3>1
    <3>3. G[x] + o = k - (q - p) /\ G[y] + o = m - (q - p)
      BY <1>2, <2>1, <2>3, <3>2
    <3> HIDE DEF c, x, y, k, m
    <3>4. Divides(u, c, k - (q - p)) /\ Divides(u, x, m - (q - p))
      BY <1>2, <2>1, <2>2, <3>1
    <3> QED
      BY <3>3, <3>4 DEF c, x, y
  <2> QED
    BY <2>1, <2>4, <2>5
<1> QED
  BY <1>4 DEF Mapped

(* All in use is mapped if the tree counts what was put in.                 *)
LEMMA PutMapped ==
  ASSUME NEW n \in Nat, NEW t \in Seq(Chars), NEW D, NEW a \in Nat,
         NEW u, NEW p, NEW s, Placed(t, u, a, p, s),
         NEW F, NEW G, Mapped(n, t, F, D), Behind(G, F, a, Len(s))
  PROVE  Mapped(n, u, G, D)
<1> DEFINE l == Len(s)
<1>1. /\ \A c \in Int : \A k : c < a /\ Divides(t, c, k) => Divides(u, c, k)
      /\ \A c \in Int : \A k : c >= a /\ Divides(t, c, k) => Divides(u, c, k + l)
  BY PutDivides
<1>2. l \in Nat
  <2>1. s \in Seq(Chars)
    BY DEF Placed, Inserted
  <2> QED
    BY <2>1
<1>3. /\ F \in [Nat -> Int] /\ G \in [Nat -> Int]
      /\ \A x \in Nat : G[x] = F[x] + (IF a < x THEN l ELSE 0)
  BY DEF Behind
<1> HIDE DEF l
<1>4. ASSUME NEW o \in 0..n \ D, NEW x \in Nat, NEW c \in Int, c = x - 1, NEW k, k = F[x] + o,
             Divides(t, c, k)
      PROVE  Divides(u, c, G[x] + o)
  <2>1. F[x] \in Int /\ o \in Int
    BY <1>3
  <2>2. CASE x <= a
    <3>1. c < a /\ G[x] + o = k
      BY <1>3, <1>4, <2>1, <2>2
    <3> QED
      BY <1>1, <1>4, <3>1
  <2>3. CASE x > a
    <3>1. c >= a /\ G[x] + o = k + l
      BY <1>2, <1>3, <1>4, <2>1, <2>3
    <3> QED
      BY <1>1, <1>4, <3>1
  <2> QED
    BY <2>2, <2>3
<1>5. ASSUME NEW o \in 0..n \ D
      PROVE  Divides(u, 2 * o - 1, G[2 * o] + o) /\ Divides(u, 2 * o, G[2 * o + 1] + o)
  <2> DEFINE x == 2 * o
             y == 2 * o + 1
             c == 2 * o - 1
             k == F[x] + o
             m == F[y] + o
  <2>1. x \in Nat /\ y \in Nat /\ c \in Int /\ x \in Int /\ c = x - 1 /\ x = y - 1
    OBVIOUS
  <2>2. Divides(t, c, k) /\ Divides(t, x, m) /\ k = F[x] + o /\ m = F[y] + o
    BY DEF Mapped
  <2> HIDE DEF x, y, c, k, m
  <2>3. Divides(u, c, G[x] + o)
    BY <1>4, <2>1, <2>2
  <2>4. Divides(u, x, G[y] + o)
    BY <1>4, <2>1, <2>2
  <2> QED
    BY <2>3, <2>4 DEF x, y, c
<1> QED
  BY <1>5 DEF Mapped

(* What a tree counts.                                                       *)
Counts(tree) == [x \in Nat |-> GetDeltaAt(tree, x)]

(* A tree with no location behind 2n.                                        *)
Tree(n, tree) ==
  /\ tree.height \in Nat /\ VerifyTree(tree) /\ LocsOf(tree) \subseteq 0..2 * n
  /\ Counts(tree) \in [Nat -> Int]

(* AddDelta changes what a tree counts behind the location alone.           *)
LEMMA TreeAdded ==
  ASSUME NEW n \in Nat, NEW tree, Tree(n, tree), NEW a \in 0..2 * n, NEW d \in Int
  PROVE  LET next == AddDelta(tree, a, d)
         IN Tree(n, next) /\ Behind(Counts(next), Counts(tree), a, d)
<1> DEFINE next == AddDelta(tree, a, d)
<1>1. tree.height \in Nat /\ VerifyTree(tree) /\ LocsOf(tree) \subseteq 0..2 * n
  BY DEF Tree
<1>2. a \in Nat
  OBVIOUS
<1>3. /\ next.height \in Nat /\ VerifyTree(next) /\ LocsOf(next) = LocsOf(tree) \cup {a}
      /\ \A x \in Nat : GetDeltaAt(next, x) = GetDeltaAt(tree, x) + (IF a < x THEN d ELSE 0)
  BY <1>1, <1>2, DeltaAdded
<1> HIDE DEF next
<1>4. \A x \in Nat : Counts(tree)[x] = GetDeltaAt(tree, x) /\ Counts(next)[x] = GetDeltaAt(next, x)
  BY DEF Counts
<1>5. \A x \in Nat : Counts(tree)[x] \in Int
  BY DEF Tree
<1>6. \A x \in Nat : Counts(next)[x] = Counts(tree)[x] + (IF a < x THEN d ELSE 0)
  BY <1>3, <1>4
<1>7. \A x \in Nat : Counts(next)[x] \in Int
  BY <1>2, <1>5, <1>6
<1>8. Counts(next) \in [Nat -> Int]
  <2>1. Counts(next) = [x \in Nat |-> Counts(next)[x]]
    BY DEF Counts
  <2> HIDE DEF Counts
  <2> QED
    BY <1>7, <2>1
<1> QED
  BY <1>1, <1>3, <1>6, <1>8 DEF Tree, Behind, next

(* The empty tree counts nothing.                                           *)
LEMMA TreeAtFirst ==
  ASSUME NEW n \in Nat
  PROVE  Tree(n, Empty) /\ \A x \in Nat : Counts(Empty)[x] = 0
<1>1. \A x \in Nat : GetDeltaAt(Empty, x) = 0
  BY EmptyTree
<1>2. Counts(Empty) = [x \in Nat |-> 0]
  BY <1>1 DEF Counts
<1>3. VerifyTree(Empty) /\ Empty.height \in Nat /\ LocsOf(Empty) = {}
  BY EmptyTree, VerifyTreeIs
<1> QED
  BY <1>2, <1>3 DEF Tree

-----------------------------------------------------------------------------
(* A buffer: its text, its tree, and the offsets out of use.                 *)
Buffer(n, t, tree, D) == Kept(n, t, D) /\ Mapped(n, t, Counts(tree), D) /\ Tree(n, tree)

(* A buffer stays one when a string is put in and counted at its anchor.    *)
LEMMA PutBuffer ==
  ASSUME NEW n \in Nat, NEW t, NEW tree, NEW D, Buffer(n, t, tree, D), NEW a \in 0..2 * n,
         NEW u, NEW p, NEW s, Placed(t, u, a, p, s)
  PROVE  Buffer(n, u, AddDelta(tree, a, Len(s)), D)
<1> DEFINE next == AddDelta(tree, a, Len(s))
<1>1. Kept(n, t, D) /\ Mapped(n, t, Counts(tree), D) /\ Tree(n, tree)
  BY DEF Buffer
<1>2. a \in Nat /\ a <= 2 * n
  OBVIOUS
<1>3. Len(s) \in Int
  <2>1. s \in Seq(Chars)
    BY DEF Placed, Inserted
  <2> QED
    BY <2>1
<1>4. Tree(n, next) /\ Behind(Counts(next), Counts(tree), a, Len(s))
  BY <1>1, <1>3, TreeAdded
<1> HIDE DEF next
<1>5. Kept(n, u, D)
  BY <1>1, <1>2, PutKept
<1>6. t \in Seq(Chars)
  BY <1>1 DEF Kept
<1>7. Mapped(n, u, Counts(next), D)
  BY <1>1, <1>2, <1>4, <1>6, PutMapped
<1> QED
  BY <1>4, <1>5, <1>7 DEF Buffer, next

(* A buffer stays one when a range is cut out and counted at its first
   character.                                                               *)
LEMMA CutBuffer ==
  ASSUME NEW n \in Nat, NEW t, NEW tree, NEW D, Buffer(n, t, tree, D),
         NEW s \in Nat, NEW last \in Nat, s <= last, last < n,
         NEW u, NEW p, NEW q, Cut(t, u, 2 * s, 2 * last + 1, p, q)
  PROVE  Buffer(n, u, AddDelta(tree, 2 * s + 1, p - q), D \cup s + 1..last)
<1> DEFINE a == 2 * s + 1
           next == AddDelta(tree, a, p - q)
           E == D \cup s + 1..last
<1>1. Kept(n, t, D) /\ Mapped(n, t, Counts(tree), D) /\ Tree(n, tree)
  BY DEF Buffer
<1>2. t \in Seq(Chars)
  BY <1>1 DEF Kept
<1>3. a \in 0..2 * n /\ 2 * s \in Int /\ 2 * last + 1 \in Int
  OBVIOUS
<1>4. p - q \in Int
  <2>1. p \in Nat /\ q \in Nat
    BY <1>2, <1>3, CutDivides
  <2> QED
    BY <2>1
<1> HIDE DEF a
<1>5. Tree(n, next) /\ Behind(Counts(next), Counts(tree), a, p - q)
  BY <1>1, <1>3, <1>4, TreeAdded
<1> HIDE DEF next
<1>6. Kept(n, u, E)
  BY <1>1, CutKept
<1>7. Mapped(n, u, Counts(next), E)
  <2>1. Behind(Counts(next), Counts(tree), 2 * s + 1, p - q)
    BY <1>5 DEF a
  <2> QED
    BY <1>1, <1>2, <2>1, CutMapped
<1> QED
  BY <1>5, <1>6, <1>7 DEF Buffer, next, a

(* A cut and what is put there instead make one change of the tree.          *)
LEMMA ReplaceBuffer ==
  ASSUME NEW n \in Nat, NEW t, NEW tree, NEW D, Buffer(n, t, tree, D),
         NEW s \in Nat, NEW last \in Nat, s <= last, last < n,
         NEW u, NEW p, NEW q, Cut(t, u, 2 * s, 2 * last + 1, p, q),
         NEW new, Inserted(new, 2 * s + 1), NEW next,
         next = IF q - p = Len(new) THEN tree ELSE AddDelta(tree, 2 * s + 1, Len(new) - (q - p))
  PROVE  Buffer(n, Put(u, p, new), next, D \cup s + 1..last)
<1> DEFINE a == 2 * s + 1
           d == Len(new) - (q - p)
           E == D \cup s + 1..last
           v == Put(u, p, new)
<1>1. Kept(n, t, D) /\ Mapped(n, t, Counts(tree), D) /\ Tree(n, tree)
  BY DEF Buffer
<1>2. t \in Seq(Chars)
  BY <1>1 DEF Kept
<1>3. a \in 0..2 * n /\ a \in Nat /\ a <= 2 * n /\ 2 * s \in Int /\ 2 * last + 1 \in Int
  OBVIOUS
<1>4. /\ p \in Nat /\ q \in Nat
      /\ \A c \in Int : \A k : c <= 2 * s /\ Divides(t, c, k) => Divides(u, c, k)
      /\ \A c \in Int : \A k : c >= 2 * last + 1 /\ Divides(t, c, k) => Divides(u, c, k - (q - p))
  BY <1>2, <1>3, CutDivides
<1>5. Len(new) \in Nat /\ d \in Int /\ p - q \in Int
  <2>1. new \in Seq(Chars)
    BY DEF Inserted
  <2> QED
    BY <1>4, <2>1
<1>6. Kept(n, u, E)
  BY <1>1, CutKept
<1>7. Placed(u, v, a, p, new)
  <2>1. u \in Seq(Chars)
    BY <1>6 DEF Kept
  <2>2. Divides(t, 2 * s, p) /\ Divides(t, 2 * last + 1, q)
    BY DEF Cut
  <2>3. Divides(u, 2 * s, p) /\ Divides(u, 2 * last + 1, q - (q - p))
    BY <1>3, <1>4, <2>2
  <2>4. q - (q - p) = p
    BY <1>4
  <2>5. /\ p \in 0..Len(u) /\ \A i \in 1..Len(u) : i <= p <=> u[i].at <= 2 * s
        /\ \A i \in 1..Len(u) : i <= p <=> u[i].at <= 2 * last + 1
    BY <2>1, <2>3, <2>4, DividesIs
  <2>6. \A i \in 1..Len(u) : u[i].at \in Nat
    BY <2>1, CharsTyped
  <2>7. ASSUME NEW i \in 1..Len(u)
        PROVE  /\ i <= p => u[i].at <= a
               /\ i > p => u[i].at >= a
               /\ u[i].at # a
    <3>1. u[i].at \in Nat /\ (i <= p <=> u[i].at <= 2 * s) /\ (i <= p <=> u[i].at <= 2 * last + 1)
      BY <2>5, <2>6
    <3>2. i \in Nat
      OBVIOUS
    <3> QED
      BY <1>4, <3>1, <3>2
  <2> QED
    BY <2>5, <2>7 DEF Placed
<1> HIDE DEF v
<1>8. \E F : Mapped(n, u, F, E) /\ Behind(Counts(next), F, a, Len(new)) /\ Tree(n, next)
  <2> DEFINE F == [x \in Nat |-> Counts(tree)[x] + (IF a < x THEN p - q ELSE 0)]
  <2>1. Counts(tree) \in [Nat -> Int]
    BY <1>1 DEF Tree
  <2>2. \A x \in Nat : Counts(tree)[x] + (IF a < x THEN p - q ELSE 0) \in Int
    BY <1>3, <1>5, <2>1
  <2>3. Behind(F, Counts(tree), a, p - q)
    BY <2>1, <2>2 DEF Behind
  <2> HIDE DEF F
  <2>4. Mapped(n, u, F, E)
    BY <1>1, <1>2, <2>3, CutMapped
  <2>5. Tree(n, next) /\ Behind(Counts(next), Counts(tree), a, d)
    <3>1. CASE q - p = Len(new)
      <4>1. next = tree
        BY <3>1
      <4>2. d = 0
        BY <1>4, <1>5, <3>1
      <4>3. Behind(Counts(tree), Counts(tree), a, d)
        BY <2>1, <4>2 DEF Behind
      <4> QED
        BY <1>1, <4>1, <4>3
    <3>2. CASE q - p # Len(new)
      <4>1. next = AddDelta(tree, a, d)
        BY <3>2
      <4> HIDE DEF a, d
      <4> QED
        BY <1>1, <1>3, <1>5, <4>1, TreeAdded
    <3> QED
      BY <3>1, <3>2
  <2>6. Behind(Counts(next), F, a, Len(new))
    <3>1. /\ Counts(next) \in [Nat -> Int] /\ F \in [Nat -> Int]
          /\ \A x \in Nat : Counts(next)[x] = Counts(tree)[x] + (IF a < x THEN d ELSE 0)
          /\ \A x \in Nat : F[x] = Counts(tree)[x] + (IF a < x THEN p - q ELSE 0)
      BY <2>3, <2>5 DEF Behind
    <3>2. ASSUME NEW x \in Nat
          PROVE  Counts(next)[x] = F[x] + (IF a < x THEN Len(new) ELSE 0)
      <4>1. Counts(tree)[x] \in Int /\ d = Len(new) - (q - p)
        BY <2>1
      <4>2. /\ Counts(next)[x] = Counts(tree)[x] + (IF a < x THEN d ELSE 0)
            /\ F[x] = Counts(tree)[x] + (IF a < x THEN p - q ELSE 0)
        BY <3>1
      <4> DEFINE z == Counts(tree)[x]
                 l == Len(new)
      <4>3. z \in Int /\ l \in Int /\ d = l - (q - p)
        BY <1>5, <4>1
      <4> HIDE DEF d, z, l
      <4>4. CASE a < x
        BY <1>4, <4>2, <4>3, <4>4 DEF z, l
      <4>5. CASE ~(a < x)
        BY <1>4, <4>2, <4>3, <4>5 DEF z, l
      <4> QED
        BY <4>4, <4>5
    <3> QED
      BY <3>1, <3>2 DEF Behind
  <2> QED
    BY <2>4, <2>5, <2>6
<1>9. u \in Seq(Chars)
  BY <1>6 DEF Kept
<1> HIDE DEF a, d, E
<1>10. Kept(n, v, E)
  BY <1>3, <1>6, <1>7, PutKept
<1>11. Mapped(n, v, Counts(next), E)
  BY <1>3, <1>7, <1>8, <1>9, PutMapped
<1> QED
  BY <1>8, <1>10, <1>11 DEF Buffer, v, E

(* A character of the original is the only one at its anchor.                *)
LEMMA Single ==
  ASSUME NEW n \in Nat, NEW t, NEW D, Kept(n, t, D), NEW i \in 1..Len(t), t[i].orig, NEW a \in Int,
         t[i].at = a
  PROVE  /\ Divides(t, a, i)
         /\ \A p : Divides(t, a - 1, p) => i = p + 1
<1>1. /\ t \in Seq(Chars) /\ Len(t) \in Nat
      /\ \A j \in 1..Len(t) : t[j].at \in Nat
      /\ \A j, k \in 1..Len(t) : j < k => t[j].at <= t[k].at
      /\ \A j, k \in 1..Len(t) : t[j].orig /\ j # k => t[j].at # t[k].at
  BY KeptIs
<1>2. ASSUME NEW j \in 1..Len(t) PROVE j <= i <=> t[j].at <= a
  <2>1. t[j].at \in Nat /\ t[i].at \in Nat /\ i \in Nat /\ j \in Nat
    BY <1>1
  <2>2. CASE j < i
    <3>1. t[j].at <= t[i].at
      BY <1>1, <2>2
    <3> QED
      BY <2>1, <2>2, <3>1
  <2>3. CASE j = i
    BY <2>1, <2>3
  <2>4. CASE j > i
    <3>1. t[i].at <= t[j].at
      BY <1>1, <2>4
    <3>2. t[i].at # t[j].at
      BY <1>1, <2>1, <2>4
    <3> QED
      BY <2>1, <2>4, <3>1, <3>2
  <2> QED
    BY <2>1, <2>2, <2>3, <2>4
<1>3. Divides(t, a, i)
  BY <1>1, <1>2, DividesIs
<1>4. ASSUME NEW p, Divides(t, a - 1, p) PROVE i = p + 1
  <2>1. p \in 0..Len(t) /\ \A j \in 1..Len(t) : j <= p <=> t[j].at <= a - 1
    BY <1>1, <1>4, DividesIs
  <2>2. i > p
    BY <1>1, <2>1
  <2>3. CASE i > p + 1
    <3> DEFINE j == p + 1
    <3>1. j \in 1..Len(t) /\ ~(j <= p) /\ j < i /\ j # i
      BY <1>1, <2>1, <2>3
    <3> HIDE DEF j
    <3>2. t[j].at \in Nat /\ ~(t[j].at <= a - 1) /\ t[j].at <= a
      BY <1>1, <2>1, <3>1
    <3>3. t[i].at # t[j].at
      BY <1>1, <3>1
    <3> QED
      BY <3>2, <3>3
  <2> QED
    BY <1>1, <2>1, <2>2, <2>3
<1> QED
  BY <1>3, <1>4

(* Where nothing is anchored, before and after are one place.                *)
LEMMA NoneThere ==
  ASSUME NEW t \in Seq(Chars), NEW a \in Int, \A i \in DOMAIN t : t[i].at # a,
         NEW k, Divides(t, a - 1, k), NEW m, Divides(t, a, m)
  PROVE  k = m
<1>1. DOMAIN t = 1..Len(t) /\ Len(t) \in Nat /\ \A i \in 1..Len(t) : t[i].at \in Nat
  BY CharsTyped
<1>2. /\ k \in 0..Len(t) /\ \A i \in 1..Len(t) : i <= k <=> t[i].at <= a - 1
      /\ m \in 0..Len(t) /\ \A i \in 1..Len(t) : i <= m <=> t[i].at <= a
  BY DividesIs
<1>3. k <= m
  <2>1. a - 1 \in Int /\ a - 1 <= a
    OBVIOUS
  <2> QED
    BY <2>1, DividesMonotone
<1>4. CASE k < m
  <2>1. m \in 1..Len(t) /\ m <= m /\ ~(m <= k)
    BY <1>1, <1>2, <1>4
  <2>2. t[m].at \in Nat /\ t[m].at <= a /\ ~(t[m].at <= a - 1) /\ t[m].at # a
    BY <1>1, <1>2, <2>1
  <2> QED
    BY <2>2
<1> QED
  BY <1>1, <1>2, <1>3, <1>4

(* An anchor divides a text at one place.                                   *)
LEMMA OnePlace ==
  ASSUME NEW t \in Seq(Chars), NEW a \in Int, NEW k, Divides(t, a, k), NEW m, Divides(t, a, m)
  PROVE  k = m
<1>1. a <= a
  OBVIOUS
<1>2. k <= m /\ m <= k /\ k \in Nat /\ m \in Nat
  BY <1>1, DividesMonotone
<1> QED
  BY <1>2

-----------------------------------------------------------------------------
(* The states                                                                *)

BufferKept ==
  /\ original \in Originals /\ edits \in 0..MaxEdits[original]
  /\ Buffer(Len(original), text, deltas, dead)

(* What the parts of the invariant say of the state.                        *)
LEMMA StateIs ==
  ASSUME BufferKept
  PROVE  /\ original \in Originals /\ Len(original) \in Nat /\ 0..Len(original) \subseteq Offsets
         /\ MaxEdits[original] \in Nat /\ edits \in 0..MaxEdits[original]
         /\ Buffer(Len(original), text, deltas, dead)
         /\ Kept(Len(original), text, dead) /\ Tree(Len(original), deltas)
         /\ text \in Seq(Chars) /\ Len(text) \in Nat /\ DOMAIN text = 1..Len(text)
         /\ dead \subseteq 1..Len(original)
<1>1. /\ original \in Originals /\ Kept(Len(original), text, dead) /\ Tree(Len(original), deltas)
      /\ edits \in 0..MaxEdits[original] /\ Buffer(Len(original), text, deltas, dead)
  BY DEF BufferKept, Buffer
<1>2. Len(original) \in Nat /\ 0..Len(original) \subseteq Offsets /\ MaxEdits[original] \in Nat
  BY <1>1, StringsAre
<1> QED
  BY <1>1, <1>2, KeptIs

(* getMappedOffset is right of every offset in use.                         *)
LEMMA MappedIs ==
  ASSUME BufferKept, NEW o \in 0..Len(original) \ dead
  PROVE  /\ Divides(text, 2 * o - 1, GetMappedOffset(o, FALSE))
         /\ Divides(text, 2 * o, GetMappedOffset(o, TRUE))
<1>1. Mapped(Len(original), text, Counts(deltas), dead) /\ Len(original) \in Nat
  BY StateIs DEF BufferKept, Buffer
<1>2. /\ Divides(text, 2 * o - 1, Counts(deltas)[2 * o] + o)
      /\ Divides(text, 2 * o, Counts(deltas)[2 * o + 1] + o)
  BY <1>1 DEF Mapped
<1>3. 2 * o \in Nat /\ 2 * o + 1 \in Nat /\ 2 * o + 0 = 2 * o
  BY <1>1
<1>4. /\ Counts(deltas)[2 * o] = GetDeltaAt(deltas, 2 * o)
      /\ Counts(deltas)[2 * o + 1] = GetDeltaAt(deltas, 2 * o + 1)
  BY <1>3 DEF Counts
<1>5. /\ GetMappedOffset(o, FALSE) = GetDeltaAt(deltas, 2 * o) + o
      /\ GetMappedOffset(o, TRUE) = GetDeltaAt(deltas, 2 * o + 1) + o
  BY <1>3 DEF GetMappedOffset
<1> QED
  BY <1>2, <1>4, <1>5

(* A character that is still there.                                          *)
LEMMA PresentIs ==
  ASSUME BufferKept, NEW o \in Nat, Present(o)
  PROVE  /\ o \in 0..Len(original) - 1 /\ o \notin dead /\ o + 1 \notin dead
         /\ o \in 0..Len(original) \ dead /\ o + 1 \in 0..Len(original) \ dead
         /\ Divides(text, 2 * o + 1, GetMappedOffset(o, TRUE) + 1)
         /\ GetMappedOffset(o + 1, FALSE) = GetMappedOffset(o, TRUE) + 1
<1> DEFINE n == Len(original)
           p == GetMappedOffset(o, TRUE)
           r == GetMappedOffset(o + 1, FALSE)
           a == 2 * o + 1
<1>1. n \in Nat /\ Kept(n, text, dead) /\ text \in Seq(Chars) /\ DOMAIN text = 1..Len(text)
  BY StateIs
<1>2. PICK i \in 1..Len(text) : text[i].orig /\ text[i].at = a
  BY <1>1 DEF Present
<1>3. o \in 0..n - 1 /\ o \notin dead /\ o + 1 \notin dead
  <2>1. Home(n, dead, a)
    BY <1>1, <1>2, KeptIs
  <2> HIDE DEF n
  <2>2. PICK x \in 0..n - 1 : a = 2 * x + 1 /\ x \notin dead /\ x + 1 \notin dead
    BY <2>1 DEF Home
  <2>3. x = o
    BY <1>1, <2>2
  <2> QED
    BY <2>2, <2>3
<1>4. o \in 0..n \ dead /\ o + 1 \in 0..n \ dead
  BY <1>1, <1>3
<1>5. 2 * (o + 1) - 1 = a /\ 2 * o = a - 1 /\ a \in Int
  OBVIOUS
<1>6. Divides(text, a - 1, p) /\ Divides(text, a, r)
  <2>1. Divides(text, 2 * o, p)
    BY <1>4, MappedIs
  <2>2. Divides(text, 2 * (o + 1) - 1, r)
    BY <1>4, MappedIs
  <2> HIDE DEF a, p, r
  <2> QED
    BY <1>5, <2>1, <2>2
<1> HIDE DEF p, r, a
<1>7. Divides(text, a, i) /\ i = p + 1
  BY <1>1, <1>2, <1>5, <1>6, Single
<1>8. r = i
  BY <1>1, <1>5, <1>6, <1>7, OnePlace
<1> QED
  BY <1>3, <1>4, <1>7, <1>8 DEF p, r, a

(* An offset at which nothing was inserted.                                  *)
LEMMA NotInsertedAt ==
  ASSUME BufferKept, NEW o \in 0..Len(original) \ dead, ~InsertedAt(o)
  PROVE  GetMappedOffset(o, FALSE) = GetMappedOffset(o, TRUE)
<1> DEFINE a == 2 * o
           p == GetMappedOffset(o, FALSE)
           q == GetMappedOffset(o, TRUE)
<1>1. text \in Seq(Chars)
  BY StateIs
<1>2. Divides(text, a - 1, p) /\ Divides(text, a, q)
  BY MappedIs
<1>3. \A i \in DOMAIN text : text[i].at # a
  BY DEF InsertedAt
<1>4. a \in Int
  OBVIOUS
<1> HIDE DEF a, p, q
<1>5. p = q
  BY <1>1, <1>2, <1>3, <1>4, NoneThere
<1> QED
  BY <1>5 DEF p, q

-----------------------------------------------------------------------------
(* Insertions                                                                *)
LEMMA InsertionKeeps ==
  ASSUME BufferKept, NEW o \in 0..Len(original) \ dead, NEW str \in Strings,
         NEW after \in BOOLEAN, BufferInsertText(o, str, after)
  PROVE  Buffer(Len(original), text', deltas', dead)
<1> DEFINE n == Len(original)
           a == 2 * o
           p == GetMappedOffset(o, after)
           s == Anchored!Anchored(str, a)
<1>1. /\ n \in Nat /\ Kept(n, text, dead) /\ text \in Seq(Chars)
      /\ Buffer(n, text, deltas, dead)
  BY StateIs
<1>2. a \in 0..2 * n /\ a \in Nat /\ a \in Int
  BY <1>1
<1>3. Inserted(s, a) /\ Len(s) = Len(str)
  <2>1. str \in Seq(Letters)
    BY StringsAre
  <2> HIDE DEF a
  <2> QED
    BY <1>2, <2>1, AnchoredIs
<1>4. /\ text' = Put(text, p, s)
      /\ deltas' = IF str = <<>> THEN deltas ELSE AddDelta(deltas, a, Len(s))
  BY <1>3 DEF BufferInsertText, AddInsertDelta
<1>5. Divides(text, a - 1, p) \/ Divides(text, a, p)
  BY MappedIs
<1>6. \A i \in 1..Len(text) : /\ text[i].at \in Nat
                              /\ text[i].orig => Home(n, dead, text[i].at)
  BY <1>1, KeptIs
<1>7. ASSUME NEW i \in 1..Len(text) PROVE text[i].orig => text[i].at # a
  <2>1. ASSUME text[i].orig PROVE text[i].at # a
    <3>1. Home(n, dead, text[i].at)
      BY <1>6, <2>1
    <3>2. PICK x \in 0..n - 1 : text[i].at = 2 * x + 1
      BY <3>1 DEF Home
    <3> QED
      BY <1>1, <3>2
  <2> QED
    BY <2>1
<1> HIDE DEF a, p, s
<1>8. /\ p \in 0..Len(text)
      /\ \/ \A i \in 1..Len(text) : i <= p <=> text[i].at <= a - 1
         \/ \A i \in 1..Len(text) : i <= p <=> text[i].at <= a
  BY <1>1, <1>5, DividesIs
<1>9. Len(text) \in Nat
  BY <1>1
<1>10. ASSUME NEW i \in 1..Len(text) PROVE (i <= p => text[i].at <= a) /\ (i > p => text[i].at >= a)
  <2>1. text[i].at \in Nat /\ i \in Nat /\ p \in Nat
    BY <1>6, <1>8, <1>9
  <2>2. (i <= p <=> text[i].at <= a - 1) \/ (i <= p <=> text[i].at <= a)
    BY <1>8
  <2> QED
    BY <1>2, <2>1, <2>2
<1>11. Placed(text, text', a, p, s)
  BY <1>3, <1>4, <1>7, <1>8, <1>10 DEF Placed
<1>12. CASE str = <<>>
  <2>1. s \in Seq(Chars) /\ Len(s) = 0
    BY <1>3, <1>12 DEF Inserted
  <2>2. Put(text, p, s) = text
    BY <1>1, <1>8, <2>1, PutNothing
  <2> QED
    BY <1>1, <1>4, <1>12, <2>2 DEF n
<1>13. CASE str # <<>>
  <2>1. Buffer(n, text', AddDelta(deltas, a, Len(s)), dead)
    BY <1>1, <1>2, <1>11, PutBuffer
  <2> QED
    BY <1>4, <1>13, <2>1 DEF n
<1> QED
  BY <1>12, <1>13

(* An offset in use is mapped into the buffer.                              *)
LEMMA PlaceIs ==
  ASSUME BufferKept, NEW o \in 0..Len(original) \ dead
  PROVE  GetMappedOffset(o, FALSE) \in Nat /\ GetMappedOffset(o, TRUE) \in Nat
<1> DEFINE p == GetMappedOffset(o, FALSE)
           q == GetMappedOffset(o, TRUE)
<1>1. p \in 0..Len(text) /\ q \in 0..Len(text)
  BY MappedIs DEF Divides
<1>2. Len(text) \in Nat
  BY StateIs
<1> HIDE DEF p, q
<1>3. p \in Nat /\ q \in Nat
  BY <1>1, <1>2
<1> QED
  BY <1>3 DEF p, q

(* A token is one character.                                                 *)
LEMMA AfterTokenIs ==
  ASSUME BufferKept, NEW o \in 0..Len(original) \ dead
  PROVE  GetRangeSize(o, o, TRUE, AfterToken) = 1
<1>1. AfterToken.begin = FALSE /\ AfterToken.end = TRUE
  BY DEF AfterToken
<1>2. GetRangeSize(o, o, TRUE, AfterToken) = GetMappedOffset(o, TRUE) + 1 - GetMappedOffset(o, TRUE)
  BY <1>1, Zenon DEF GetRangeSize
<1> DEFINE p == GetMappedOffset(o, TRUE)
           m == GetRangeSize(o, o, TRUE, AfterToken)
<1>3. p \in Nat
  BY PlaceIs
<1>4. m = p + 1 - p
  BY <1>2
<1> HIDE DEF p, m
<1>5. m = 1
  BY <1>3, <1>4
<1> QED
  BY <1>5 DEF m

-----------------------------------------------------------------------------
(* Ranges                                                                    *)

(* The first m characters behind the place of s are those up to `last`.      *)
Spans(s, last, m) ==
  /\ s \in 0..Len(original) \ dead /\ last \in Nat /\ s <= last /\ last < Len(original)
  /\ m \in Int
  /\ Divides(text, 2 * s, GetMappedOffset(s, TRUE))
  /\ Divides(text, 2 * last + 1, GetMappedOffset(s, TRUE) + m)

(* A size that reaches behind the last character spans the range.           *)
LEMMA PresentSpans ==
  ASSUME BufferKept, NEW s \in Nat, NEW last \in Nat, s <= last, Present(s), Present(last),
         NEW m \in Int, GetMappedOffset(s, TRUE) + m = GetMappedOffset(last, TRUE) + 1
  PROVE  Spans(s, last, m)
<1>1. Len(original) \in Nat
  BY StateIs
<1>2. s \in 0..Len(original) \ dead /\ last \in 0..Len(original) - 1
  BY PresentIs
<1>3. last < Len(original)
  BY <1>1, <1>2
<1>4. Divides(text, 2 * s, GetMappedOffset(s, TRUE))
  BY <1>2, MappedIs
<1>5. Divides(text, 2 * last + 1, GetMappedOffset(last, TRUE) + 1)
  BY PresentIs
<1>6. Divides(text, 2 * last + 1, GetMappedOffset(s, TRUE) + m)
  BY <1>5, Zenon
<1> QED
  BY <1>2, <1>3, <1>4, <1>6, Zenon DEF Spans

(* A range that no edit has touched has as many characters as in the
   original.                                                                *)
LEMMA IntactSpans ==
  ASSUME BufferKept, NEW s \in Nat, NEW last \in Nat, s <= last, Intact(s, last)
  PROVE  Spans(s, last, last - s + 1)
<1> DEFINE p == GetMappedOffset(s, TRUE)
           T == {k \in Nat : s + k <= last => GetMappedOffset(s + k, TRUE) = p + k}
<1>1. /\ \A o \in s..last : Present(o)
      /\ \A o \in s + 1..last : ~InsertedAt(o)
  BY DEF Intact
<1>2. s \in s..last /\ last \in s..last
  OBVIOUS
<1>3. p \in Nat
  <2>1. Present(s)
    BY <1>1, <1>2
  <2> QED
    BY <2>1, PresentIs, PlaceIs
<1>4. 0 \in T
  <2>1. s + 0 = s /\ GetMappedOffset(s, TRUE) = p
    OBVIOUS
  <2> HIDE DEF p
  <2>2. p + 0 = p
    BY <1>3
  <2>3. GetMappedOffset(s + 0, TRUE) = p + 0
    BY <2>1, <2>2, Zenon
  <2> QED
    BY <2>3
<1>5. ASSUME NEW k \in Nat, k \in T PROVE k + 1 \in T
  <2>1. ASSUME s + (k + 1) <= last PROVE GetMappedOffset(s + (k + 1), TRUE) = p + (k + 1)
    <3> DEFINE o == s + k
               x == s + (k + 1)
    <3>1. o \in Nat /\ o \in s..last /\ x = o + 1 /\ x \in s + 1..last /\ s + k <= last
      BY <2>1
    <3>2. Present(o) /\ ~InsertedAt(x)
      BY <1>1, <3>1
    <3>3. GetMappedOffset(o, TRUE) = p + k
      BY <1>5, <3>1
    <3> HIDE DEF o, x, p
    <3>4. o + 1 \in 0..Len(original) \ dead /\ GetMappedOffset(o + 1, FALSE) = GetMappedOffset(o, TRUE) + 1
      BY <3>1, <3>2, PresentIs
    <3>5. GetMappedOffset(x, FALSE) = GetMappedOffset(x, TRUE)
      BY <3>1, <3>2, <3>4, NotInsertedAt
    <3>6. GetMappedOffset(x, TRUE) = (p + k) + 1
      BY <3>1, <3>3, <3>4, <3>5
    <3>7. (p + k) + 1 = p + (k + 1)
      BY <1>3
    <3> QED
      BY <3>6, <3>7 DEF x
  <2>2. k + 1 \in Nat
    OBVIOUS
  <2> QED
    BY <2>1, <2>2, Zenon
<1> HIDE DEF T
<1>6. Nat \subseteq T
  BY <1>4, <1>5, AllNumbers
<1>7. GetMappedOffset(last, TRUE) = p + (last - s)
  <2> DEFINE k == last - s
  <2>1. k \in Nat /\ s + k = last
    OBVIOUS
  <2> HIDE DEF k, p
  <2>2. k \in T
    BY <1>6, <2>1
  <2>3. s + k <= last => GetMappedOffset(s + k, TRUE) = p + k
    BY <2>2 DEF T, p
  <2>4. s + k <= last
    BY <2>1
  <2>5. GetMappedOffset(s + k, TRUE) = p + k
    BY <2>3, <2>4
  <2> QED
    BY <2>1, <2>5 DEF k
<1>8. p + (last - s + 1) = GetMappedOffset(last, TRUE) + 1
  <2> DEFINE r == GetMappedOffset(last, TRUE)
  <2>1. r = p + (last - s)
    BY <1>7
  <2> HIDE DEF p, r
  <2>2. p + (last - s + 1) = r + 1
    BY <1>3, <2>1
  <2> QED
    BY <2>2 DEF r
<1>9. last - s + 1 \in Int
  OBVIOUS
<1> QED
  BY <1>1, <1>2, <1>8, <1>9, PresentSpans

(* getRangeSize spans the range unless its options are at odds with what
   was inserted at its ends.                                                *)
LEMMA RangeSpans ==
  ASSUME BufferKept, ~InsertsAtEnds, NEW s \in Nat, NEW last \in Nat,
         NEW tokens \in BOOLEAN, NEW opts \in Options, Editable(s, last, tokens, opts)
  PROVE  Spans(s, last, GetRangeSize(s, last, tokens, opts))
<1> DEFINE p == GetMappedOffset(s, TRUE)
           r == GetMappedOffset(last, TRUE)
           m == GetRangeSize(s, last, tokens, opts)
<1>1. /\ s <= last /\ Present(s) /\ Present(last)
      /\ opts.begin => ~InsertedAt(s)
      /\ tokens => opts.end \/ ~InsertedAt(last)
      /\ ~tokens => (opts.end => ~InsertedAt(last + 1))
  BY Zenon DEF Editable
<1>2. opts.begin \in BOOLEAN /\ opts.end \in BOOLEAN
  BY DEF Options
<1>3. /\ s \in 0..Len(original) \ dead /\ last \in 0..Len(original) \ dead
      /\ last + 1 \in 0..Len(original) \ dead /\ GetMappedOffset(last + 1, FALSE) = r + 1
  BY <1>1, PresentIs
<1>4. p \in Nat /\ r \in Nat
  BY <1>3, PlaceIs
<1>5. GetMappedOffset(s, ~opts.begin) = p
  <2>1. CASE opts.begin = TRUE
    BY <1>1, <1>3, <2>1, NotInsertedAt
  <2>2. CASE opts.begin = FALSE
    BY <2>2
  <2> QED
    BY <1>2, <2>1, <2>2
<1>6. CASE tokens
  <2>1. GetMappedOffset(last, opts.end) = r
    <3>1. CASE opts.end = TRUE
      BY <3>1
    <3>2. CASE opts.end = FALSE
      <4>1. ~InsertedAt(last)
        BY <1>1, <1>6, <3>2
      <4> QED
        BY <1>3, <3>2, <4>1, NotInsertedAt
    <3> QED
      BY <1>2, <3>1, <3>2
  <2>2. m = GetMappedOffset(last, opts.end) + 1 - GetMappedOffset(s, ~opts.begin)
    BY <1>6 DEF GetRangeSize
  <2> HIDE DEF p, r, m
  <2>3. p + m = r + 1 /\ m \in Int
    BY <1>4, <1>5, <2>1, <2>2
  <2> QED
    BY <1>1, <2>3, PresentSpans DEF p, r, m
<1>7. CASE ~tokens
  <2>1. GetMappedOffset(last + 1, opts.end) = r + 1
    <3>1. CASE opts.end = TRUE
      <4>1. ~InsertedAt(last + 1)
        BY <1>1, <1>7, <3>1
      <4>2. GetMappedOffset(last + 1, FALSE) = GetMappedOffset(last + 1, TRUE)
        BY <1>3, <4>1, NotInsertedAt
      <4> QED
        BY <1>3, <3>1, <4>2
    <3>2. CASE opts.end = FALSE
      BY <1>3, <3>2
    <3> QED
      BY <1>2, <3>1, <3>2
  <2>2. m = GetMappedOffset(last + 1, opts.end) - GetMappedOffset(s, ~opts.begin)
    BY <1>7 DEF GetRangeSize
  <2> HIDE DEF p, r, m
  <2>3. p + m = r + 1 /\ m \in Int
    BY <1>4, <1>5, <2>1, <2>2
  <2> QED
    BY <1>1, <2>3, PresentSpans DEF p, r, m
<1> QED
  BY <1>6, <1>7

-----------------------------------------------------------------------------
(* Replacements and removals                                                 *)

(* To remove a span is to cut all between two anchors.                      *)
LEMMA SpanIs ==
  ASSUME BufferKept, NEW s, NEW last, NEW m, Spans(s, last, m),
         NEW p, p = GetMappedOffset(s, TRUE)
  PROVE  /\ s \in Nat /\ last \in Nat /\ s <= last /\ last < Len(original) /\ m \in Int
         /\ p \in Nat /\ p + m \in 0..Len(text) /\ p \in 0..Len(text)
         /\ Cut(text, Anchored!Without(text, p, p + m), 2 * s, 2 * last + 1, p, p + m)
<1> DEFINE q == p + m
<1>1. /\ s \in 0..Len(original) \ dead /\ last \in Nat /\ s <= last /\ last < Len(original) /\ m \in Int
      /\ Divides(text, 2 * s, p) /\ Divides(text, 2 * last + 1, q)
  BY DEF Spans
<1>2. p \in Nat
  BY <1>1, PlaceIs
<1>3. p \in 0..Len(text) /\ q \in 0..Len(text)
  BY <1>1 DEF Divides
<1>4. s \in Nat /\ 2 * s <= 2 * last + 1
  <2>1. Len(original) \in Nat
    BY StateIs
  <2> QED
    BY <1>1, <2>1
<1>5. Cut(text, Anchored!Without(text, p, q), 2 * s, 2 * last + 1, p, q)
  BY <1>1, <1>4 DEF Cut
<1> QED
  BY <1>1, <1>2, <1>3, <1>4, <1>5

(* ReplaceText keeps a buffer.                                              *)
LEMMA ReplacementKeeps ==
  ASSUME BufferKept, NEW s, NEW last, NEW m, Spans(s, last, m), NEW str \in Strings,
         BufferReplaceText(s, m, str)
  PROVE  Buffer(Len(original), text', deltas', dead \cup s + 1..last)
<1> DEFINE n == Len(original)
           p == GetMappedOffset(s, TRUE)
           q == p + m
           a == 2 * s + 1
           new == Anchored!Anchored(str, a)
           u == Anchored!Without(text, p, q)
           next == IF m = Len(str) THEN deltas ELSE AddReplaceDelta(deltas, s, Len(str) - m)
<1>1. /\ s \in Nat /\ last \in Nat /\ s <= last /\ last < n /\ m \in Int /\ p \in Nat
      /\ Cut(text, u, 2 * s, 2 * last + 1, p, q)
  <2>1. p = GetMappedOffset(s, TRUE)
    OBVIOUS
  <2> HIDE DEF p
  <2> QED
    BY <2>1, SpanIs
<1>2. n \in Nat /\ Buffer(n, text, deltas, dead)
  BY StateIs
<1>3. Inserted(new, 2 * s + 1) /\ Len(new) = Len(str)
  <2>1. str \in Seq(Letters) /\ a \in Nat
    BY <1>1, StringsAre
  <2> HIDE DEF a
  <2>2. Inserted(new, a) /\ Len(new) = Len(str)
    BY <2>1, AnchoredIs
  <2> QED
    BY <2>2 DEF a
<1>4. text' = Put(u, p, new) /\ deltas' = next
  BY DEF BufferReplaceText
<1> HIDE DEF p
<1>5. q - p = m
  BY <1>1
<1>6. next = IF q - p = Len(new) THEN deltas ELSE AddDelta(deltas, 2 * s + 1, Len(new) - (q - p))
  BY <1>3, <1>5 DEF AddReplaceDelta
<1> HIDE DEF u, q, new, next, a, n
<1>7. Buffer(n, Put(u, p, new), next, dead \cup s + 1..last)
  BY <1>1, <1>2, <1>3, <1>6, ReplaceBuffer
<1> QED
  BY <1>4, <1>7 DEF n

(* There is a beginning of every line.                                       *)
Begins(t, pos, from) ==
  /\ from \in 0..pos
  /\ from > 0 => t[from].ch = Newline
  /\ \A i \in from + 1..pos : t[i].ch # Newline

(* LineStart finds the beginning of a line.                                 *)
LEMMA LineBegins ==
  ASSUME NEW t, NEW pos \in Nat
  PROVE  Begins(t, pos, Anchored!LineStart(t, pos))
<1> DEFINE T == {k \in Nat : \E from : Begins(t, k, from)}
<1>1. 0 \in T
  <2>1. Begins(t, 0, 0)
    BY DEF Begins
  <2> QED
    BY <2>1
<1>2. ASSUME NEW k \in Nat, k \in T PROVE k + 1 \in T
  <2>1. PICK from : Begins(t, k, from)
    BY <1>2
  <2>2. \E x : Begins(t, k + 1, x)
    <3>1. CASE t[k + 1].ch = Newline
      <4>1. Begins(t, k + 1, k + 1)
        BY <3>1 DEF Begins
      <4> QED
        BY <4>1
    <3>2. CASE t[k + 1].ch # Newline
      <4>1. from \in 0..k + 1 /\ \A i \in from + 1..k + 1 : i = k + 1 \/ i \in from + 1..k
        BY <2>1 DEF Begins
      <4>2. Begins(t, k + 1, from)
        BY <2>1, <3>2, <4>1 DEF Begins
      <4> QED
        BY <4>2
    <3> QED
      BY <3>1, <3>2
  <2>3. k + 1 \in Nat
    OBVIOUS
  <2> HIDE DEF Begins
  <2> QED
    BY <2>2, <2>3
<1> HIDE DEF T
<1>3. Nat \subseteq T
  BY <1>1, <1>2, AllNumbers
<1>4. PICK from : Begins(t, pos, from)
  BY <1>3 DEF T
<1> DEFINE P(x) == /\ x > 0 => t[x].ch = Newline
                   /\ \A i \in x + 1..pos : t[i].ch # Newline
<1>5. from \in 0..pos /\ P(from)
  BY <1>4 DEF Begins
<1>6. Anchored!LineStart(t, pos) = CHOOSE x \in 0..pos : P(x)
  BY DEF Anchored!LineStart
<1> DEFINE y == CHOOSE x \in 0..pos : P(x)
<1> HIDE DEF P
<1>7. y \in 0..pos /\ P(y)
  BY <1>5
<1> HIDE DEF y
<1>8. Begins(t, pos, y)
  BY <1>7 DEF Begins, P
<1> QED
  BY <1>6, <1>8 DEF y

(* The end of a line that is removed is a character of the original.         *)
LEMMA LineEnds ==
  ASSUME NEW n \in Nat, NEW rest, NEW E, Kept(n, rest, E), NEW from \in Nat,
         NEW to \in 1..Len(rest), rest[to].orig, rest[to].at > 2 * from
  PROVE  \E l \in Nat : from <= l /\ l < n /\ rest[to].at = 2 * l + 1
<1> DEFINE a == rest[to].at
<1>1. Home(n, E, a) /\ a > 2 * from
  BY KeptIs
<1> HIDE DEF a
<1>2. PICK l \in 0..n - 1 : a = 2 * l + 1
  BY <1>1 DEF Home
<1>3. l \in Nat /\ from <= l /\ l < n
  BY <1>1, <1>2
<1> QED
  BY <1>2, <1>3 DEF a

(* A line that was not moved lies between two anchors.                      *)
LEMMA LineCut ==
  ASSUME NEW n \in Nat, NEW t \in Seq(Chars), NEW rest, NEW E, Kept(n, rest, E),
         NEW from \in Nat, NEW pos \in Nat, from <= pos, pos <= Len(t), pos <= Len(rest),
         \A i \in 1..pos : rest[i] = t[i], Divides(t, 2 * from - 1, from),
         NEW to \in from + 1..Len(rest), \A i \in from + 1..to : rest[i].at > 2 * from,
         rest[to].orig, NEW l \in Nat, from <= l, rest[to].at = 2 * l + 1
  PROVE  Cut(rest, Anchored!Without(rest, from, to), 2 * from, 2 * l + 1, from, to)
<1>1. /\ rest \in Seq(Chars) /\ Len(rest) \in Nat /\ Len(t) \in Nat
      /\ \A i \in 1..Len(rest) : rest[i].at \in Nat
      /\ \A i, j \in 1..Len(rest) : i < j => rest[i].at <= rest[j].at
  BY KeptIs
<1>2. \A i \in 1..Len(t) : i <= from <=> t[i].at <= 2 * from - 1
  BY DividesIs
<1>3. to \in 1..Len(rest) /\ to > from
  BY <1>1
<1>4. ASSUME NEW i \in 1..Len(rest) PROVE i <= from <=> rest[i].at <= 2 * from
  <2>1. rest[i].at \in Nat /\ i \in Nat /\ to \in Nat
    BY <1>1
  <2>2. CASE i <= from
    <3>1. i \in 1..pos /\ i \in 1..Len(t)
      BY <1>1, <2>2
    <3>2. rest[i] = t[i] /\ t[i].at <= 2 * from - 1
      BY <1>2, <2>2, <3>1
    <3> QED
      BY <2>1, <2>2, <3>2
  <2>3. CASE i > from /\ i <= to
    <3>1. i \in from + 1..to
      BY <2>3
    <3>2. rest[i].at > 2 * from
      BY <3>1
    <3> QED
      BY <2>1, <2>3, <3>2
  <2>4. CASE i > to
    <3>1. rest[to].at <= rest[i].at
      BY <1>1, <1>3, <2>4
    <3> QED
      BY <1>3, <2>1, <2>4, <3>1
  <2> QED
    BY <1>3, <2>1, <2>2, <2>3, <2>4
<1>5. Divides(rest, 2 * from, from)
  <2> DEFINE a == 2 * from
  <2>1. from \in 0..Len(rest)
    BY <1>1
  <2>2. \A i \in 1..Len(rest) : i <= from <=> rest[i].at <= a
    BY <1>4
  <2> HIDE DEF a
  <2>3. Divides(rest, a, from)
    BY <1>1, <2>1, <2>2, DividesIs
  <2> QED
    BY <2>3 DEF a
<1>6. Divides(rest, 2 * l + 1, to)
  <2> DEFINE a == 2 * l + 1
  <2>1. a \in Int /\ rest[to].at = a
    OBVIOUS
  <2> HIDE DEF a
  <2>2. Divides(rest, a, to)
    BY <1>3, <2>1, Single
  <2> QED
    BY <2>2 DEF a
<1> QED
  BY <1>5, <1>6 DEF Cut

(* RemoveText keeps a buffer, and so does the removal of the line after it. *)
LEMMA RemovalKeeps ==
  ASSUME BufferKept, ~MovedLines, NEW s, NEW last, NEW m, Spans(s, last, m), NEW line \in BOOLEAN,
         BufferRemoveText(s, m, line, last)
  PROVE  Buffer(Len(original), text', deltas', dead')
<1> DEFINE n == Len(original)
           p == GetMappedOffset(s, TRUE)
           q == p + m
           rest == Anchored!Without(text, p, q)
           tree == AddReplaceDelta(deltas, s, -m)
           from == Anchored!LineStart(rest, p)
           ends == IF line THEN Anchored!BlankTo(rest, from) ELSE {}
           E == dead \cup s + 1..last
<1>1. /\ s \in Nat /\ last \in Nat /\ s <= last /\ last < n /\ m \in Int /\ p \in Nat
      /\ p \in 0..Len(text) /\ q \in 0..Len(text)
      /\ Cut(text, rest, 2 * s, 2 * last + 1, p, q)
  <2>1. p = GetMappedOffset(s, TRUE)
    OBVIOUS
  <2> HIDE DEF p
  <2> QED
    BY <2>1, SpanIs
<1>2. n \in Nat /\ Buffer(n, text, deltas, dead) /\ text \in Seq(Chars) /\ Len(text) \in Nat
  BY StateIs
<1>3. tree = AddDelta(deltas, 2 * s + 1, p - q)
  <2>1. tree = AddDelta(deltas, 2 * s + 1, -m)
    BY DEF AddReplaceDelta
  <2> HIDE DEF p, tree
  <2>2. p - q = -m
    BY <1>1
  <2> QED
    BY <2>1, <2>2
<1>4. \/ ends = {} /\ text' = rest /\ deltas' = tree /\ dead' = E
      \/ \E to \in ends :
           /\ InPlace(rest, from, to)
           /\ text' = Anchored!Without(rest, from, to)
           /\ deltas' = AddReplaceDelta(tree, from, from - to)
           /\ LET first == rest[from + 1].at \div 2 IN
              dead' = E \cup (IF first < from THEN first ELSE from) + 1..rest[to].at \div 2
  BY DEF BufferRemoveText
<1>5. Begins(rest, p, from)
  <2> DEFINE r == rest
             k == p
  <2>1. k \in Nat
    BY <1>1
  <2> HIDE DEF r, k
  <2> QED
    BY <2>1, LineBegins DEF r, k
<1>6. ends \subseteq from + 1..Len(rest)
  BY DEF Anchored!BlankTo
<1> HIDE DEF p, q, tree, from, ends, E
<1>7. p <= q /\ Len(rest) = Len(text) - (q - p) /\ \A i \in 1..p : rest[i] = text[i]
  <2>1. p <= q
    <3> DEFINE a == 2 * s
               b == 2 * last + 1
    <3>1. a \in Int /\ b \in Int /\ Cut(text, rest, a, b, p, q)
      BY <1>1
    <3> HIDE DEF a, b, rest
    <3> QED
      BY <1>2, <3>1, CutDivides
  <2> QED
    BY <1>1, <1>2, <2>1, WithoutIs
<1> HIDE DEF rest, n
<1>8. Buffer(n, rest, tree, E)
  BY <1>1, <1>2, <1>3, CutBuffer DEF E
<1>9. CASE \E to \in ends :
             /\ InPlace(rest, from, to)
             /\ text' = Anchored!Without(rest, from, to)
             /\ deltas' = AddReplaceDelta(tree, from, from - to)
             /\ LET first == rest[from + 1].at \div 2 IN
                dead' = E \cup (IF first < from THEN first ELSE from) + 1..rest[to].at \div 2
  <2>1. PICK to \in ends :
             /\ InPlace(rest, from, to)
             /\ text' = Anchored!Without(rest, from, to)
             /\ deltas' = AddReplaceDelta(tree, from, from - to)
             /\ LET first == rest[from + 1].at \div 2 IN
                dead' = E \cup (IF first < from THEN first ELSE from) + 1..rest[to].at \div 2
    BY <1>9
  <2>2. from \in 0..p /\ from \in Nat /\ from <= p
    BY <1>1, <1>5 DEF Begins
  <2>3. to \in from + 1..Len(rest) /\ Len(rest) \in Nat /\ to \in 1..Len(rest)
    BY <1>1, <1>2, <1>6, <1>7, <2>2
  <2>4. /\ from \notin dead /\ GetMappedOffset(from, FALSE) = from
        /\ \A i \in from + 1..to : rest[i].at > 2 * from
        /\ rest[to].orig
    BY <2>1 DEF InPlace
  <2>5. Kept(n, rest, E)
    BY <1>8 DEF Buffer
  <2>6. PICK l \in Nat : from <= l /\ l < n /\ rest[to].at = 2 * l + 1
    <3>1. rest[to].at > 2 * from
      BY <2>2, <2>3, <2>4
    <3> QED
      BY <1>2, <2>2, <2>3, <2>4, <2>5, <3>1, LineEnds
  <2>7. Divides(text, 2 * from - 1, from)
    <3>1. from \in 0..Len(original) \ dead
      BY <1>2, <2>2, <2>4, <2>6 DEF n
    <3> QED
      BY <2>4, <3>1, MappedIs
  <2>8. Cut(rest, text', 2 * from, 2 * l + 1, from, to)
    <3>1. p <= Len(text) /\ p <= Len(rest)
      BY <1>1, <1>2, <1>7
    <3>2. Cut(rest, Anchored!Without(rest, from, to), 2 * from, 2 * l + 1, from, to)
      BY <1>1, <1>2, <1>7, <2>2, <2>3, <2>4, <2>5, <2>6, <2>7, <3>1, LineCut
    <3> QED
      BY <2>1, <3>2
  <2>9. deltas' = AddDelta(tree, 2 * from + 1, from - to)
    BY <2>1 DEF AddReplaceDelta
  <2>10. dead' = E \cup from + 1..l
    <3> DEFINE a == rest[from + 1].at
               b == rest[to].at
    <3>1. dead' = E \cup (IF a \div 2 < from THEN a \div 2 ELSE from) + 1..b \div 2
      BY <2>1
    <3>2. a > 2 * from /\ a \in Nat /\ b = 2 * l + 1
      <4>1. from + 1 \in from + 1..to /\ from + 1 \in 1..Len(rest)
        BY <2>2, <2>3
      <4> QED
        BY <2>4, <2>5, <2>6, <4>1, KeptIs
    <3> HIDE DEF a, b
    <3>3. ~(a \div 2 < from) /\ b \div 2 = l
      BY <2>2, <2>6, <3>2
    <3> QED
      BY <3>1, <3>3
  <2> HIDE DEF p, E
  <2>11. Buffer(n, text', AddDelta(tree, 2 * from + 1, from - to), E \cup from + 1..l)
    BY <1>2, <1>8, <2>2, <2>6, <2>8, CutBuffer
  <2> QED
    BY <2>9, <2>10, <2>11 DEF n
<1> QED
  BY <1>4, <1>8, <1>9 DEF n

-----------------------------------------------------------------------------
(* The steps                                                                 *)
LEMMA KeptAtFirst ==
  Init => BufferKept
<1>1. SUFFICES ASSUME Init PROVE BufferKept
  OBVIOUS
<1> DEFINE n == Len(original)
           t == Anchored!Unedited(original)
<1>2. /\ original \in Originals /\ text = t /\ deltas = Empty /\ dead = {} /\ edits = 0
  BY <1>1 DEF Init
<1>3. /\ t \in Seq(Chars) /\ Len(t) = n /\ n \in Nat
      /\ \A i \in 1..n : t[i].at = 2 * i - 1 /\ t[i].orig
  BY <1>2, UneditedIs
<1>4. Tree(n, Empty) /\ \A x \in Nat : Counts(Empty)[x] = 0
  BY <1>3, TreeAtFirst
<1>5. edits \in 0..MaxEdits[original]
  BY <1>2, StringsAre
<1> HIDE DEF n, t
<1>6. Sorted(t) /\ Alone(t)
  BY <1>3 DEF Sorted, Alone
<1>7. ASSUME NEW i \in 1..Len(t) PROVE t[i].at <= 2 * n /\ Home(n, {}, t[i].at)
  <2> DEFINE a == t[i].at
             o == i - 1
  <2>1. i \in 1..n /\ a = 2 * i - 1
    BY <1>3
  <2> HIDE DEF a
  <2>2. a = 2 * o + 1 /\ o \in 0..n - 1 /\ a <= 2 * n
    BY <1>3, <2>1
  <2> HIDE DEF o
  <2>3. Home(n, {}, a)
    BY <2>2 DEF Home
  <2> QED
    BY <2>2, <2>3 DEF a
<1>8. Kept(n, t, {})
  BY <1>3, <1>6, <1>7 DEF Kept
<1>9. ASSUME NEW o \in 0..n
      PROVE  /\ Divides(t, 2 * o - 1, Counts(Empty)[2 * o] + o)
             /\ Divides(t, 2 * o, Counts(Empty)[2 * o + 1] + o)
  <2>1. Counts(Empty)[2 * o] + o = o /\ Counts(Empty)[2 * o + 1] + o = o
    <3>1. 2 * o \in Nat /\ 2 * o + 1 \in Nat
      BY <1>3
    <3>2. Counts(Empty)[2 * o] = 0 /\ Counts(Empty)[2 * o + 1] = 0
      BY <1>4, <3>1
    <3> QED
      BY <1>3, <3>2
  <2>2. ASSUME NEW i \in 1..Len(t)
        PROVE  (i <= o <=> t[i].at <= 2 * o - 1) /\ (i <= o <=> t[i].at <= 2 * o)
    BY <1>3
  <2>3. o \in 0..Len(t)
    BY <1>3
  <2>4. Divides(t, 2 * o - 1, o) /\ Divides(t, 2 * o, o)
    BY <1>3, <2>2, <2>3, DividesIs
  <2> QED
    BY <2>1, <2>4
<1>10. Mapped(n, t, Counts(Empty), {})
  BY <1>9 DEF Mapped
<1>11. Buffer(n, t, Empty, {})
  BY <1>4, <1>8, <1>10 DEF Buffer
<1> QED
  BY <1>2, <1>5, <1>11 DEF BufferKept, n

(* An edit counts, and the file stays the same.                              *)
LEMMA EditKeeps ==
  ASSUME BufferKept, Edit, Buffer(Len(original), text', deltas', dead')
  PROVE  BufferKept'
<1>1. /\ original \in Originals /\ edits \in 0..MaxEdits[original]
      /\ MaxEdits[original] \in Nat
  BY StateIs
<1>2. edits < MaxEdits[original] /\ edits' = edits + 1 /\ original' = original
  BY DEF Edit
<1>3. edits' \in 0..MaxEdits[original']
  BY <1>1, <1>2
<1> QED
  BY <1>1, <1>2, <1>3 DEF BufferKept

(* Every edit keeps the buffer.                                             *)
LEMMA NextKeeps ==
  ASSUME ~InsertsAtEnds, ~MovedLines, BufferKept, [Next]_vars
  PROVE  BufferKept'
<1>1. /\ Offsets \subseteq Nat /\ dead \subseteq 1..Len(original)
  BY StateIs, StringsAre
<1>2. ASSUME NEW o \in Offsets, NEW str \in Strings, InsertTextAfterToken(o, str)
      PROVE  BufferKept'
  <2>1. o \in Nat /\ Edit /\ Present(o) /\ dead' = dead
    BY <1>1, <1>2 DEF InsertTextAfterToken, AnyEdit
  <2>2. o \in 0..Len(original) \ dead /\ o + 1 \in 0..Len(original) \ dead
    BY <2>1, PresentIs
  <2>3. GetRangeSize(o, o, TRUE, AfterToken) = 1
    BY <2>2, AfterTokenIs
  <2>4. BufferInsertText(o + 1, str, TRUE)
    BY <1>2, <2>3, Zenon DEF InsertTextAfterToken
  <2>5. Buffer(Len(original), text', deltas', dead')
    <3>1. Buffer(Len(original), text', deltas', dead)
      BY <2>2, <2>4, InsertionKeeps
    <3> QED
      BY <2>1, <3>1
  <2> QED
    BY <2>1, <2>5, EditKeeps
<1>3. ASSUME NEW o \in Offsets, NEW str \in Strings, NEW after \in BOOLEAN, InsertText(o, str, after)
      PROVE  BufferKept'
  <2>1. Edit /\ o \in 0..Len(original) \ dead /\ BufferInsertText(o, str, after) /\ dead' = dead
    BY <1>3 DEF InsertText
  <2>2. Buffer(Len(original), text', deltas', dead)
    BY <2>1, InsertionKeeps
  <2> QED
    BY <2>1, <2>2, EditKeeps
<1>4. ASSUME NEW s \in Offsets, NEW last \in Offsets, NEW line \in BOOLEAN, RemoveText(s, last, line)
      PROVE  BufferKept'
  <2>1. Edit /\ s <= last /\ Intact(s, last) /\ BufferRemoveText(s, last - s + 1, line, last)
    BY <1>4 DEF RemoveText
  <2>2. Spans(s, last, last - s + 1)
    BY <1>1, <2>1, IntactSpans
  <2>3. Buffer(Len(original), text', deltas', dead')
    BY <2>1, <2>2, RemovalKeeps
  <2> QED
    BY <2>1, <2>3, EditKeeps
<1>5. ASSUME NEW s \in Offsets, NEW last \in Offsets, NEW line \in BOOLEAN, NEW tokens \in BOOLEAN,
             NEW opts \in Options, RemoveRange(s, last, tokens, opts, line)
      PROVE  BufferKept'
  <2>1. /\ Edit /\ Editable(s, last, tokens, opts)
        /\ BufferRemoveText(s, GetRangeSize(s, last, tokens, opts), line, last)
    BY <1>5 DEF RemoveRange, AnyEdit
  <2>2. Spans(s, last, GetRangeSize(s, last, tokens, opts))
    BY <1>1, <2>1, RangeSpans
  <2>3. Buffer(Len(original), text', deltas', dead')
    BY <2>1, <2>2, RemovalKeeps
  <2> QED
    BY <2>1, <2>3, EditKeeps
<1>6. ASSUME NEW s \in Offsets, NEW last \in Offsets, NEW str \in Strings, ReplaceText(s, last, str)
      PROVE  BufferKept'
  <2>1. /\ Edit /\ s <= last /\ Intact(s, last) /\ BufferReplaceText(s, last - s + 1, str)
        /\ dead' = dead \cup s + 1..last
    BY <1>6 DEF ReplaceText, AnyEdit
  <2>2. Spans(s, last, last - s + 1)
    BY <1>1, <2>1, IntactSpans
  <2>3. Buffer(Len(original), text', deltas', dead \cup s + 1..last)
    BY <2>1, <2>2, ReplacementKeeps
  <2> QED
    BY <2>1, <2>3, EditKeeps
<1>7. ASSUME NEW s \in Offsets, NEW last \in Offsets, NEW str \in Strings, ReplaceRange(s, last, str)
      PROVE  BufferKept'
  <2>1. /\ Edit /\ Editable(s, last, TRUE, Default) /\ dead' = dead \cup s + 1..last
        /\ BufferReplaceText(s, GetRangeSize(s, last, TRUE, Default), str)
    BY <1>7 DEF ReplaceRange, AnyEdit
  <2>2. Default \in Options /\ TRUE \in BOOLEAN
    BY DEF Default, Options
  <2>3. Spans(s, last, GetRangeSize(s, last, TRUE, Default))
    BY <1>1, <2>1, <2>2, RangeSpans
  <2>4. Buffer(Len(original), text', deltas', dead \cup s + 1..last)
    BY <2>1, <2>3, ReplacementKeeps
  <2> QED
    BY <2>1, <2>4, EditKeeps
<1>8. CASE UNCHANGED vars
  <2>1. original' = original /\ edits' = edits /\ text' = text /\ deltas' = deltas /\ dead' = dead
    BY <1>8 DEF vars
  <2> QED
    BY <2>1 DEF BufferKept
<1> QED
  BY <1>2, <1>3, <1>4, <1>5, <1>6, <1>7, <1>8 DEF Next

(* The buffer is one at all times.                                          *)
LEMMA AlwaysKept ==
  ASSUME ~InsertsAtEnds, ~MovedLines
  PROVE  Spec => []BufferKept
<1>1. Init => BufferKept
  BY KeptAtFirst
<1>2. BufferKept /\ [Next]_vars => BufferKept'
  BY NextKeeps
<1> QED
  BY <1>1, <1>2, PTL DEF Spec

-----------------------------------------------------------------------------
(* What it comes to                                                          *)

(* A buffer is of its types, and its tree is verified.                      *)
LEMMA KeptTyped ==
  BufferKept => TypeOK /\ TreeVerified
<1>1. SUFFICES ASSUME BufferKept PROVE TypeOK /\ TreeVerified
  OBVIOUS
<1> DEFINE n == Len(original)
<1>2. /\ original \in Originals /\ n \in Nat /\ edits \in 0..MaxEdits[original]
      /\ Kept(n, text, dead) /\ Tree(n, deltas) /\ dead \subseteq 1..n /\ DOMAIN text = 1..Len(text)
  BY <1>1, StateIs
<1>3. deltas.height \in Nat /\ VerifyTree(deltas) /\ LocsOf(deltas) \subseteq 0..2 * n
  BY <1>2 DEF Tree
<1>4. deltas \in Nodes[deltas.height]
  BY <1>3 DEF VerifyTree
<1> HIDE DEF n
<1>5. \A i \in DOMAIN text : text[i].at \in 0..2 * n /\ text[i].orig \in BOOLEAN
  BY <1>2, KeptIs
<1>6. dead \subseteq 0..n
  BY <1>2
<1> QED
  BY <1>2, <1>3, <1>4, <1>5, <1>6 DEF TypeOK, TreeVerified, n

(* A buffer maps its offsets.                                               *)
LEMMA KeptMapped ==
  BufferKept => OffsetsMapped
BY MappedIs DEF OffsetsMapped

(* A buffer reads its ranges.                                               *)
LEMMA KeptRead ==
  BufferKept => RangesRead
<1>1. SUFFICES ASSUME BufferKept, NEW s \in 0..Len(original) - 1, NEW last \in 0..Len(original) - 1,
                      s <= last, Present(s), Present(last)
               PROVE  RewrittenText(s, last) = {i \in DOMAIN text : text[i].at \in 2 * s..2 * last + 1}
  BY DEF RangesRead
<1> DEFINE p == GetMappedOffset(s, FALSE)
           q == GetMappedOffset(last, TRUE)
<1>2. text \in Seq(Chars) /\ Len(original) \in Nat
  BY <1>1, StateIs
<1>3. s \in Nat /\ last \in Nat
  BY <1>2
<1>4. Divides(text, 2 * s - 1, p) /\ Divides(text, 2 * last + 1, q + 1) /\ p \in Nat /\ q \in Nat
  BY <1>1, <1>3, PresentIs, MappedIs, PlaceIs
<1>5. RewrittenText(s, last) = p + 1..q + 1
  BY DEF RewrittenText
<1> HIDE DEF p, q
<1>6. /\ \A i \in 1..Len(text) : i <= p <=> text[i].at <= 2 * s - 1
      /\ q + 1 \in 0..Len(text) /\ \A i \in 1..Len(text) : i <= q + 1 <=> text[i].at <= 2 * last + 1
  BY <1>2, <1>4, DividesIs
<1>7. DOMAIN text = 1..Len(text) /\ Len(text) \in Nat /\ \A i \in 1..Len(text) : text[i].at \in Nat
  BY <1>2, CharsTyped
<1>8. ASSUME NEW i \in 1..Len(text)
      PROVE  i \in p + 1..q + 1 <=> text[i].at \in 2 * s..2 * last + 1
  <2>1. text[i].at \in Nat /\ i \in Nat
    BY <1>7
  <2>2. (i <= p <=> text[i].at <= 2 * s - 1) /\ (i <= q + 1 <=> text[i].at <= 2 * last + 1)
    BY <1>6
  <2>3. i > p <=> text[i].at >= 2 * s
    BY <1>3, <1>4, <2>1, <2>2
  <2> QED
    BY <1>3, <1>4, <2>1, <2>2, <2>3
<1>9. p + 1..q + 1 \subseteq 1..Len(text)
  BY <1>4, <1>6, <1>7
<1> QED
  BY <1>5, <1>7, <1>8, <1>9

(* The buffer, its tree and the offsets out of use are what they should be
   through every sequence of edits, at whatever places and of whatever texts.*)
THEOREM BufferTyped ==
  ASSUME ~InsertsAtEnds, ~MovedLines
  PROVE  Spec => []TypeOK
<1>1. Spec => []BufferKept
  BY AlwaysKept
<1>2. BufferKept => TypeOK
  BY KeptTyped
<1> QED
  BY <1>1, <1>2, PTL

(* The tree of deltas passes VerifyTree after every edit: however deep it
   grew and whatever was split, each node holds the sum of all below it.    *)
THEOREM TreeStaysVerified ==
  ASSUME ~InsertsAtEnds, ~MovedLines
  PROVE  Spec => []TreeVerified
<1>1. Spec => []BufferKept
  BY AlwaysKept
<1>2. BufferKept => TreeVerified
  BY KeptTyped
<1> QED
  BY <1>1, <1>2, PTL

(* getMappedOffset maps every offset still in use to where its character is
   or would be, before and after what was inserted there, whatever was edited.*)
THEOREM OffsetsStayMapped ==
  ASSUME ~InsertsAtEnds, ~MovedLines
  PROVE  Spec => []OffsetsMapped
<1>1. Spec => []BufferKept
  BY AlwaysKept
<1>2. BufferKept => OffsetsMapped
  BY KeptMapped
<1> QED
  BY <1>1, <1>2, PTL

(* getRewrittenText of a range returns all that became of it, with what was
   inserted at either end.                                                  *)
THEOREM RangesAreRead ==
  ASSUME ~InsertsAtEnds, ~MovedLines
  PROVE  Spec => []RangesRead
<1>1. Spec => []BufferKept
  BY AlwaysKept
<1>2. BufferKept => RangesRead
  BY KeptRead
<1> QED
  BY <1>1, <1>2, PTL

-----------------------------------------------------------------------------
(* The refinement                                                            *)

(* The place of an anchor is where it divides the text.                     *)
LEMMA PlaceCounted ==
  ASSUME NEW t \in Seq(Chars), NEW a, NEW p, Divides(t, a, p)
  PROVE  Anchored!Place(t, a) = p
<1>1. p \in 0..Len(t) /\ \A i \in 1..Len(t) : i <= p <=> t[i].at <= a
  BY DividesIs
<1>2. Len(t) \in Nat /\ DOMAIN t = 1..Len(t)
  BY CharsTyped
<1>3. {i \in DOMAIN t : t[i].at <= a} = 1..p
  BY <1>1, <1>2
<1>4. Cardinality(1..p) = p
  <2>1. p \in Int /\ 1 \in Int /\ (1 > p => p = 0) /\ p - 1 + 1 = p
    BY <1>1, <1>2
  <2>2. Cardinality(1..p) = IF 1 > p THEN 0 ELSE p - 1 + 1
    BY <2>1, FS_Interval
  <2> QED
    BY <2>1, <2>2
<1>5. Anchored!Cardinality(1..p) = Cardinality(1..p)
  BY DEF Cardinality, Anchored!Cardinality
<1> QED
  BY <1>3, <1>4, <1>5 DEF Anchored!Place

(* A text that was cut falls apart where it was.                             *)
LEMMA CutApart ==
  ASSUME NEW t \in Seq(Chars), NEW p \in 0..Len(t), NEW q \in 0..Len(t), p <= q
  PROVE  LET w == Anchored!Without(t, p, q)
         IN /\ SubSeq(w, 1, p) = SubSeq(t, 1, p)
            /\ SubSeq(w, p + 1, Len(w)) = SubSeq(t, q + 1, Len(t))
<1> DEFINE w == Anchored!Without(t, p, q)
           a == SubSeq(t, 1, p)
           b == SubSeq(t, q + 1, Len(t))
           c == SubSeq(w, 1, p)
           d == SubSeq(w, p + 1, Len(w))
<1>1. /\ w \in Seq(Chars) /\ Len(w) = Len(t) - (q - p)
      /\ \A i \in 1..p : w[i] = t[i]
      /\ \A i \in p + 1..Len(w) : w[i] = t[i + (q - p)]
  BY WithoutIs
<1>2. Len(t) \in Nat
  OBVIOUS
<1>3. a \in Seq(Chars) /\ Len(a) = p /\ \A j \in 1..p : a[j] = t[j]
  OBVIOUS
<1>4. b \in Seq(Chars) /\ Len(b) = Len(t) - q /\ \A j \in 1..Len(t) - q : b[j] = t[q + j]
  BY RestIs
<1> HIDE DEF w, a, b
<1>5. Len(w) \in Nat /\ p \in 0..Len(w)
  BY <1>1, <1>2
<1>6. c \in Seq(Chars) /\ Len(c) = p /\ \A j \in 1..p : c[j] = w[j]
  BY <1>1, <1>5
<1>7. d \in Seq(Chars) /\ Len(d) = Len(w) - p /\ \A j \in 1..Len(w) - p : d[j] = w[p + j]
  BY <1>1, <1>5, RestIs
<1> HIDE DEF c, d
<1>8. c = a
  <2>1. \A j \in 1..Len(c) : c[j] = a[j]
    BY <1>1, <1>3, <1>6
  <2> QED
    BY <1>3, <1>6, <2>1, SeqEqual
<1>9. d = b
  <2>1. Len(d) = Len(b)
    BY <1>1, <1>2, <1>4, <1>5, <1>7
  <2>2. ASSUME NEW j \in 1..Len(d) PROVE d[j] = b[j]
    <3>1. /\ j \in 1..Len(w) - p /\ j \in 1..Len(t) - q /\ p + j \in p + 1..Len(w)
          /\ (p + j) + (q - p) = q + j
      BY <1>1, <1>2, <1>4, <1>5, <1>7, <2>1
    <3>2. d[j] = w[p + j] /\ b[j] = t[q + j]
      BY <1>4, <1>7, <3>1
    <3>3. w[p + j] = t[(p + j) + (q - p)]
      BY <1>1, <3>1
    <3> QED
      BY <3>1, <3>2, <3>3
  <2> QED
    BY <1>4, <1>7, <2>1, <2>2, SeqEqual
<1> QED
  BY <1>8, <1>9 DEF a, b, c, d, w

(* InsertText is an insertion by anchor.                                    *)
LEMMA InsertionMaps ==
  ASSUME BufferKept, NEW o \in 0..Len(original) \ dead, NEW str \in Strings,
         NEW after \in BOOLEAN, BufferInsertText(o, str, after)
  PROVE  Anchored!Insert(o, str, after)
<1> DEFINE x == IF after THEN 2 * o + 1 ELSE 2 * o
           p == GetMappedOffset(o, after)
           s == Anchored!Anchored(str, 2 * o)
<1>1. text \in Seq(Chars)
  BY StateIs
<1>2. text' = Put(text, p, s)
  BY DEF BufferInsertText
<1>3. Divides(text, x - 1, p)
  <2> DEFINE y == 2 * o + 1
  <2>1. y - 1 = 2 * o
    <3>1. o \in Int
      BY StateIs
    <3> QED
      BY <3>1
  <2> HIDE DEF y
  <2>2. /\ Divides(text, 2 * o - 1, GetMappedOffset(o, FALSE))
        /\ Divides(text, 2 * o, GetMappedOffset(o, TRUE))
    BY MappedIs
  <2>3. CASE after = TRUE
    <3>1. x = y /\ p = GetMappedOffset(o, TRUE)
      BY <2>3 DEF y
    <3> HIDE DEF x, p
    <3> QED
      BY <2>1, <2>2, <3>1
  <2>4. CASE after = FALSE
    <3>1. x = 2 * o /\ p = GetMappedOffset(o, FALSE)
      BY <2>4
    <3> HIDE DEF x, p
    <3> QED
      BY <2>2, <3>1
  <2> QED
    BY <2>3, <2>4
<1> HIDE DEF p, s, x
<1>4. Anchored!Place(text, x - 1) = p
  BY <1>1, <1>3, PlaceCounted
<1>5. text' = Anchored!UpTo(text, x - 1) \o s \o Anchored!After(text, x - 1)
  BY <1>2, <1>4 DEF Put, Anchored!UpTo, Anchored!After
<1> QED
  BY <1>5 DEF Anchored!Insert, x, s

(* What is before and behind a span is found by anchor.                     *)
LEMMA SpanPlaces ==
  ASSUME BufferKept, NEW s, NEW last, NEW m, Spans(s, last, m), NEW p, p = GetMappedOffset(s, TRUE)
  PROVE  /\ p \in 0..Len(text) /\ p + m \in 0..Len(text) /\ p <= p + m
         /\ Anchored!UpTo(text, 2 * s) = SubSeq(text, 1, p)
         /\ Anchored!After(text, 2 * last + 1) = SubSeq(text, p + m + 1, Len(text))
<1> DEFINE a == 2 * s
           b == 2 * last + 1
           q == p + m
<1>1. /\ s \in Nat /\ last \in Nat /\ s <= last /\ p \in 0..Len(text) /\ q \in 0..Len(text)
      /\ Cut(text, Anchored!Without(text, p, q), a, b, p, q)
  BY SpanIs
<1>2. text \in Seq(Chars) /\ a \in Int /\ b \in Int
  BY <1>1, StateIs
<1> HIDE DEF a, b, q
<1>3. Divides(text, a, p) /\ Divides(text, b, q) /\ a <= b
  BY <1>1 DEF Cut
<1>4. p <= q
  BY <1>2, <1>3, DividesMonotone
<1>5. Anchored!Place(text, a) = p /\ Anchored!Place(text, b) = q
  BY <1>2, <1>3, PlaceCounted
<1>6. /\ Anchored!UpTo(text, a) = SubSeq(text, 1, p)
      /\ Anchored!After(text, b) = SubSeq(text, q + 1, Len(text))
  BY <1>5 DEF Anchored!UpTo, Anchored!After
<1> QED
  BY <1>1, <1>4, <1>6 DEF a, b, q

(* ReplaceText is a replacement by anchor.                                  *)
LEMMA ReplacementMaps ==
  ASSUME BufferKept, NEW s, NEW last, NEW m, Spans(s, last, m), NEW str,
         BufferReplaceText(s, m, str)
  PROVE  Anchored!Replace(s, last, str)
<1> DEFINE p == GetMappedOffset(s, TRUE)
           q == p + m
           w == Anchored!Without(text, p, q)
           new == Anchored!Anchored(str, 2 * s + 1)
<1>1. text' = Put(w, p, new)
  BY DEF BufferReplaceText
<1>2. /\ p \in 0..Len(text) /\ q \in 0..Len(text) /\ p <= q
      /\ Anchored!UpTo(text, 2 * s) = SubSeq(text, 1, p)
      /\ Anchored!After(text, 2 * last + 1) = SubSeq(text, q + 1, Len(text))
  <2>1. p = GetMappedOffset(s, TRUE)
    OBVIOUS
  <2> HIDE DEF p
  <2> QED
    BY <2>1, SpanPlaces
<1>3. text \in Seq(Chars)
  BY StateIs
<1> HIDE DEF p, q, new
<1>4. SubSeq(w, 1, p) = SubSeq(text, 1, p) /\ SubSeq(w, p + 1, Len(w)) = SubSeq(text, q + 1, Len(text))
  BY <1>2, <1>3, CutApart
<1> HIDE DEF w
<1>5. text' = SubSeq(text, 1, p) \o new \o SubSeq(text, q + 1, Len(text))
  BY <1>1, <1>4 DEF Put
<1> QED
  BY <1>2, <1>5 DEF Anchored!Replace, new

(* RemoveText is a replacement by nothing, or the removal of a line.        *)
LEMMA RemovalMaps ==
  ASSUME BufferKept, NEW s, NEW last, NEW m, Spans(s, last, m), NEW line \in BOOLEAN,
         BufferRemoveText(s, m, line, last)
  PROVE  Anchored!Replace(s, last, <<>>) \/ Anchored!RemoveLine(s, last)
<1> DEFINE p == GetMappedOffset(s, TRUE)
           q == p + m
           a == SubSeq(text, 1, p)
           b == SubSeq(text, q + 1, Len(text))
           rest == Anchored!Without(text, p, q)
           ends == IF line THEN Anchored!BlankTo(rest, Anchored!LineStart(rest, p)) ELSE {}
           e == <<>>
<1>1. \/ text' = rest
      \/ \E to \in ends : text' = Anchored!Without(rest, Anchored!LineStart(rest, p), to)
  BY DEF BufferRemoveText
<1>2. ends \subseteq Anchored!BlankTo(rest, Anchored!LineStart(rest, p))
  OBVIOUS
<1>3. rest = a \o b
  BY DEF Anchored!Without
<1>4. /\ p \in 0..Len(text) /\ q \in 0..Len(text) /\ p <= q
      /\ Anchored!UpTo(text, 2 * s) = a
      /\ Anchored!After(text, 2 * last + 1) = b
  <2>1. p = GetMappedOffset(s, TRUE)
    OBVIOUS
  <2> HIDE DEF p
  <2> QED
    BY <2>1, SpanPlaces
<1> HIDE DEF p, q, ends, rest
<1>5. text \in Seq(Chars)
  BY StateIs
<1>6. a \in Seq(Chars) /\ Len(a) = p
  BY <1>4, <1>5
<1>7. Anchored!Anchored(e, 2 * s + 1) = e
  BY DEF Anchored!Anchored
<1> HIDE DEF a, b
<1>8. CASE text' = rest
  <2>1. a \o e = a
    BY <1>6, ConcatEmptySeq
  <2>2. text' = a \o e \o b
    BY <1>3, <1>8, <2>1
  <2> HIDE DEF e
  <2>3. Anchored!Replace(s, last, e)
    BY <1>4, <1>7, <2>2 DEF Anchored!Replace
  <2> QED
    BY <2>3 DEF e
<1>9. CASE \E to \in ends : text' = Anchored!Without(rest, Anchored!LineStart(rest, p), to)
  <2>1. Anchored!RemoveLine(s, last)
    BY <1>2, <1>3, <1>4, <1>6, <1>9 DEF Anchored!RemoveLine
  <2> QED
    BY <2>1
<1> QED
  BY <1>1, <1>8, <1>9

(* Every edit is a step of the anchored text.                               *)
LEMMA NextMaps ==
  ASSUME ~InsertsAtEnds, BufferKept, [Next]_vars
  PROVE  [Anchored!Next]_text
<1>1. Offsets \subseteq Nat /\ 0..Len(original) \subseteq Offsets
  BY StateIs, StringsAre
<1>2. ASSUME NEW o \in Offsets, NEW str \in Strings, InsertTextAfterToken(o, str)
      PROVE  Anchored!Next
  <2>1. o \in Nat /\ Present(o)
    BY <1>1, <1>2 DEF InsertTextAfterToken
  <2>2. o \in 0..Len(original) \ dead /\ o + 1 \in 0..Len(original) \ dead
    BY <2>1, PresentIs
  <2>3. GetRangeSize(o, o, TRUE, AfterToken) = 1
    BY <2>2, AfterTokenIs
  <2>4. BufferInsertText(o + 1, str, TRUE)
    BY <1>2, <2>3, Zenon DEF InsertTextAfterToken
  <2>5. Anchored!Insert(o + 1, str, TRUE) /\ o + 1 \in Offsets
    BY <1>1, <2>2, <2>4, InsertionMaps
  <2> QED
    BY <2>5, Zenon DEF Anchored!Next
<1>3. ASSUME NEW o \in Offsets, NEW str \in Strings, NEW after \in BOOLEAN, InsertText(o, str, after)
      PROVE  Anchored!Next
  <2>1. o \in 0..Len(original) \ dead /\ BufferInsertText(o, str, after)
    BY <1>3 DEF InsertText
  <2>2. Anchored!Insert(o, str, after)
    BY <2>1, InsertionMaps
  <2> QED
    BY <2>2, Zenon DEF Anchored!Next
<1>4. ASSUME NEW s \in Offsets, NEW last \in Offsets, s <= last, NEW m, Spans(s, last, m),
             NEW line \in BOOLEAN, BufferRemoveText(s, m, line, last)
      PROVE  Anchored!Next
  <2>1. Anchored!Replace(s, last, <<>>) \/ Anchored!RemoveLine(s, last)
    BY <1>4, RemovalMaps
  <2> QED
    BY <1>4, <2>1 DEF Anchored!Next
<1>5. ASSUME NEW s \in Offsets, NEW last \in Offsets, s <= last, NEW m, Spans(s, last, m),
             NEW str \in Strings, BufferReplaceText(s, m, str)
      PROVE  Anchored!Next
  <2>1. Anchored!Replace(s, last, str)
    BY <1>5, ReplacementMaps
  <2> QED
    BY <1>5, <2>1 DEF Anchored!Next
<1>6. ASSUME NEW s \in Offsets, NEW last \in Offsets, NEW line \in BOOLEAN, RemoveText(s, last, line)
      PROVE  Anchored!Next
  <2>1. s <= last /\ Intact(s, last) /\ BufferRemoveText(s, last - s + 1, line, last)
    BY <1>6 DEF RemoveText
  <2>2. Spans(s, last, last - s + 1)
    BY <1>1, <2>1, IntactSpans
  <2> QED
    BY <1>4, <2>1, <2>2
<1>7. ASSUME NEW s \in Offsets, NEW last \in Offsets, NEW line \in BOOLEAN, NEW tokens \in BOOLEAN,
             NEW opts \in Options, RemoveRange(s, last, tokens, opts, line)
      PROVE  Anchored!Next
  <2>1. /\ Editable(s, last, tokens, opts)
        /\ BufferRemoveText(s, GetRangeSize(s, last, tokens, opts), line, last)
    BY <1>7 DEF RemoveRange
  <2>2. Spans(s, last, GetRangeSize(s, last, tokens, opts))
    BY <1>1, <2>1, RangeSpans
  <2>3. s <= last
    BY <2>2 DEF Spans
  <2> QED
    BY <1>4, <2>1, <2>2, <2>3
<1>8. ASSUME NEW s \in Offsets, NEW last \in Offsets, NEW str \in Strings, ReplaceText(s, last, str)
      PROVE  Anchored!Next
  <2>1. s <= last /\ Intact(s, last) /\ BufferReplaceText(s, last - s + 1, str)
    BY <1>8 DEF ReplaceText
  <2>2. Spans(s, last, last - s + 1)
    BY <1>1, <2>1, IntactSpans
  <2> QED
    BY <1>5, <2>1, <2>2
<1>9. ASSUME NEW s \in Offsets, NEW last \in Offsets, NEW str \in Strings, ReplaceRange(s, last, str)
      PROVE  Anchored!Next
  <2>1. /\ Editable(s, last, TRUE, Default)
        /\ BufferReplaceText(s, GetRangeSize(s, last, TRUE, Default), str)
    BY <1>9 DEF ReplaceRange
  <2>2. Default \in Options /\ TRUE \in BOOLEAN
    BY DEF Default, Options
  <2>3. Spans(s, last, GetRangeSize(s, last, TRUE, Default))
    BY <1>1, <2>1, <2>2, RangeSpans
  <2>4. s <= last
    BY <2>3 DEF Spans
  <2> QED
    BY <1>5, <2>1, <2>3, <2>4
<1>10. CASE UNCHANGED vars
  BY <1>10 DEF vars
<1> QED
  BY <1>2, <1>3, <1>6, <1>7, <1>8, <1>9, <1>10 DEF Next

(* Every edit of the buffer is that of the anchored text: what it inserts,
   removes or replaces is what the client meant, whatever was edited before.*)
THEOREM EditsHitTheirText ==
  ASSUME ~InsertsAtEnds, ~MovedLines
  PROVE  Spec => ImplementsAnchoredText
<1>1. Spec => []BufferKept
  BY AlwaysKept
<1>2. Init => Anchored!Init
  BY DEF Init, Anchored!Init
<1>3. BufferKept /\ [Next]_vars => [Anchored!Next]_text
  BY NextMaps
<1> QED
  BY <1>1, <1>2, <1>3, PTL DEF Spec, ImplementsAnchoredText, Anchored!Spec
==============================================================================
