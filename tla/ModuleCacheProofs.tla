------------------------- MODULE ModuleCacheProofs -------------------------
(* Proofs about ModuleCache for every number of processes and modules: type
   correctness, that modules are built under their lock, that two processes
   cannot wait for each other when the module graph is acyclic; which module
   files a compilation uses, what it publishes and what it reports; and that
   it implements ModuleImports, and what an error comes from.               *)
EXTENDS ModuleCache, SequenceTheorems, TLAPS

-----------------------------------------------------------------------------
(* Compiler instances *)

(* An instance that is not between two imports has a current import other
   than itself, a translation unit has no lock to release, and a control
   block that waits for a file it imports names that file.                  *)
FrameOK(f) ==
  /\ f \in Frame
  /\ f.pc \notin {"import", "unlock"} => f.todo # <<>> /\ Cur(f) # f.mod
  /\ f.pc = "unlock" => f.mod # TU
  /\ \A k \in 1..Len(f.rd) : k < Len(f.rd) => f.rd[k].left # {}

(* The instances of a process: the translation unit at the bottom, modules
   above it, every one but the innermost in compileModule.                 *)
StackOK(p) ==
  /\ status[p] = "crashed" <=> stack[p] = <<>>
  /\ \A i \in 1..Depth(p) :
       /\ FrameOK(stack[p][i])
       /\ stack[p][i].mod = TU <=> i = 1
       /\ i < Depth(p) => stack[p][i].pc = "lock"

Typed == TypeOK /\ \A p \in Proc : StackOK(p)

USE DEF Version

(* What is assumed of the constants, part by part.                          *)
LEMMA ConstantsOK ==
  /\ TU \notin Module /\ Free \notin Proc /\ NoFile # Torn
  /\ NoFile \notin Content /\ Torn \notin Content
  /\ MaxVersion \in Nat /\ 1 \in Version /\ MaxFaults \in Nat
  /\ Imports \in [Module -> Seq(Module)] /\ TUImports \in [Proc -> Seq(Module)]
BY ModuleCacheAssumption

(* A new instance is in order.                                              *)
LEMMA NewInstanceOK ==
  ASSUME NEW m \in Module \cup {TU}, NEW v \in Version,
         NEW s \in Seq(Module), NEW d \in BOOLEAN
  PROVE  FrameOK(NewInstance(m, v, s, d)) /\ NewInstance(m, v, s, d).mod = m
BY EmptySeq DEF FrameOK, Frame, NewInstance

(* What an instance keeps when it handles an import call.                  *)
Same(f, g) ==
  FrameOK(g) /\ g.mod = f.mod /\ (g.todo = f.todo \/ g.todo = Tail(f.todo))

(* So is one that goes on to its next import,                               *)
LEMMA NextCallOK ==
  ASSUME NEW f, FrameOK(f), f.todo # <<>>
  PROVE  Same(f, NextCall(f))
BY HeadTailProperties DEF FrameOK, Frame, NextCall, Same

(* one that looked at a file,                                               *)
LEMMA StatOK ==
  ASSUME NEW f, FrameOK(f), NEW m \in Module, NEW c \in BOOLEAN
  PROVE  Same(f, Stat(f, m, c)) /\ Stat(f, m, c).todo = f.todo
         /\ Stat(f, m, c).rd = f.rd /\ Stat(f, m, c).chain = f.chain
         /\ Stat(f, m, c).pc = f.pc
BY DEF FrameOK, Frame, Stat, Same, Cur

(* The current import of an instance is a module.                           *)
LEMMA CurOK ==
  ASSUME NEW f, FrameOK(f), f.todo # <<>>
  PROVE  Cur(f) \in Module
BY HeadTailProperties DEF FrameOK, Frame, Cur

(* An instance stays in order when an import of it fails,                   *)
LEMMA FailedOK ==
  ASSUME NEW f, FrameOK(f), f.todo # <<>>, NEW null \in BOOLEAN, NEW r \in BOOLEAN
  PROVE  Same(f, Failed(f, null, r))
<1> DEFINE g == [f EXCEPT !.known[Cur(f)] = IF null THEN "null" ELSE @,
                          !.err = @ \/ r]
<1>1. FrameOK(g) /\ g.mod = f.mod /\ g.todo = f.todo
  BY CurOK, ZenonT(60) DEF FrameOK, Frame, Cur
<1>2. Same(g, NextCall(g))
  BY <1>1, NextCallOK
<1> QED
  BY <1>1, <1>2 DEF Failed, Same

(* and when it forgets the files it read.                                   *)
LEMMA DroppedOK ==
  ASSUME NEW f, FrameOK(f)
  PROVE  Same(f, Dropped(f)) /\ Dropped(f).todo = f.todo
<1> DEFINE c == [d \in Module |-> IF d \in f.fresh THEN NoFile ELSE f.chain[d]]
<1>1. c \in [Module -> Content \cup {NoFile}]
  BY DEF FrameOK, Frame
<1>2. <<>> \in Seq([m : Module, left : SUBSET Module]) /\ Len(<<>>) = 0
  BY EmptySeq
<1>3. Dropped(f) = [f EXCEPT !.rd = <<>>, !.fresh = {}, !.chain = c]
  BY DEF Dropped
<1> HIDE DEF c
<1>4. Dropped(f) \in Frame /\ Dropped(f).rd = <<>>
  BY <1>1, <1>2, <1>3 DEF FrameOK, Frame
<1>5. /\ Dropped(f).mod = f.mod /\ Dropped(f).pc = f.pc
      /\ Dropped(f).todo = f.todo
  BY <1>3 DEF FrameOK, Frame
<1> QED
  BY <1>2, <1>4, <1>5 DEF FrameOK, Same, Cur

(* A control block that goes on leaves those below it alone.                *)
LEMMA AdvanceOK ==
  ASSUME NEW rd \in Seq([m : Module, left : SUBSET Module]), rd # <<>>, NEW m
  PROVE  /\ Advance(rd, m) \in Seq([m : Module, left : SUBSET Module])
         /\ Len(Advance(rd, m)) = Len(rd)
         /\ \A k \in 1..Len(rd) : k < Len(rd) => Advance(rd, m)[k] = rd[k]
<1> DEFINE R == [m : Module, left : SUBSET Module]
           n == Len(rd)
           e == [m |-> Last(rd).m, left |-> Last(rd).left \ {m}]
<1>1. n \in Nat /\ n # 0
  BY EmptySeq, LenProperties
<1>2. n \in 1..n
  BY <1>1
<1>3. rd[n] \in R
  BY <1>2, ElementOfSeq
<1>4. e \in R
  BY <1>3 DEF Last
<1>5. Advance(rd, m) = [rd EXCEPT ![n] = e]
  BY DEF Advance
<1> HIDE DEF e, R
<1>6. /\ [rd EXCEPT ![n] = e] \in Seq(R) /\ Len([rd EXCEPT ![n] = e]) = n
      /\ \A k \in 1..n : k < n => [rd EXCEPT ![n] = e][k] = rd[k]
  BY <1>1, <1>2, <1>4, ExceptSeq DEF R
<1> QED
  BY <1>5, <1>6 DEF R

(* An instance stays in order when a file is read into it.                  *)
LEMMA FileReadOK ==
  ASSUME NEW f, FrameOK(f), f.todo # <<>>, NEW m
  PROVE  Same(f, FileRead(f, m))
<1>1. CASE f.rd = <<>>
  <2> DEFINE g == [f EXCEPT !.known[Cur(f)] = "ok", !.fresh = {},
                            !.imps = @ \cup {Cur(f)}]
  <2>1. FrameOK(g) /\ g.mod = f.mod /\ g.todo = f.todo
    BY CurOK, ZenonT(60) DEF FrameOK, Frame, Cur
  <2>2. Same(g, NextCall(g))
    BY <2>1, NextCallOK
  <2> QED
    BY <1>1, <2>1, <2>2 DEF FileRead, Same
<1>2. CASE f.rd # <<>>
  <2> DEFINE r == Advance(f.rd, m)
  <2>1. /\ r \in Seq([m : Module, left : SUBSET Module]) /\ Len(r) = Len(f.rd)
        /\ \A k \in 1..Len(r) : k < Len(r) => r[k] = f.rd[k]
    <3>1. f.rd \in Seq([m : Module, left : SUBSET Module])
      BY DEF FrameOK, Frame
    <3> QED
      BY <1>2, <3>1, AdvanceOK
  <2>2. FileRead(f, m) = [f EXCEPT !.rd = r]
    BY <1>2 DEF FileRead
  <2> HIDE DEF r
  <2>3. FileRead(f, m) \in Frame /\ FileRead(f, m).rd = r
    BY <2>1, <2>2 DEF FrameOK, Frame
  <2>4. /\ FileRead(f, m).mod = f.mod /\ FileRead(f, m).todo = f.todo
        /\ FileRead(f, m).pc = f.pc
    BY <2>2 DEF FrameOK, Frame
  <2> QED
    BY <2>1, <2>3, <2>4 DEF FrameOK, Same, Cur
<1> QED
  BY <1>1, <1>2

(* A sequence with one more at its end.                                     *)
LEMMA AppendTyped ==
  ASSUME NEW S, NEW s \in Seq(S), NEW e \in S
  PROVE  /\ Append(s, e) \in Seq(S) /\ Len(Append(s, e)) = Len(s) + 1
         /\ \A k \in 1..Len(s) : Append(s, e)[k] = s[k]
BY AppendProperties

(* A sequence without its last.                                             *)
LEMMA FrontTyped ==
  ASSUME NEW S, NEW s \in Seq(S), Len(s) # 0
  PROVE  /\ Front(s) \in Seq(S) /\ Len(Front(s)) = Len(s) - 1
         /\ \A k \in 1..Len(s) - 1 : Front(s)[k] = s[k]
<1> DEFINE n == Len(s) - 1
<1>1. 1 \in 1..Len(s) + 1 /\ n \in 1 - 1..Len(s) /\ n - 1 + 1 = n /\ n \in Nat
  BY LenProperties
<1>2. Front(s) = SubSeq(s, 1, n)
  BY DEF Front
<1> HIDE DEF n
<1>3. SubSeq(s, 1, n) \in Seq(S) /\ Len(SubSeq(s, 1, n)) = n
      /\ \A k \in 1..n : SubSeq(s, 1, n)[k] = s[k]
  BY <1>1, SubSeqProperties
<1> QED
  BY <1>2, <1>3 DEF n

-----------------------------------------------------------------------------
(* Stacks of instances *)

(* A running process has an innermost instance, which is in order.          *)
LEMMA RunningTop ==
  ASSUME Typed, NEW p \in Proc, status[p] = "running"
  PROVE  /\ stack[p] \in Seq(Frame) /\ stack[p] # <<>>
         /\ Depth(p) \in Nat \ {0} /\ Depth(p) \in 1..Depth(p)
         /\ FrameOK(Top(p)) /\ Top(p) \in Frame
<1>1. stack[p] \in Seq(Frame) /\ stack[p] # <<>>
  BY DEF Typed, TypeOK, StackOK
<1>2. Depth(p) \in Nat \ {0} /\ Depth(p) \in 1..Depth(p)
  BY <1>1, EmptySeq DEF Depth
<1>3. FrameOK(Top(p))
  BY <1>2 DEF Typed, StackOK, Top
<1> QED
  BY <1>1, <1>2, <1>3 DEF FrameOK

(* What a step of one process must show about the stacks.                  *)
StacksOK == stack \in [Proc -> Seq(Frame)] /\ \A q \in Proc : StackOK(q)

(* A stack that does not change stays in order.                             *)
LEMMA OthersOK ==
  ASSUME NEW q \in Proc, StackOK(q), stack'[q] = stack[q], status'[q] = status[q]
  PROVE  StackOK(q)'
<1>1. \A i \in 1..Len(stack[q]) : /\ FrameOK(stack[q][i])
                                  /\ stack[q][i].mod = TU <=> i = 1
                                  /\ i < Len(stack[q]) => stack[q][i].pc = "lock"
  BY DEF StackOK, Depth
<1>2. status[q] = "crashed" <=> stack[q] = <<>>
  BY DEF StackOK
<1> QED
  BY <1>1, <1>2 DEF StackOK, Depth, FrameOK

(* What makes a stack one that is in order.                                 *)
LEMMA StackIntro ==
  ASSUME NEW q, NEW s, NEW n, stack'[q] = s, Len(s) = n, s # <<>>,
         status'[q] # "crashed",
         \A i \in 1..n : FrameOK(s[i]),
         \A i \in 1..n : /\ s[i].mod = TU <=> i = 1
                         /\ i < n => s[i].pc = "lock"
  PROVE  StackOK(q)'
BY DEF StackOK, Depth, FrameOK

(* A step of the innermost instance keeps all stacks in order,              *)
LEMMA SetTopOK ==
  ASSUME Typed, NEW p \in Proc, status[p] = "running",
         NEW g, Same(Top(p), g), SetTop(p, g), status' = status
  PROVE  /\ StacksOK'
         /\ Len(stack'[p]) = Len(stack[p])
         /\ \A i \in 1..Len(stack[p]) :
              stack'[p][i] = IF i = Len(stack[p]) THEN g ELSE stack[p][i]
         /\ \A q \in Proc \ {p} : stack'[q] = stack[q]
<1> DEFINE n == Len(stack[p])
           s == [stack[p] EXCEPT ![n] = g]
<1>1. stack[p] \in Seq(Frame) /\ n \in 1..n /\ n \in Nat /\ g \in Frame
  BY RunningTop DEF Same, FrameOK, Depth
<1>2. /\ s \in Seq(Frame) /\ Len(s) = n
      /\ \A i \in 1..n : s[i] = IF i = n THEN g ELSE stack[p][i]
  BY <1>1, ExceptSeq
<1>3. stack' = [stack EXCEPT ![p] = s] /\ stack \in [Proc -> Seq(Frame)]
  BY DEF SetTop, Depth, Typed, TypeOK
<1> HIDE DEF s
<1>4. stack' \in [Proc -> Seq(Frame)] /\ stack'[p] = s
      /\ \A q \in Proc \ {p} : stack'[q] = stack[q]
  BY <1>2, <1>3
<1>5. StackOK(p)'
  <2>1. s # <<>>
    BY <1>1, <1>2, EmptySeq
  <2>2. \A i \in 1..n : FrameOK(s[i]) /\ s[i].mod = stack[p][i].mod
    BY <1>1, <1>2 DEF Typed, StackOK, Same, Top, Depth
  <2>3. \A i \in 1..n : /\ stack[p][i].mod = TU <=> i = 1
                        /\ i < n => stack[p][i].pc = "lock"
    BY DEF Typed, StackOK, Depth
  <2>4. \A i \in 1..n : i < n => s[i].pc = "lock"
    BY <1>1, <1>2, <2>3
  <2> QED
    <3>1. \A i \in 1..n : FrameOK(s[i])
      BY <2>2
    <3>2. stack'[p] = s /\ status'[p] # "crashed"
      BY <1>4 DEF Typed, StackOK
    <3>3. \A i \in 1..n : /\ s[i].mod = TU <=> i = 1
                          /\ i < n => s[i].pc = "lock"
      BY <2>2, <2>3, <2>4
    <3>4. Len(s) = n
      BY <1>2
    <3> HIDE DEF n
    <3> QED
      BY <2>1, <3>1, <3>2, <3>3, <3>4, StackIntro
<1>6. ASSUME NEW q \in Proc \ {p} PROVE StackOK(q)'
  BY <1>4, OthersOK DEF Typed
<1> QED
  BY <1>2, <1>4, <1>5, <1>6 DEF StacksOK

(* so does the call of a new instance,                                      *)
LEMMA PushOK ==
  ASSUME Typed, NEW p \in Proc, status[p] = "running", Top(p).pc = "lock",
         NEW g, FrameOK(g), g.mod # TU,
         stack' = [stack EXCEPT ![p] = Append(stack[p], g)], status' = status
  PROVE  /\ StacksOK'
         /\ Len(stack'[p]) = Len(stack[p]) + 1
         /\ \A i \in 1..Len(stack[p]) + 1 :
              stack'[p][i] = IF i = Len(stack[p]) + 1 THEN g ELSE stack[p][i]
         /\ \A q \in Proc \ {p} : stack'[q] = stack[q]
<1> DEFINE n == Len(stack[p])
           s == Append(stack[p], g)
<1>1. stack[p] \in Seq(Frame) /\ n \in 1..n /\ n \in Nat /\ g \in Frame
  BY RunningTop DEF FrameOK, Depth
<1>2. /\ s \in Seq(Frame) /\ Len(s) = n + 1
      /\ \A i \in 1..n + 1 : s[i] = IF i = n + 1 THEN g ELSE stack[p][i]
  BY <1>1, AppendProperties
<1>3. stack' = [stack EXCEPT ![p] = s] /\ stack \in [Proc -> Seq(Frame)]
  BY DEF Typed, TypeOK
<1> HIDE DEF s
<1>4. stack' \in [Proc -> Seq(Frame)] /\ stack'[p] = s
      /\ \A q \in Proc \ {p} : stack'[q] = stack[q]
  BY <1>2, <1>3
<1>5. StackOK(p)'
  <2>1. s # <<>>
    BY <1>1, <1>2, EmptySeq
  <2>2. \A i \in 1..n : /\ FrameOK(stack[p][i])
                        /\ stack[p][i].mod = TU <=> i = 1
                        /\ stack[p][i].pc = "lock"
    BY <1>1 DEF Typed, StackOK, Depth, Top
  <2>3. \A i \in 1..n + 1 : FrameOK(s[i])
    BY <1>1, <1>2, <2>2
  <2>4. \A i \in 1..n + 1 : /\ s[i].mod = TU <=> i = 1
                            /\ i < n + 1 => s[i].pc = "lock"
    BY <1>1, <1>2, <2>2
  <2> QED
    <3> DEFINE k == n + 1
    <3>1. \A i \in 1..k : FrameOK(s[i])
      BY <2>3
    <3>2. stack'[p] = s /\ status'[p] # "crashed"
      BY <1>4
    <3>3. \A i \in 1..k : /\ s[i].mod = TU <=> i = 1
                          /\ i < k => s[i].pc = "lock"
      BY <2>4
    <3>4. Len(s) = k
      BY <1>2
    <3> HIDE DEF k, n
    <3> QED
      BY <2>1, <3>1, <3>2, <3>3, <3>4, StackIntro
<1>6. ASSUME NEW q \in Proc \ {p} PROVE StackOK(q)'
  BY <1>4, OthersOK DEF Typed
<1> QED
  BY <1>2, <1>4, <1>5, <1>6 DEF StacksOK

(* the return from one,                                                     *)
LEMMA PopOK ==
  ASSUME Typed, NEW p \in Proc, status[p] = "running", Depth(p) > 1,
         NEW g, stack' = [stack EXCEPT
           ![p] = [Front(stack[p]) EXCEPT ![Len(Front(stack[p]))] = g]],
         Same(Last(Front(stack[p])), g), status' = status
  PROVE  /\ StacksOK'
         /\ Len(stack'[p]) = Len(stack[p]) - 1
         /\ \A i \in 1..Len(stack[p]) - 1 :
              stack'[p][i] = IF i = Len(stack[p]) - 1 THEN g ELSE stack[p][i]
         /\ \A q \in Proc \ {p} : stack'[q] = stack[q]
<1> DEFINE n == Len(stack[p])
           b == Front(stack[p])
           s == [b EXCEPT ![n - 1] = g]
<1>1. stack[p] \in Seq(Frame) /\ n \in Nat /\ n > 1 /\ g \in Frame
  BY RunningTop DEF Same, FrameOK, Depth
<1>2. /\ b \in Seq(Frame) /\ Len(b) = n - 1
      /\ \A i \in 1..n - 1 : b[i] = stack[p][i]
  BY <1>1, SubSeqProperties DEF Front
<1>3. /\ s \in Seq(Frame) /\ Len(s) = n - 1
      /\ \A i \in 1..n - 1 : s[i] = IF i = n - 1 THEN g ELSE stack[p][i]
  <2>1. n - 1 \in 1..Len(b)
    BY <1>1, <1>2
  <2> HIDE DEF b
  <2> QED
    BY <1>1, <1>2, <2>1, ExceptSeq
<1>4. stack' = [stack EXCEPT ![p] = s] /\ stack \in [Proc -> Seq(Frame)]
  BY <1>2 DEF Typed, TypeOK
<1>5. FrameOK(g) /\ g.mod = stack[p][n - 1].mod
  BY <1>1, <1>2 DEF Last, Same
<1> HIDE DEF s, b
<1>6. stack' \in [Proc -> Seq(Frame)] /\ stack'[p] = s
      /\ \A q \in Proc \ {p} : stack'[q] = stack[q]
  BY <1>3, <1>4
<1>7. StackOK(p)'
  <2>1. s # <<>>
    BY <1>1, <1>3, EmptySeq
  <2>2. \A i \in 1..n : /\ FrameOK(stack[p][i])
                        /\ stack[p][i].mod = TU <=> i = 1
                        /\ i < n => stack[p][i].pc = "lock"
    BY DEF Typed, StackOK, Depth
  <2>3. \A i \in 1..n - 1 : FrameOK(s[i]) /\ s[i].mod = stack[p][i].mod
    <3> TAKE i \in 1..n - 1
    <3>1. i \in 1..n /\ s[i] = IF i = n - 1 THEN g ELSE stack[p][i]
      BY <1>1, <1>3
    <3>2. FrameOK(stack[p][i])
      BY <2>2, <3>1
    <3> QED
      BY <1>5, <3>1, <3>2
  <2>4. \A i \in 1..n - 1 : /\ s[i].mod = TU <=> i = 1
                            /\ i < n - 1 => s[i].pc = "lock"
    <3> TAKE i \in 1..n - 1
    <3>1. i \in 1..n /\ i < n /\ s[i].mod = stack[p][i].mod
      BY <1>1, <2>3
    <3>2. i < n - 1 => s[i] = stack[p][i]
      BY <1>1, <1>3
    <3> QED
      BY <2>2, <3>1, <3>2
  <2> QED
    <3> DEFINE k == n - 1
    <3>1. \A i \in 1..k : FrameOK(s[i])
      BY <2>3
    <3>2. stack'[p] = s /\ status'[p] # "crashed"
      BY <1>6
    <3>3. \A i \in 1..k : /\ s[i].mod = TU <=> i = 1
                          /\ i < k => s[i].pc = "lock"
      BY <2>4
    <3>4. Len(s) = k
      BY <1>3
    <3> HIDE DEF k, n
    <3> QED
      BY <2>1, <3>1, <3>2, <3>3, <3>4, StackIntro
<1>8. ASSUME NEW q \in Proc \ {p} PROVE StackOK(q)'
  BY <1>6, OthersOK DEF Typed
<1> QED
  BY <1>3, <1>6, <1>7, <1>8 DEF StacksOK

(* and a crash.                                                             *)
LEMMA CrashedOK ==
  ASSUME Typed, NEW p \in Proc, Crashed(p)
  PROVE  /\ StacksOK' /\ stack'[p] = <<>> /\ Len(stack'[p]) = 0
         /\ status' \in [Proc -> {"running", "done", "crashed"}]
         /\ status'[p] = "crashed"
         /\ \A q \in Proc \ {p} : stack'[q] = stack[q] /\ status'[q] = status[q]
<1>1. <<>> \in Seq(Frame) /\ Len(<<>>) = 0
  BY EmptySeq
<1>2. /\ stack' \in [Proc -> Seq(Frame)] /\ stack'[p] = <<>>
      /\ status' \in [Proc -> {"running", "done", "crashed"}]
      /\ status'[p] = "crashed"
      /\ \A q \in Proc \ {p} : stack'[q] = stack[q] /\ status'[q] = status[q]
  BY <1>1 DEF Crashed, Typed, TypeOK
<1>3. StackOK(p)'
  BY <1>1, <1>2 DEF StackOK, Depth
<1>4. ASSUME NEW q \in Proc \ {p} PROVE StackOK(q)'
  BY <1>2, OthersOK DEF Typed
<1> QED
  BY <1>1, <1>2, <1>3, <1>4 DEF StacksOK

-----------------------------------------------------------------------------
(* The steps that only change the innermost instance of a process          *)

(* Process p changes its innermost instance and nothing else about stacks. *)
Local(p) == /\ p \in Proc /\ status[p] = "running" /\ status' = status
            /\ \E g : Same(Top(p), g) /\ SetTop(p, g)

(* An import that is known changes the innermost instance alone.            *)
LEMMA ImportKnownLocal ==
  ASSUME Typed, NEW p \in Proc, ImportKnown(p)
  PROVE  Local(p)
<1> DEFINE f == Top(p)
           g == [f EXCEPT !.known[Cur(f)] = IF @ = "unknown" THEN "ok" ELSE @]
<1>1. status[p] = "running" /\ FrameOK(f) /\ f.todo # <<>>
  BY RunningTop DEF ImportKnown, Importing, At
<1>2. FrameOK(g) /\ g.mod = f.mod /\ g.todo = f.todo
  BY <1>1, CurOK DEF FrameOK, Frame, Cur
<1>3. Same(g, NextCall(g))
  BY <1>1, <1>2, NextCallOK
<1>4. Same(f, NextCall(g)) /\ SetTop(p, NextCall(g))
  BY <1>2, <1>3 DEF Same, ImportKnown
<1> QED
  BY <1>1, <1>4 DEF Local, ImportKnown

(* So does the search for a module file,                                    *)
LEMMA FindModuleFileLocal ==
  ASSUME Typed, NEW p \in Proc, FindModuleFile(p)
  PROVE  Local(p)
<1> DEFINE t == Top(p)
           f == Stat(t, Cur(t), FALSE)
           m == Cur(f)
<1>1. status[p] = "running" /\ FrameOK(t) /\ t.todo # <<>>
  BY RunningTop DEF FindModuleFile, Importing, At
<1>2. FrameOK(f) /\ f.mod = t.mod /\ f.todo = t.todo
  BY <1>1, CurOK, StatOK DEF Same
<1>3. m # f.mod
  BY DEF FindModuleFile
<1>4. CASE SetTop(p, [f EXCEPT !.pc = "read", !.why = "cached"])
  <2>1. Same(t, [f EXCEPT !.pc = "read", !.why = "cached"])
    <3> HIDE DEF f
    <3> QED
      BY <1>1, <1>2, <1>3 DEF FrameOK, Frame, Same, Cur
  <2> QED
    BY <1>1, <1>4, <2>1 DEF Local, FindModuleFile
<1>5. CASE SetTop(p, Failed(f, FALSE, TRUE))
  <2>1. Same(t, Failed(f, FALSE, TRUE))
    BY <1>1, <1>2, FailedOK DEF Same
  <2> QED
    BY <1>1, <1>5, <2>1 DEF Local, FindModuleFile
<1>6. CASE SetTop(p, [f EXCEPT !.pc = "lock", !.why = "build"])
  <2>1. Same(t, [f EXCEPT !.pc = "lock", !.why = "build"])
    <3> HIDE DEF f
    <3> QED
      BY <1>1, <1>2, <1>3 DEF FrameOK, Frame, Same, Cur
  <2> QED
    BY <1>1, <1>6, <2>1 DEF Local, FindModuleFile
<1> QED
  BY <1>4, <1>5, <1>6 DEF FindModuleFile

(* A step that only moves the program counter within compileModule.        *)
LEMMA MoveLocal ==
  ASSUME Typed, NEW p \in Proc, status[p] = "running", status' = status,
         NEW c \in {"wait", "after", "unlock"}, NEW e \in BOOLEAN,
         IF c = "unlock" THEN Depth(p) > 1 ELSE Top(p).pc \notin {"import", "unlock"},
         SetTop(p, [Top(p) EXCEPT !.pc = c, !.err = e])
  PROVE  Local(p)
<1> DEFINE f == Top(p)
           g == [f EXCEPT !.pc = c, !.err = e]
<1>1. FrameOK(f)
  BY RunningTop
<1>2. Depth(p) > 1 => f.mod # TU
  BY RunningTop DEF Typed, StackOK, Top
<1>3. g \in Frame /\ g.pc = c /\ g.mod = f.mod /\ g.todo = f.todo /\ g.rd = f.rd
  BY <1>1 DEF FrameOK, Frame
<1>4. Same(f, g)
  <2> HIDE DEF f, g
  <2>1. IF c = "unlock" THEN f.mod # TU ELSE f.pc \notin {"import", "unlock"}
    BY <1>2 DEF f
  <2> QED
    BY <1>1, <1>3, <2>1 DEF FrameOK, Same, Cur
<1> QED
  BY <1>4 DEF Local

(* every answer about a lock but that it is owned,                          *)
LEMMA CompileModuleLocal ==
  ASSUME Typed, NEW p \in Proc, LockShared(p) \/ LockFails(p) \/ WaitForUnlock(p) \/ WaitTimesOut(p)
  PROVE  Local(p)
<1> DEFINE f == Top(p)
<1>1. status[p] = "running" /\ status' = status /\ FrameOK(f) /\ f \in Frame
      /\ f.pc \notin {"import", "unlock"}
  BY RunningTop DEF LockShared, LockFails, WaitForUnlock, WaitTimesOut, At
<1>2. f.err \in BOOLEAN
  BY <1>1 DEF Frame
<1>3. PICK c \in {"wait", "after"} :
        SetTop(p, [f EXCEPT !.pc = c]) \/ SetTop(p, [f EXCEPT !.pc = c, !.err = TRUE])
  BY DEF LockShared, LockFails, WaitForUnlock, WaitTimesOut
<1>4. [f EXCEPT !.pc = c] = [f EXCEPT !.pc = c, !.err = f.err]
  BY <1>1 DEF Frame
<1> QED
  BY <1>1, <1>2, <1>3, <1>4, MoveLocal

(* the end of a build,                                                      *)
LEMMA BuildLocal ==
  ASSUME Typed, NEW p \in Proc, EndOfModule(p) \/ BuildCrash(p)
  PROVE  Local(p)
<1> DEFINE f == Top(p)
<1>1. status[p] = "running" /\ status' = status /\ f \in Frame /\ Depth(p) > 1
  BY RunningTop DEF EndOfModule, BuildCrash, At
<1>2. f.err \in BOOLEAN
  BY <1>1 DEF Frame
<1>3. CASE EndOfModule(p)
  <2> DEFINE failed == f.err \/ <<f.mod, f.ver>> \in Bad
  <2>1. SetTop(p, [f EXCEPT !.pc = "unlock", !.err = failed])
    BY <1>3 DEF EndOfModule
  <2>2. failed \in BOOLEAN
    BY <1>2
  <2> HIDE DEF failed
  <2> QED
    BY <1>1, <2>1, <2>2, MoveLocal
<1>4. CASE BuildCrash(p)
  <2>1. SetTop(p, [f EXCEPT !.pc = "unlock"])
    BY <1>4 DEF BuildCrash
  <2>2. [f EXCEPT !.pc = "unlock"] = [f EXCEPT !.pc = "unlock", !.err = f.err]
    BY <1>1 DEF Frame
  <2> QED
    BY <1>1, <1>2, <2>1, <2>2, MoveLocal
<1> QED
  BY <1>3, <1>4

(* another look at the file,                                                *)
LEMMA RecheckLocal ==
  ASSUME Typed, NEW p \in Proc, Recheck(p)
  PROVE  Local(p)
<1> DEFINE t == Top(p)
           f == Stat(t, Cur(t), TRUE)
<1>1. status[p] = "running" /\ FrameOK(t) /\ t.todo # <<>> /\ t.pc = "after"
  BY RunningTop DEF Recheck, At, FrameOK
<1>2. /\ FrameOK(f) /\ f.mod = t.mod /\ f.todo = t.todo /\ f.pc = t.pc
  BY <1>1, CurOK, StatOK DEF Same
<1>3. CASE SetTop(p, [f EXCEPT !.pc = "read"])
  <2>1. Same(t, [f EXCEPT !.pc = "read"])
    <3> HIDE DEF f
    <3> QED
      BY <1>1, <1>2 DEF FrameOK, Frame, Same, Cur
  <2> QED
    BY <1>1, <1>3, <2>1 DEF Local, Recheck
<1>4. CASE SetTop(p, Failed(f, f.why = "rebuild", ~(f.why = "rebuild")))
  <2> DEFINE null == f.why = "rebuild"
             report == ~(f.why = "rebuild")
  <2>0. null \in BOOLEAN /\ report \in BOOLEAN
    OBVIOUS
  <2>1. Same(t, Failed(f, null, report))
    <3> HIDE DEF null, report, f
    <3>1. Same(f, Failed(f, null, report))
      BY <1>1, <1>2, <2>0, FailedOK
    <3> QED
      BY <1>2, <3>1 DEF Same
  <2> QED
    BY <1>1, <1>4, <2>1 DEF Local, Recheck
<1> QED
  BY <1>3, <1>4 DEF Recheck

(* the removal of a file,                                                   *)
LEMMA EvictLocal ==
  ASSUME Typed, NEW p \in Proc, Evict(p)
  PROVE  Local(p)
<1> DEFINE f == Top(p)
           g == [f EXCEPT !.fm[Cur(f)] = "unseen", !.why = "rebuild", !.pc = "lock"]
<1>1. status[p] = "running" /\ FrameOK(f) /\ f.pc = "evict" /\ SetTop(p, g)
  BY RunningTop DEF Evict, At
<1>2. Cur(f) \in Module
  BY <1>1, CurOK DEF FrameOK
<1>3. Same(f, g)
  BY <1>1, <1>2 DEF FrameOK, Frame, Same, Cur
<1> QED
  BY <1>1, <1>3 DEF Local, Evict

(* the opening of one,                                                      *)
LEMMA OpenASTLocal ==
  ASSUME Typed, NEW p \in Proc, OpenAST(p)
  PROVE  Local(p)
<1> DEFINE t == Top(p)
<1>1. /\ status[p] = "running" /\ FrameOK(t) /\ t.todo # <<>> /\ t.pc = "read"
      /\ Cur(t) # t.mod
      /\ t.rd # <<>> => Last(t.rd).left # {}
  BY RunningTop DEF OpenAST, AtFile, At, FrameOK
<1>2. Targets(t) \subseteq Module
  <2>1. CASE t.rd = <<>>
    BY <1>1, <2>1, CurOK DEF Targets
  <2>2. CASE t.rd # <<>>
    <3>1. t.rd \in Seq([m : Module, left : SUBSET Module])
      BY <1>1 DEF FrameOK, Frame
    <3>2. Len(t.rd) \in 1..Len(t.rd)
      BY <2>2, <3>1, EmptySeq
    <3>3. t.rd[Len(t.rd)] \in [m : Module, left : SUBSET Module]
      <4> HIDE DEF t
      <4> QED
        BY <3>1, <3>2, ElementOfSeq
    <3> QED
      BY <2>2, <3>3 DEF Targets, Last
  <2> QED
    BY <2>1, <2>2
<1> SUFFICES ASSUME NEW m \in Targets(t),
                    LET f == Stat(t, m, TRUE) IN
                    \/ SetTop(p, FileRead(f, m))
                    \/ SetTop(p, Failed(Dropped(f), TRUE, TRUE))
                    \/ /\ pcm[m] \notin {NoFile, Torn}
                       /\ SetTop(p, [f EXCEPT
                             !.chain[m] = pcm[m], !.fresh = @ \cup {m},
                             !.rd = Append(@, [m |-> m, left |-> pcm[m].imps])])
             PROVE  Local(p)
  BY DEF OpenAST
<1> DEFINE f == Stat(t, m, TRUE)
<1>3. /\ FrameOK(f) /\ f.mod = t.mod /\ f.todo = t.todo /\ f.rd = t.rd
      /\ f.pc = "read" /\ Cur(f) # f.mod /\ f.chain = t.chain
  BY <1>1, <1>2, StatOK DEF Same, Cur
<1>5. CASE SetTop(p, FileRead(f, m))
  <2>1. Same(t, FileRead(f, m))
    BY <1>1, <1>3, FileReadOK DEF Same
  <2> QED
    BY <1>1, <1>5, <2>1 DEF Local, OpenAST
<1>6. CASE SetTop(p, Failed(Dropped(f), TRUE, TRUE))
  <2>1. Same(t, Failed(Dropped(f), TRUE, TRUE))
    <3> DEFINE d == Dropped(f)
    <3>1. FrameOK(d) /\ d.mod = t.mod /\ d.todo = t.todo
      BY <1>3, DroppedOK DEF Same
    <3> HIDE DEF d
    <3>2. Same(d, Failed(d, TRUE, TRUE))
      BY <1>1, <3>1, FailedOK
    <3> QED
      BY <3>1, <3>2 DEF Same, d
  <2> QED
    BY <1>1, <1>6, <2>1 DEF Local, OpenAST
<1>7. CASE /\ pcm[m] \notin {NoFile, Torn}
           /\ SetTop(p, [f EXCEPT !.chain[m] = pcm[m], !.fresh = @ \cup {m},
                          !.rd = Append(@, [m |-> m, left |-> pcm[m].imps])])
  <2> DEFINE e == [m |-> m, left |-> pcm[m].imps]
             r == Append(f.rd, e)
             g == [f EXCEPT !.chain[m] = pcm[m], !.fresh = @ \cup {m}, !.rd = r]
  <2>1. m \in Module /\ pcm[m] \in Content
    BY <1>2, <1>7 DEF Typed, TypeOK
  <2>2. e \in [m : Module, left : SUBSET Module]
    BY <2>1 DEF Content
  <2>3. f.rd \in Seq([m : Module, left : SUBSET Module])
    BY <1>3 DEF FrameOK, Frame
  <2> HIDE DEF e
  <2>4. /\ r \in Seq([m : Module, left : SUBSET Module]) /\ Len(r) = Len(f.rd) + 1
        /\ \A k \in 1..Len(f.rd) : r[k] = f.rd[k]
    BY <2>2, <2>3, AppendTyped, ZenonT(60)
  <2> HIDE DEF r, f
  <2>5. \A k \in 1..Len(r) : k < Len(r) => r[k].left # {}
    <3>1. \A k \in 1..Len(f.rd) : k < Len(f.rd) => f.rd[k].left # {}
      BY <1>3 DEF FrameOK
    <3>2. f.rd # <<>> => f.rd[Len(f.rd)].left # {}
      BY <1>1, <1>3 DEF Last
    <3>3. Len(f.rd) \in Nat /\ (f.rd = <<>> => Len(f.rd) = 0)
      BY <2>3, EmptySeq, LenProperties
    <3> SUFFICES ASSUME NEW k \in 1..Len(r), k < Len(r)
                 PROVE  r[k].left # {}
      OBVIOUS
    <3>4. k \in 1..Len(f.rd) /\ f.rd # <<>>
      BY <2>4, <3>3
    <3>5. r[k] = f.rd[k]
      BY <2>4, <3>4
    <3>6. f.rd[k].left # {}
      BY <3>1, <3>2, <3>3, <3>4
    <3> QED
      BY <3>5, <3>6
  <2>6. g \in Frame /\ g.rd = r /\ g.mod = f.mod /\ g.todo = f.todo
    BY <1>3, <2>1, <2>4 DEF FrameOK, Frame
  <2>7. Same(t, g)
    BY <1>1, <1>3, <2>5, <2>6 DEF Same, FrameOK, Cur
  <2> QED
    BY <1>1, <1>7, <2>7 DEF Local, OpenAST, e, r, f
<1> QED
  BY <1>5, <1>6, <1>7 DEF OpenAST

(* and its validation.                                                      *)
LEMMA ValidateLocal ==
  ASSUME Typed, NEW p \in Proc, Validate(p)
  PROVE  Local(p)
<1> DEFINE f == Top(p)
           m == Last(f.rd).m
<1>1. /\ status[p] = "running" /\ FrameOK(f) /\ f.todo # <<>> /\ f.pc = "read"
      /\ Cur(f) # f.mod /\ f.rd # <<>>
  BY RunningTop DEF Validate, At, FrameOK
<1>2. CASE SetTop(p, FileRead([f EXCEPT !.rd = Front(@)], m))
  <2> DEFINE r == Front(f.rd)
             g == [f EXCEPT !.rd = r]
  <2>1. f.rd \in Seq([m : Module, left : SUBSET Module]) /\ Len(f.rd) \in Nat \ {0}
    BY <1>1, EmptySeq DEF FrameOK, Frame
  <2>2. /\ r \in Seq([m : Module, left : SUBSET Module]) /\ Len(r) = Len(f.rd) - 1
        /\ \A k \in 1..Len(r) : r[k] = f.rd[k]
    BY <2>1, FrontTyped
  <2> HIDE DEF r
  <2>3. \A k \in 1..Len(r) : r[k].left # {}
    <3>1. \A k \in 1..Len(f.rd) : k < Len(f.rd) => f.rd[k].left # {}
      BY <1>1 DEF FrameOK
    <3> HIDE DEF f
    <3> TAKE k \in 1..Len(r)
    <3>2. k \in 1..Len(f.rd) /\ k < Len(f.rd)
      BY <2>1, <2>2
    <3>3. r[k] = f.rd[k]
      BY <2>2
    <3> QED
      BY <3>1, <3>2, <3>3
  <2>5. g \in Frame /\ g.rd = r /\ g.mod = f.mod /\ g.todo = f.todo /\ g.pc = f.pc
    BY <1>1, <2>2 DEF FrameOK, Frame
  <2>6. FrameOK(g)
    BY <1>1, <2>3, <2>5 DEF FrameOK, Cur
  <2>7. Same(f, FileRead(g, m))
    BY <1>1, <2>5, <2>6, FileReadOK DEF Same
  <2> QED
    BY <1>1, <1>2, <2>7 DEF Local, Validate, r
<1>3. CASE SetTop(p, [Dropped(f) EXCEPT !.pc = "evict", !.err = @ \/ Cur(f) \in NoMap])
  <2> DEFINE d == Dropped(f)
             n == d.err \/ Cur(f) \in NoMap
  <2>1. Same(f, d) /\ d.todo = f.todo
    BY <1>1, DroppedOK
  <2>2. n \in BOOLEAN
    BY <2>1 DEF Same, FrameOK, Frame
  <2> HIDE DEF d, n
  <2>3. Same(f, [d EXCEPT !.pc = "evict", !.err = n])
    BY <1>1, <2>1, <2>2 DEF Same, FrameOK, Frame, Cur
  <2> QED
    BY <1>1, <1>3, <2>3 DEF Local, Validate, d, n
<1>4. CASE SetTop(p, Failed(Dropped(f), TRUE, TRUE))
  <2>1. Same(f, Failed(Dropped(f), TRUE, TRUE))
    BY <1>1, DroppedOK, FailedOK DEF Same
  <2> QED
    BY <1>1, <1>4, <2>1 DEF Local, Validate
<1> QED
  BY <1>2, <1>3, <1>4 DEF Validate

-----------------------------------------------------------------------------
(* Type correctness *)

SharedOK ==
  /\ pcm \in [Module -> Content \cup {NoFile, Torn}]
  /\ lock \in [Module -> Proc \cup {Free}]
  /\ hdr \in [Module -> Version]
  /\ status \in [Proc -> {"running", "done", "crashed"}]
  /\ faults \in 0..MaxFaults

(* The types, of what is shared and of the stacks.                          *)
LEMMA TypedParts == Typed <=> SharedOK /\ StacksOK
BY DEF Typed, TypeOK, SharedOK, StacksOK

(* The types at first.                                                      *)
LEMMA InitTyped == Init => Typed
<1> SUFFICES ASSUME Init PROVE SharedOK /\ StacksOK
  BY TypedParts
<1>1. SharedOK
  BY ModuleCacheAssumption DEF Init, SharedOK
<1>2. ASSUME NEW p \in Proc
      PROVE  stack[p] \in Seq(Frame) /\ StackOK(p)
  <2> DEFINE f == NewInstance(TU, 1, TUImports[p], FALSE)
  <2>1. FrameOK(f) /\ f.mod = TU
    BY ConstantsOK, NewInstanceOK
  <2>2. stack[p] = <<f>> /\ status[p] = "running"
    BY DEF Init
  <2> HIDE DEF f
  <2>3. stack[p] \in Seq(Frame) /\ Len(stack[p]) = 1 /\ stack[p][1] = f
    BY <2>1, <2>2 DEF FrameOK
  <2> QED
    BY <2>1, <2>2, <2>3 DEF StackOK, Depth
<1>3. stack \in [Proc -> Seq(Frame)]
  BY <1>2 DEF Init
<1> QED
  BY <1>1, <1>2, <1>3 DEF StacksOK

(* What an instance writes is a file.                                       *)
LEMMA OutputOK ==
  ASSUME NEW f \in Frame
  PROVE  Output(f) \in Content
<1> DEFINE s == [d \in Module |-> IF f.chain[d] = NoFile THEN 0 ELSE f.chain[d].ver]
<1>1. s \in [Module -> 0..MaxVersion]
  BY ConstantsOK DEF Frame, Content
<1>2. f.ver \in Version /\ f.imps \in SUBSET Module
  BY DEF Frame
<1> QED
  BY <1>1, <1>2 DEF Output, Content

(* Faults stay within their bound.                                          *)
LEMMA FaultOK ==
  ASSUME SharedOK, NEW k, Fault(k)
  PROVE  faults' \in 0..MaxFaults
BY ConstantsOK DEF SharedOK, Fault

(* A step of the innermost instance keeps the types.                        *)
LEMMA LocalTyped ==
  ASSUME Typed, NEW p \in Proc, Local(p),
         pcm' \in [Module -> Content \cup {NoFile, Torn}],
         lock' = lock, hdr' = hdr, faults' \in 0..MaxFaults
  PROVE  Typed'
<1>1. status[p] = "running" /\ status' = status
  BY DEF Local
<1>2. PICK g : Same(Top(p), g) /\ SetTop(p, g)
  BY DEF Local
<1>3. StacksOK'
  BY <1>1, <1>2, SetTopOK
<1>4. SharedOK'
  BY <1>1, TypedParts DEF SharedOK
<1> QED
  BY <1>3, <1>4 DEF Typed, TypeOK, SharedOK, StacksOK

(* What LockOwned does: it crashes, or pushes an instance for a module.    *)
LEMMA LockOwnedCases ==
  ASSUME Typed, NEW p \in Proc, LockOwned(p)
  PROVE  /\ status[p] = "running" /\ Top(p).pc = "lock" /\ Cur(Top(p)) \in Module
         /\ lock' = [lock EXCEPT ![Cur(Top(p))] = p] /\ hdr' = hdr
         /\ pcm' \in [Module -> Content \cup {NoFile, Torn}]
         /\ faults' \in 0..MaxFaults
         /\ \/ Crashed(p)
            \/ /\ status' = status
               /\ \E g : /\ FrameOK(g) /\ g.mod = Cur(Top(p))
                         /\ g.todo = Imports[Cur(Top(p))]
                         /\ stack' = [stack EXCEPT ![p] = Append(stack[p], g)]
<1> DEFINE m == Cur(Top(p))
           New(d) == NewInstance(m, hdr[m], Imports[m], d)
<1>1. status[p] = "running" /\ Top(p).pc = "lock" /\ FrameOK(Top(p))
  BY RunningTop DEF LockOwned, At
<1>2. m \in Module
  BY <1>1, CurOK DEF FrameOK
<1>3. \A d \in BOOLEAN : /\ FrameOK(New(d)) /\ New(d).mod = m
                         /\ New(d).todo = Imports[m]
  <2>1. hdr[m] \in Version /\ Imports[m] \in Seq(Module)
    BY <1>2, ConstantsOK DEF Typed, TypeOK
  <2> QED
    BY <1>2, <2>1, NewInstanceOK DEF NewInstance
<1> HIDE DEF New
<1>4. /\ lock' = [lock EXCEPT ![m] = p] /\ hdr' = hdr
      /\ pcm' = pcm \/ pcm' = [pcm EXCEPT ![m] = Torn]
      /\ faults' = faults \/ Fault("temp")
      /\ \/ Crashed(p)
         \/ /\ status' = status
            /\ \E d \in BOOLEAN :
                 stack' = [stack EXCEPT ![p] = Append(stack[p], New(d))]
  BY DEF LockOwned, New
<1>5. pcm' \in [Module -> Content \cup {NoFile, Torn}]
  BY <1>4 DEF Typed, TypeOK
<1>6. faults' \in 0..MaxFaults
  BY <1>4, FaultOK, TypedParts DEF SharedOK
<1> HIDE DEF m
<1> QED
  BY <1>1, <1>2, <1>3, <1>4, <1>5, <1>6 DEF m

(* So does a lock that is owned,                                            *)
LEMMA LockOwnedTyped ==
  ASSUME Typed, NEW p \in Proc, LockOwned(p)
  PROVE  Typed'
<1>1. StacksOK' /\ status' \in [Proc -> {"running", "done", "crashed"}]
  <2>1. CASE Crashed(p)
    BY <2>1, CrashedOK
  <2>2. CASE /\ status' = status
             /\ \E g : /\ FrameOK(g) /\ g.mod = Cur(Top(p))
                       /\ stack' = [stack EXCEPT ![p] = Append(stack[p], g)]
    <3>1. status' \in [Proc -> {"running", "done", "crashed"}]
      BY <2>2 DEF Typed, TypeOK
    <3>2. PICK g : /\ FrameOK(g) /\ g.mod = Cur(Top(p))
                   /\ stack' = [stack EXCEPT ![p] = Append(stack[p], g)]
      BY <2>2
    <3>3. g.mod # TU
      BY <3>2, LockOwnedCases, ConstantsOK
    <3> QED
      BY <2>2, <3>1, <3>2, <3>3, LockOwnedCases, PushOK
  <2> QED
    BY <2>1, <2>2, LockOwnedCases
<1>2. lock' \in [Module -> Proc \cup {Free}] /\ hdr' \in [Module -> Version]
  <2>1. lock' = [lock EXCEPT ![Cur(Top(p))] = p] /\ hdr' = hdr
    BY LockOwnedCases
  <2> QED
    BY <2>1 DEF Typed, TypeOK
<1>3. SharedOK'
  BY <1>1, <1>2, LockOwnedCases DEF SharedOK
<1> QED
  BY <1>1, <1>3 DEF Typed, TypeOK, SharedOK, StacksOK

(* its release,                                                             *)
LEMMA UnlockTyped ==
  ASSUME Typed, NEW p \in Proc, Unlock(p)
  PROVE  Typed'
<1> DEFINE b == Front(stack[p])
           g == [Last(b) EXCEPT !.pc = "after"]
<1>1. /\ status[p] = "running" /\ FrameOK(Top(p)) /\ stack[p] \in Seq(Frame)
      /\ Depth(p) \in Nat \ {0}
  BY RunningTop DEF Unlock, At
<1>2. Depth(p) > 1
  BY <1>1 DEF Unlock, At, FrameOK, Typed, StackOK, Top
<1>3. Last(b) = stack[p][Depth(p) - 1]
  <2>1. Len(b) = Depth(p) - 1 /\ \A k \in 1..Depth(p) - 1 : b[k] = stack[p][k]
    BY <1>1, FrontTyped DEF Depth
  <2>2. Depth(p) - 1 \in 1..Depth(p) - 1
    BY <1>1, <1>2
  <2> HIDE DEF b
  <2> QED
    BY <2>1, <2>2 DEF Last
<1>4. FrameOK(Last(b)) /\ Last(b).pc = "lock"
  <2>1. Depth(p) - 1 \in 1..Depth(p) /\ Depth(p) - 1 < Depth(p)
    BY <1>1, <1>2
  <2> QED
    BY <1>3, <2>1 DEF Typed, StackOK
<1>5. Same(Last(b), g)
  <2> HIDE DEF b
  <2> QED
    BY <1>4 DEF FrameOK, Frame, Same, Cur
<1>6. stack' = [stack EXCEPT ![p] = [b EXCEPT ![Len(b)] = g]] /\ status' = status
  BY DEF Unlock
<1>7. StacksOK'
  BY <1>1, <1>2, <1>5, <1>6, PopOK
<1>8. SharedOK'
  <2>1. lock' = [lock EXCEPT ![Top(p).mod] = Free]
        /\ UNCHANGED <<pcm, hdr, status, faults>>
    BY DEF Unlock, Released
  <2> QED
    BY <2>1 DEF SharedOK, Typed, TypeOK
<1> QED
  BY <1>7, <1>8 DEF Typed, TypeOK, SharedOK, StacksOK

(* the end of a translation unit,                                           *)
LEMMA EndOfTUTyped ==
  ASSUME Typed, NEW p \in Proc, EndOfTU(p)
  PROVE  Typed'
<1>1. /\ status' = [status EXCEPT ![p] = "done"] /\ status[p] = "running"
      /\ UNCHANGED <<pcm, lock, hdr, stack, faults>>
  BY DEF EndOfTU, At
<1>2. SharedOK'
  BY <1>1 DEF SharedOK, Typed, TypeOK
<1>3. ASSUME NEW q \in Proc PROVE StackOK(q)'
  <2>1. stack[q] = stack'[q]
    BY <1>1
  <2>2. (status'[q] = "crashed") <=> (status[q] = "crashed")
    BY <1>1 DEF Typed, TypeOK
  <2>3. status[q] = "crashed" <=> stack[q] = <<>>
    BY DEF Typed, StackOK
  <2>4. \A i \in 1..Len(stack[q]) : /\ FrameOK(stack[q][i])
                                    /\ stack[q][i].mod = TU <=> i = 1
                                    /\ i < Len(stack[q]) => stack[q][i].pc = "lock"
    BY DEF Typed, StackOK, Depth
  <2> QED
    BY <2>1, <2>2, <2>3, <2>4 DEF StackOK, Depth, FrameOK
<1> QED
  BY <1>1, <1>2, <1>3 DEF Typed, TypeOK, SharedOK

(* a crash,                                                                 *)
LEMMA CrashTyped ==
  ASSUME Typed, NEW p \in Proc, Crash(p)
  PROVE  Typed'
<1>1. Crashed(p) /\ Fault("crash") /\ UNCHANGED <<pcm, lock, hdr>>
  BY DEF Crash
<1>2. StacksOK' /\ status' \in [Proc -> {"running", "done", "crashed"}]
  BY <1>1, CrashedOK
<1>3. faults' \in 0..MaxFaults
  BY <1>1, FaultOK, TypedParts
<1>4. SharedOK'
  BY <1>1, <1>2, <1>3 DEF SharedOK, Typed, TypeOK
<1> QED
  BY <1>2, <1>4 DEF Typed, TypeOK, SharedOK, StacksOK

(* and an edit of headers.                                                  *)
LEMMA EditTyped ==
  ASSUME Typed, NEW m \in Module, EditHeaders(m)
  PROVE  Typed'
<1>1. /\ hdr' = [hdr EXCEPT ![m] = hdr[m] + 1] /\ hdr[m] < MaxVersion
      /\ UNCHANGED <<pcm, lock, stack, status, faults>>
  BY DEF EditHeaders
<1>2. hdr' \in [Module -> Version]
  <2>1. hdr \in [Module -> Version]
    BY DEF Typed, TypeOK
  <2>2. hdr[m] + 1 \in Version
    BY <1>1, <2>1, ConstantsOK
  <2> QED
    BY <1>1, <2>1, <2>2
<1>3. ASSUME NEW q \in Proc PROVE StackOK(q)'
  BY <1>1, OthersOK DEF Typed
<1> QED
  BY <1>1, <1>2, <1>3 DEF Typed, TypeOK

(* Which steps change one instance only, and leave lock and headers alone. *)
LEMMA LocalSteps ==
  ASSUME Typed, NEW p \in Proc,
         \/ ImportKnown(p) \/ FindModuleFile(p) \/ LockShared(p)
         \/ WaitForUnlock(p) \/ EndOfModule(p) \/ Recheck(p) \/ OpenAST(p)
         \/ Validate(p) \/ Evict(p) \/ LockFails(p) \/ WaitTimesOut(p) \/ BuildCrash(p)
  PROVE  Local(p) /\ Typed' /\ lock' = lock
<1>1. Local(p)
  BY ImportKnownLocal, FindModuleFileLocal, CompileModuleLocal, BuildLocal,
     RecheckLocal, OpenASTLocal, ValidateLocal, EvictLocal
<1>2. lock' = lock /\ hdr' = hdr
  BY DEF ImportKnown, FindModuleFile, LockShared, WaitForUnlock, EndOfModule,
         Recheck, OpenAST, Validate, Evict, LockFails, WaitTimesOut, BuildCrash
<1>3. faults' \in 0..MaxFaults
  <2>1. faults' = faults \/ \E k \in FaultKinds : Fault(k)
    BY DEF ImportKnown, FindModuleFile, LockShared, WaitForUnlock, EndOfModule,
           Recheck, OpenAST, Validate, Evict, LockFails, WaitTimesOut, BuildCrash, Fault
  <2> QED
    BY <2>1, FaultOK, TypedParts DEF SharedOK
<1>4. pcm' \in [Module -> Content \cup {NoFile, Torn}]
  <2>1. pcm \in [Module -> Content \cup {NoFile, Torn}]
    BY DEF Typed, TypeOK
  <2>2. CASE EndOfModule(p)
    <3>1. Output(Top(p)) \in Content
      BY <1>1, RunningTop, OutputOK DEF Local
    <3>2. pcm' = pcm \/ \E x \in {Output(Top(p)), NoFile, pcm[Top(p).mod]} :
                           pcm' = [pcm EXCEPT ![Top(p).mod] = x]
      BY <2>2 DEF EndOfModule
    <3> QED
      BY <2>1, <3>1, <3>2
  <2>3. CASE ~EndOfModule(p)
    <3>1. pcm' = pcm \/ \E m : pcm' = [pcm EXCEPT ![m] = NoFile]
                               \/ pcm' = [pcm EXCEPT ![m] = pcm[m]]
      BY <2>3 DEF ImportKnown, FindModuleFile, LockShared, WaitForUnlock,
                  Recheck, OpenAST, Validate, Evict, LockFails, WaitTimesOut, BuildCrash
    <3> QED
      BY <2>1, <3>1
  <2> QED
    BY <2>2, <2>3
<1> QED
  BY <1>1, <1>2, <1>3, <1>4, LocalTyped

(* Every step keeps the types.                                              *)
LEMMA NextTyped == Typed /\ [Next]_vars => Typed'
<1> SUFFICES ASSUME Typed, [Next]_vars PROVE Typed'
  OBVIOUS
<1>1. ASSUME NEW p \in Proc, Step(p) PROVE Typed'
  BY <1>1, LocalSteps, LockOwnedTyped, UnlockTyped, EndOfTUTyped DEF Step
<1>2. ASSUME Environment PROVE Typed'
  BY <1>2, LocalSteps, CrashTyped, EditTyped DEF Environment
<1>3. ASSUME UNCHANGED vars PROVE Typed'
  <2>1. ASSUME NEW q \in Proc PROVE StackOK(q)'
    BY <1>3, OthersOK DEF Typed, vars
  <2> QED
    BY <1>3, <2>1 DEF Typed, TypeOK, vars
<1> QED
  BY <1>1, <1>2, <1>3 DEF Next, Terminated

(* Every variable keeps its type, and every process its stack of instances
   with the translation unit at the bottom, in every behaviour.            *)
THEOREM TypeCorrect == Spec => []TypeOK
<1>1. Spec => []Typed
  BY InitTyped, NextTyped, PTL DEF Spec
<1>2. Typed => TypeOK
  BY DEF Typed
<1> QED
  BY <1>1, <1>2, PTL

-----------------------------------------------------------------------------
(* Locks and the modules being built *)

(* A module is built under its lock, by one instance; and a lock a running
   process has is that of a module it builds.                              *)
Locked == \A p \in Proc : \A i \in 2..Depth(p) : lock[stack[p][i].mod] = p
Distinct == \A p \in Proc : \A i, j \in 2..Depth(p) :
              stack[p][i].mod = stack[p][j].mod => i = j
Owned == \A m \in Module, p \in Proc :
           lock[m] = p /\ status[p] = "running" =>
             \E i \in 2..Depth(p) : stack[p][i].mod = m

LockInv == Typed /\ Locked /\ Distinct /\ Owned

(* Every instance above the first builds a module.                          *)
LEMMA ModOK ==
  ASSUME Typed, NEW p \in Proc, NEW i \in 2..Depth(p)
  PROVE  stack[p][i].mod \in Module /\ stack[p][i] \in Frame /\ i \in 1..Depth(p)
<1>1. Depth(p) \in Nat
  BY DEF Typed, TypeOK, Depth
<1>2. i \in 1..Depth(p) /\ i # 1
  BY <1>1
<1>3. FrameOK(stack[p][i]) /\ stack[p][i].mod # TU
  BY <1>2 DEF Typed, StackOK
<1> QED
  BY <1>2, <1>3 DEF FrameOK, Frame

(* A step of the innermost instance changes no module and goes on in its
   imports.                                                                 *)
LEMMA LocalMods ==
  ASSUME Typed, NEW p \in Proc, Local(p), NEW q \in Proc
  PROVE  /\ Depth(q)' = Depth(q)
         /\ \A i \in 1..Depth(q) :
              /\ stack'[q][i].mod = stack[q][i].mod
              /\ \/ stack'[q][i].todo = stack[q][i].todo
                 \/ stack'[q][i].todo = Tail(stack[q][i].todo)
<1>1. PICK g : Same(Top(p), g) /\ SetTop(p, g)
  BY DEF Local
<1>2. CASE q = p
  <2>1. /\ Len(stack'[p]) = Len(stack[p])
        /\ \A i \in 1..Len(stack[p]) :
              stack'[p][i] = IF i = Len(stack[p]) THEN g ELSE stack[p][i]
    BY <1>1, SetTopOK DEF Local
  <2>2. /\ g.mod = stack[p][Len(stack[p])].mod
        /\ \/ g.todo = stack[p][Len(stack[p])].todo
           \/ g.todo = Tail(stack[p][Len(stack[p])].todo)
    BY <1>1 DEF Same, Top, Depth
  <2> QED
    BY <1>2, <2>1, <2>2 DEF Depth
<1>3. CASE q # p
  <2>1. stack'[q] = stack[q]
    BY <1>1, <1>3, SetTopOK DEF Local
  <2> QED
    BY <2>1 DEF Depth
<1> QED
  BY <1>2, <1>3

(* The locks at first.                                                      *)
LEMMA InitLocks == Init => LockInv
<1> SUFFICES ASSUME Init PROVE LockInv
  OBVIOUS
<1>1. \A p \in Proc : Len(stack[p]) = 1
  BY DEF Init
<1>2. Locked /\ Distinct
  BY <1>1 DEF Locked, Distinct, Depth
<1>3. Owned
  BY ConstantsOK DEF Init, Owned
<1> QED
  BY <1>2, <1>3, InitTyped DEF LockInv

(* A step that builds no other modules and touches no lock keeps the
   invariant.                                                               *)
LEMMA SameModsLocks ==
  ASSUME LockInv, Typed', lock' = lock,
         \A q \in Proc : status'[q] = "running" => status[q] = "running",
         \A q \in Proc : \A i \in 1..Depth(q)' :
           i \in 1..Depth(q) /\ stack'[q][i].mod = stack[q][i].mod,
         \A q \in Proc : status'[q] = "running" => Depth(q)' = Depth(q)
  PROVE  LockInv'
<1>1. \A q \in Proc : Depth(q) \in Nat /\ Depth(q)' \in Nat
  BY DEF LockInv, Typed, TypeOK, Depth
<1>2. \A q \in Proc : \A i \in 2..Depth(q)' :
        i \in 2..Depth(q) /\ stack'[q][i].mod = stack[q][i].mod
  BY <1>1
<1>3. Locked'
  BY <1>2 DEF LockInv, Locked
<1>4. Distinct'
  BY <1>2 DEF LockInv, Distinct
<1>5. Owned'
  BY <1>2 DEF LockInv, Owned
<1> QED
  BY <1>3, <1>4, <1>5 DEF LockInv

(* A step of the innermost instance is one of these.                        *)
LEMMA LocalLocks ==
  ASSUME LockInv, NEW p \in Proc, Local(p), Typed', lock' = lock
  PROVE  LockInv'
<1>1. status' = status
  BY DEF Local
<1>2. \A q \in Proc : /\ Depth(q)' = Depth(q)
                      /\ \A i \in 1..Depth(q) : stack'[q][i].mod = stack[q][i].mod
  BY LocalMods DEF LockInv
<1> QED
  BY <1>1, <1>2, SameModsLocks

(* A process that dies leaves its locks, but has no instances.             *)
LEMMA CrashedLocks ==
  ASSUME LockInv, NEW p \in Proc, Crashed(p), Typed', lock' = lock
  PROVE  LockInv'
<1>1. /\ Len(stack'[p]) = 0 /\ status'[p] = "crashed"
      /\ \A q \in Proc \ {p} : stack'[q] = stack[q] /\ status'[q] = status[q]
  BY CrashedOK DEF LockInv
<1>2. \A q \in Proc : \A i \in 1..Depth(q)' :
        i \in 1..Depth(q) /\ stack'[q][i].mod = stack[q][i].mod
  BY <1>1 DEF Depth
<1>3. \A q \in Proc : status'[q] = "running" =>
                        status[q] = "running" /\ Depth(q)' = Depth(q)
  BY <1>1 DEF Depth
<1> QED
  BY <1>2, <1>3, SameModsLocks

(* Nobody is building a module whose lock is not held.                     *)
LEMMA NotBuilt ==
  ASSUME LockInv, NEW m \in Module, ~Held(m),
         NEW q \in Proc, NEW i \in 2..Depth(q)
  PROVE  stack[q][i].mod # m
<1> SUFFICES ASSUME stack[q][i].mod = m PROVE FALSE
  OBVIOUS
<1>1. lock[m] = q
  BY DEF LockInv, Locked
<1>2. stack[q] # <<>>
  <2>1. Depth(q) # 0
    BY DEF LockInv, Typed, TypeOK, Depth
  <2> QED
    BY <2>1 DEF Depth
<1>3. status[q] # "crashed"
  BY <1>2 DEF LockInv, Typed, StackOK
<1> QED
  BY <1>1, <1>3, ConstantsOK DEF Held

(* LockOwned as one step on the stacks: m is p's, and either p is dead or it
   has one more instance, which builds m.                                   *)
LEMMA LockOwnedLocks ==
  ASSUME LockInv, NEW p \in Proc, LockOwned(p)
  PROVE  LockInv'
<1> DEFINE m == Cur(Top(p))
<1>1. /\ m \in Module /\ ~Held(m) /\ status[p] = "running" /\ Top(p).pc = "lock"
      /\ lock' = [lock EXCEPT ![m] = p]
  BY LockOwnedCases DEF LockInv, LockOwned
<1>2. Typed'
  BY LockOwnedTyped DEF LockInv
<1> HIDE DEF m
<1>3. /\ lock'[m] = p
      /\ \A d \in Module \ {m} : lock'[d] = lock[d]
  BY <1>1 DEF LockInv, Typed, TypeOK
<1>4. CASE Crashed(p)
  <2>1. /\ Len(stack'[p]) = 0 /\ status'[p] = "crashed"
        /\ \A q \in Proc \ {p} : stack'[q] = stack[q] /\ status'[q] = status[q]
    BY <1>4, CrashedOK DEF LockInv
  <2>2. Locked'
    <3> SUFFICES ASSUME NEW q \in Proc, NEW i \in 2..Depth(q)'
                 PROVE  lock'[stack'[q][i].mod] = q
      BY DEF Locked
    <3>1. q # p /\ i \in 2..Depth(q) /\ stack'[q] = stack[q]
      BY <2>1 DEF Depth
    <3>2. stack[q][i].mod \in Module \ {m}
      BY <1>1, <3>1, ModOK, NotBuilt DEF LockInv
    <3> QED
      BY <1>3, <3>1, <3>2 DEF LockInv, Locked
  <2>3. Distinct'
    BY <2>1 DEF LockInv, Distinct, Depth
  <2>4. Owned'
    BY <1>3, <2>1 DEF LockInv, Owned, Depth
  <2> QED
    BY <1>2, <2>2, <2>3, <2>4 DEF LockInv
<1>5. CASE /\ status' = status
           /\ \E g : /\ FrameOK(g) /\ g.mod = m
                     /\ stack' = [stack EXCEPT ![p] = Append(stack[p], g)]
  <2>1. PICK g : /\ FrameOK(g) /\ g.mod = m
                 /\ stack' = [stack EXCEPT ![p] = Append(stack[p], g)]
    BY <1>5
  <2>2. g.mod # TU
    BY <1>1, <2>1, ConstantsOK
  <2>3. /\ Len(stack'[p]) = Len(stack[p]) + 1
        /\ \A i \in 1..Len(stack[p]) + 1 :
              stack'[p][i] = IF i = Len(stack[p]) + 1 THEN g ELSE stack[p][i]
        /\ \A q \in Proc \ {p} : stack'[q] = stack[q]
    <3>1. Typed /\ status' = status
      BY <1>5 DEF LockInv
    <3> QED
      BY <1>1, <2>1, <2>2, <3>1, PushOK
  <2>4. Depth(p) \in Nat \ {0} /\ Depth(p)' = Depth(p) + 1
    BY <1>1, <2>3, RunningTop DEF LockInv, Depth
  (* An instance of the new stacks is an old one, of another module, or g. *)
  <2>5. ASSUME NEW q \in Proc, NEW i \in 2..Depth(q)'
        PROVE  \/ /\ i \in 2..Depth(q) /\ stack'[q][i].mod = stack[q][i].mod
                  /\ stack[q][i].mod \in Module \ {m}
               \/ q = p /\ i = Depth(p) + 1 /\ stack'[q][i].mod = m
    <3>1. CASE q = p /\ i = Depth(p) + 1
      BY <2>1, <2>3, <2>4, <3>1 DEF Depth
    <3>2. CASE ~(q = p /\ i = Depth(p) + 1)
      <4>1. i \in 2..Depth(q) /\ stack'[q][i] = stack[q][i]
        BY <2>3, <2>4, <3>2 DEF Depth
      <4> QED
        BY <1>1, <4>1, ModOK, NotBuilt DEF LockInv
    <3> QED
      BY <3>1, <3>2
  <2>6. Locked'
    BY <1>3, <2>5 DEF LockInv, Locked
  <2>7. Distinct'
    BY <2>5 DEF LockInv, Distinct
  <2>8. Owned'
    <3> SUFFICES ASSUME NEW d \in Module, NEW q \in Proc,
                        lock'[d] = q, status'[q] = "running"
                 PROVE  \E i \in 2..Depth(q)' : stack'[q][i].mod = d
      BY DEF Owned
    <3>1. CASE d = m
      <4>1. Depth(p) + 1 \in 2..Depth(p)' /\ stack'[p][Depth(p) + 1].mod = m
        BY <2>1, <2>3, <2>4 DEF Depth
      <4> QED
        BY <1>3, <3>1, <4>1
    <3>2. CASE d # m
      <4>1. PICK i \in 2..Depth(q) : stack[q][i].mod = d
        BY <1>3, <1>5, <3>2 DEF LockInv, Owned
      <4>2. i \in 2..Depth(q)' /\ stack'[q][i] = stack[q][i]
        BY <2>3, <2>4 DEF Depth
      <4> QED
        BY <4>1, <4>2
    <3> QED
      BY <3>1, <3>2
  <2> QED
    BY <1>2, <2>6, <2>7, <2>8 DEF LockInv
<1> QED
  BY <1>4, <1>5, LockOwnedCases DEF m, LockInv

(* Unlock as one step on the stacks.                                        *)
LEMMA UnlockStacks ==
  ASSUME Typed, NEW p \in Proc, Unlock(p)
  PROVE  /\ status' = status /\ lock' = [lock EXCEPT ![Top(p).mod] = Free]
         /\ Depth(p) > 1 /\ Depth(p)' = Depth(p) - 1
         /\ \A i \in 1..Depth(p) - 1 : /\ stack'[p][i].mod = stack[p][i].mod
                                      /\ stack'[p][i].todo = stack[p][i].todo
         /\ \A q \in Proc \ {p} : stack'[q] = stack[q]
<1> DEFINE b == Front(stack[p])
           g == [Last(b) EXCEPT !.pc = "after"]
<1>1. /\ status[p] = "running" /\ stack[p] \in Seq(Frame)
      /\ Depth(p) \in Nat /\ Depth(p) > 1
  BY RunningTop DEF Unlock, At, FrameOK, Typed, StackOK, Top
<1>2. Len(b) = Depth(p) - 1 /\ \A k \in 1..Depth(p) - 1 : b[k] = stack[p][k]
  BY <1>1, FrontTyped DEF Depth
<1>3. Last(b) = stack[p][Depth(p) - 1]
  <2>1. Depth(p) - 1 \in 1..Depth(p) - 1
    BY <1>1
  <2> HIDE DEF b
  <2> QED
    BY <1>2, <2>1 DEF Last
<1>4. FrameOK(Last(b)) /\ Last(b).pc = "lock"
  <2>1. Depth(p) - 1 \in 1..Depth(p) /\ Depth(p) - 1 < Depth(p)
    BY <1>1
  <2> QED
    BY <1>3, <2>1 DEF Typed, StackOK
<1>5. Same(Last(b), g) /\ g.todo = Last(b).todo
  <2> HIDE DEF b
  <2> QED
    BY <1>4 DEF FrameOK, Frame, Same, Cur
<1>6. /\ stack' = [stack EXCEPT ![p] = [b EXCEPT ![Len(b)] = g]]
      /\ status' = status /\ lock' = [lock EXCEPT ![Top(p).mod] = Free]
  BY DEF Unlock, Released
<1>7. /\ Len(stack'[p]) = Len(stack[p]) - 1
      /\ \A i \in 1..Len(stack[p]) - 1 :
           stack'[p][i] = IF i = Len(stack[p]) - 1 THEN g ELSE stack[p][i]
      /\ \A q \in Proc \ {p} : stack'[q] = stack[q]
  BY <1>1, <1>5, <1>6, PopOK, ZenonT(60)
<1> HIDE DEF b, g
<1> QED
  BY <1>1, <1>3, <1>5, <1>6, <1>7 DEF Same, Depth

(* The release of a lock keeps the invariant.                               *)
LEMMA UnlockLocks ==
  ASSUME LockInv, NEW p \in Proc, Unlock(p)
  PROVE  LockInv'
<1> DEFINE m == Top(p).mod
           n == Depth(p)
<1>1. /\ status' = status /\ lock' = [lock EXCEPT ![m] = Free]
      /\ n > 1 /\ Depth(p)' = n - 1 /\ n \in Nat
      /\ \A i \in 1..n - 1 : stack'[p][i].mod = stack[p][i].mod
      /\ \A q \in Proc \ {p} : stack'[q] = stack[q]
  BY UnlockStacks DEF LockInv, Typed, TypeOK, Depth
<1>2. n \in 2..n /\ stack[p][n].mod = m /\ m \in Module
  BY <1>1, ModOK DEF LockInv, Top
<1> HIDE DEF m, n
<1>3. \A d \in Module \ {m} : lock'[d] = lock[d]
  BY <1>1, <1>2 DEF LockInv, Typed, TypeOK
<1>4. lock'[m] = Free
  BY <1>1, <1>2 DEF LockInv, Typed, TypeOK
<1>5. ASSUME NEW q \in Proc, NEW i \in 2..Depth(q)'
      PROVE  /\ i \in 2..Depth(q) /\ stack'[q][i].mod = stack[q][i].mod
             /\ stack[q][i].mod \in Module \ {m}
  <2>1. i \in 2..Depth(q) /\ stack'[q][i].mod = stack[q][i].mod
    BY <1>1 DEF Depth, n
  <2>2. stack[q][i].mod \in Module
    BY <2>1, ModOK DEF LockInv
  <2>3. CASE q = p
    <3>1. i # n
      BY <1>1, <2>3 DEF n
    <3> QED
      BY <1>2, <2>1, <2>2, <2>3, <3>1 DEF LockInv, Distinct, n
  <2>4. CASE q # p
    BY <1>2, <2>1, <2>2, <2>4 DEF LockInv, Locked, n
  <2> QED
    BY <2>1, <2>2, <2>3, <2>4
<1>6. Locked'
  BY <1>3, <1>5 DEF LockInv, Locked
<1>7. Distinct'
  BY <1>5 DEF LockInv, Distinct
<1>8. Owned'
  <2> SUFFICES ASSUME NEW d \in Module, NEW q \in Proc,
                      lock'[d] = q, status'[q] = "running"
               PROVE  \E i \in 2..Depth(q)' : stack'[q][i].mod = d
    BY DEF Owned
  <2>1. d # m /\ lock[d] = q /\ status[q] = "running"
    BY <1>1, <1>3, <1>4, ConstantsOK
  <2>2. PICK i \in 2..Depth(q) : stack[q][i].mod = d
    BY <2>1 DEF LockInv, Owned
  <2>3. i \in 2..Depth(q)' /\ stack'[q][i].mod = d
    <3>1. CASE q = p
      BY <1>1, <1>2, <2>1, <2>2, <3>1 DEF n
    <3>2. CASE q # p
      BY <1>1, <2>2, <3>2 DEF Depth
    <3> QED
      BY <3>1, <3>2
  <2> QED
    BY <2>3
<1>9. Typed'
  BY UnlockTyped DEF LockInv
<1> QED
  BY <1>6, <1>7, <1>8, <1>9 DEF LockInv

(* Every step keeps the invariant.                                          *)
LEMMA NextLocks == LockInv /\ [Next]_vars => LockInv'
<1> SUFFICES ASSUME LockInv, [Next]_vars PROVE LockInv'
  OBVIOUS
<1>1. Typed /\ Typed'
  BY NextTyped DEF LockInv
<1>2. ASSUME NEW p \in Proc, Step(p) \/ LockFails(p) \/ WaitTimesOut(p) \/ BuildCrash(p) PROVE LockInv'
  <2>1. CASE EndOfTU(p)
    BY <1>1, <2>1, SameModsLocks DEF EndOfTU, LockInv, Typed, TypeOK, Depth
  <2> QED
    BY <1>1, <1>2, <2>1, LocalSteps, LocalLocks, LockOwnedLocks, UnlockLocks DEF Step
<1>3. ASSUME NEW p \in Proc, Crash(p) PROVE LockInv'
  BY <1>1, <1>3, CrashedLocks DEF Crash
<1>4. ASSUME UNCHANGED <<lock, stack, status>> PROVE LockInv'
  BY <1>1, <1>4, SameModsLocks DEF Depth
<1> QED
  BY <1>2, <1>3, <1>4 DEF Next, Environment, EditHeaders, Terminated, vars

(* The invariant of the locks holds at all times.                           *)
LEMMA LockInvariant == Spec => []LockInv
BY InitLocks, NextLocks, PTL DEF Spec

(* compileModule's lock works: whoever builds a module is the process its
   lock file names, so two live processes never build the same module.     *)
THEOREM LockProtectsBuild == Spec => []BuildsUnderLock
<1>1. LockInv => BuildsUnderLock
  <2> SUFFICES ASSUME LockInv, NEW p \in Proc, NEW i \in 1..Depth(p),
                      stack[p][i].mod # TU
               PROVE  lock[stack[p][i].mod] = p
    BY DEF BuildsUnderLock, Instances, Instance
  <2>1. i \in 2..Depth(p)
    BY DEF LockInv, Typed, TypeOK, StackOK, Depth
  <2> QED
    BY <2>1 DEF LockInv, Locked
<1> QED
  BY <1>1, LockInvariant, PTL

-----------------------------------------------------------------------------
(* Acyclic module graphs *)

(* The module graph is acyclic, but for modules that include themselves:
   R ranks the modules so that each is above the ones it imports.          *)
Acyclic(R) ==
  /\ R \in [Module -> Nat]
  /\ \A m \in Module : \A k \in 1..Len(Imports[m]) :
       Imports[m][k] = m \/ R[Imports[m][k]] < R[m]

(* What an instance has yet to import is below what it builds, and what it
   builds is not above what the instances under it build.                  *)
Below(R, f) == \A k \in 1..Len(f.todo) : f.todo[k] = f.mod \/ R[f.todo[k]] < R[f.mod]
Ranked(R) ==
  \A p \in Proc : \A i \in 2..Depth(p) :
    /\ Below(R, stack[p][i])
    /\ \A j \in i..Depth(p) : R[stack[p][j].mod] <= R[stack[p][i].mod]

RankInv(R) == LockInv /\ Ranked(R)

(* The steps that keep every instance, or drop the last one.               *)
LEMMA SameModsRanked ==
  ASSUME NEW CONSTANT R, Ranked(R), Typed, Typed',
         \A q \in Proc : \A i \in 1..Depth(q)' :
           /\ i \in 1..Depth(q) /\ stack'[q][i].mod = stack[q][i].mod
           /\ \/ stack'[q][i].todo = stack[q][i].todo
              \/ stack'[q][i].todo = Tail(stack[q][i].todo)
  PROVE  Ranked(R)'
<1> SUFFICES ASSUME NEW q \in Proc, NEW i \in 2..Depth(q)'
             PROVE  /\ Below(R, stack'[q][i])
                    /\ \A j \in i..Depth(q)' :
                         R[stack'[q][j].mod] <= R[stack'[q][i].mod]
  BY DEF Ranked, Below
<1>1. Depth(q) \in Nat /\ Depth(q)' \in Nat
  BY DEF Typed, TypeOK, Depth
<1>2. i \in 2..Depth(q) /\ stack'[q][i].mod = stack[q][i].mod
  BY <1>1
<1>3. Below(R, stack'[q][i])
  <2> DEFINE s == stack[q][i].todo
             t == stack'[q][i].todo
  <2>1. s \in Seq(Module)
    BY <1>2, ModOK DEF Frame
  <2>2. t = s \/ t = Tail(s)
    BY <1>1
  <2>3. \A k \in 1..Len(s) : s[k] = stack[q][i].mod \/ R[s[k]] < R[stack[q][i].mod]
    BY <1>2 DEF Ranked, Below
  <2>4. \A k \in 1..Len(t) : \E l \in 1..Len(s) : t[k] = s[l]
    <3>1. CASE t = s
      BY <3>1
    <3>2. CASE s # <<>> /\ t = Tail(s)
      <4> HIDE DEF s, t
      <4>1. /\ Len(s) \in Nat \ {0} /\ Len(t) = Len(s) - 1
            /\ \A k \in 1..Len(s) - 1 : t[k] = s[k + 1]
        BY <2>1, <3>2, HeadTailProperties, EmptySeq
      <4> TAKE k \in 1..Len(t)
      <4>2. k + 1 \in 1..Len(s) /\ t[k] = s[k + 1]
        BY <4>1
      <4> QED
        BY <4>2
    <3>3. CASE s = <<>> /\ t = Tail(s)
      BY <3>3
    <3> QED
      BY <2>2, <3>1, <3>2, <3>3
  <2> QED
    BY <1>2, <2>3, <2>4 DEF Below
<1>4. ASSUME NEW j \in i..Depth(q)'
      PROVE  R[stack'[q][j].mod] <= R[stack'[q][i].mod]
  <2>1. j \in i..Depth(q) /\ stack'[q][j].mod = stack[q][j].mod
    BY <1>1, <1>2
  <2> QED
    BY <1>2, <2>1 DEF Ranked
<1> QED
  BY <1>3, <1>4

(* Who owns a new lock builds a module below all it builds already.         *)
LEMMA LockOwnedRanked ==
  ASSUME NEW CONSTANT R, Acyclic(R), RankInv(R), NEW p \in Proc, LockOwned(p)
  PROVE  Ranked(R)'
<1> DEFINE m == Cur(Top(p))
           n == Depth(p)
<1>1. /\ Typed /\ m \in Module /\ status[p] = "running" /\ Top(p).pc = "lock"
      /\ FrameOK(Top(p)) /\ n \in Nat \ {0}
  BY LockOwnedCases, RunningTop DEF RankInv, LockInv
<1>2. CASE Crashed(p)
  <2>1. \A q \in Proc : /\ Depth(q)' \in {0, Depth(q)}
                        /\ Depth(q)' # 0 => stack'[q] = stack[q]
    BY <1>1, <1>2, CrashedOK DEF Depth
  <2>2. \A q \in Proc : \A i \in 1..Depth(q)' :
          i \in 1..Depth(q) /\ stack'[q][i] = stack[q][i]
    BY <2>1
  <2> QED
    BY <1>1, <2>2, SameModsRanked, LockOwnedTyped DEF RankInv
<1>3. CASE /\ status' = status
           /\ \E g : /\ FrameOK(g) /\ g.mod = m /\ g.todo = Imports[m]
                     /\ stack' = [stack EXCEPT ![p] = Append(stack[p], g)]
  <2>1. PICK g : /\ FrameOK(g) /\ g.mod = m /\ g.todo = Imports[m]
                 /\ stack' = [stack EXCEPT ![p] = Append(stack[p], g)]
    BY <1>3
  <2> HIDE DEF m
  <2>2. g.mod # TU /\ status' = status
    BY <1>1, <1>3, <2>1, ConstantsOK
  <2>3. /\ Len(stack'[p]) = Len(stack[p]) + 1
        /\ \A i \in 1..Len(stack[p]) + 1 :
              stack'[p][i] = IF i = Len(stack[p]) + 1 THEN g ELSE stack[p][i]
        /\ \A q \in Proc \ {p} : stack'[q] = stack[q]
    BY <1>1, <2>1, <2>2, PushOK
  <2>4. Depth(p)' = n + 1 /\ stack'[p][n + 1] = g
    BY <1>1, <2>3 DEF Depth
  <2>5. \A i \in 1..n : stack'[p][i] = stack[p][i]
    BY <1>1, <2>3 DEF Depth
  <2>6. Below(R, g)
    BY <1>1, <2>1 DEF Below, Acyclic
  (* What is built is below every module under construction.               *)
  <2>7. ASSUME NEW i \in 2..n
        PROVE  R[m] <= R[stack[p][i].mod]
    <3>1. n \in 2..n /\ n \in i..n
      BY <1>1
    <3>2. Below(R, stack[p][n]) /\ R[stack[p][n].mod] <= R[stack[p][i].mod]
      BY <3>1 DEF RankInv, Ranked
    <3>3. m = stack[p][n].todo[1] /\ 1 \in 1..Len(stack[p][n].todo)
          /\ m # stack[p][n].mod
      <4>1. Top(p).todo \in Seq(Module) /\ Top(p).todo # <<>> /\ m # Top(p).mod
        BY <1>1 DEF FrameOK, Frame, m
      <4>2. m = Top(p).todo[1] /\ 1 \in 1..Len(Top(p).todo)
        <5> DEFINE s == Top(p).todo
        <5>1. s \in Seq(Module) /\ s # <<>> /\ m = Head(s)
          BY <4>1 DEF m, Cur
        <5> HIDE DEF s
        <5>2. m = s[1] /\ 1 \in 1..Len(s)
          BY <5>1, HeadTailProperties, EmptySeq
        <5> QED
          BY <5>2 DEF s
      <4> QED
        BY <4>1, <4>2 DEF Top
    <3>4. R[m] < R[stack[p][n].mod]
      BY <3>2, <3>3 DEF Below
    <3>5. /\ R[m] \in Nat /\ R[stack[p][n].mod] \in Nat
          /\ R[stack[p][i].mod] \in Nat
      BY <1>1, <3>1, ModOK DEF Acyclic
    <3> QED
      BY <3>2, <3>4, <3>5
  <2>8. R[m] \in Nat
    BY <1>1 DEF Acyclic
  <2>9. ASSUME NEW i \in 2..n + 1
        PROVE  /\ Below(R, stack'[p][i])
               /\ \A j \in i..n + 1 : R[stack'[p][j].mod] <= R[stack'[p][i].mod]
    <3>1. CASE i = n + 1
      <4>1. \A j \in i..n + 1 : j = n + 1
        BY <1>1, <3>1
      <4> QED
        <5>1. stack'[p][i] = g
          BY <2>4, <3>1
        <5>2. R[g.mod] <= R[g.mod]
          BY <2>1, <2>8
        <5> QED
          BY <2>6, <3>1, <4>1, <5>1, <5>2
    <3>2. CASE i # n + 1
      <4>1. i \in 2..n /\ stack'[p][i] = stack[p][i]
        BY <1>1, <2>5, <3>2
      <4>2. /\ Below(R, stack[p][i])
            /\ \A j \in i..n : R[stack[p][j].mod] <= R[stack[p][i].mod]
        BY <4>1 DEF RankInv, Ranked
      <4>3. ASSUME NEW j \in i..n + 1
            PROVE  R[stack'[p][j].mod] <= R[stack[p][i].mod]
        <5>1. CASE j = n + 1
          BY <2>1, <2>4, <2>7, <4>1, <5>1
        <5>2. CASE j # n + 1
          <6>1. j \in i..n /\ j \in 1..n
            BY <1>1, <4>1, <5>2
          <6> QED
            BY <2>5, <4>2, <6>1
        <5> QED
          BY <5>1, <5>2
      <4> QED
        BY <4>1, <4>2, <4>3
    <3> QED
      BY <3>1, <3>2
  <2>10. ASSUME NEW q \in Proc \ {p} PROVE stack'[q] = stack[q]
    BY <2>3
  <2> HIDE DEF n
  <2> QED
    BY <2>4, <2>9, <2>10 DEF RankInv, Ranked, Depth, Below
<1> QED
  BY <1>2, <1>3, LockOwnedCases DEF RankInv, LockInv

(* Every step keeps the order of the modules that a process builds.         *)
LEMMA NextRanked ==
  ASSUME NEW CONSTANT R, Acyclic(R)
  PROVE  RankInv(R) /\ [Next]_vars => RankInv(R)'
<1> SUFFICES ASSUME RankInv(R), [Next]_vars PROVE Ranked(R)'
  BY NextLocks DEF RankInv
<1>1. Typed /\ Typed' /\ Ranked(R)
  BY NextTyped DEF RankInv, LockInv
<1>2. ASSUME NEW p \in Proc, Local(p) PROVE Ranked(R)'
  BY <1>1, <1>2, LocalMods, SameModsRanked
<1>3. ASSUME NEW p \in Proc, Unlock(p) PROVE Ranked(R)'
  <2>1. \A q \in Proc : Depth(q) \in Nat
    BY <1>1 DEF Typed, TypeOK, Depth
  <2>2. \A q \in Proc : \A i \in 1..Depth(q)' :
          /\ i \in 1..Depth(q) /\ stack'[q][i].mod = stack[q][i].mod
          /\ stack'[q][i].todo = stack[q][i].todo
    <3> TAKE q \in Proc
    <3>1. CASE q = p
      BY <1>1, <1>3, <2>1, <3>1, UnlockStacks
    <3>2. CASE q # p
      BY <1>1, <1>3, <2>1, <3>2, UnlockStacks DEF Depth
    <3> QED
      BY <3>1, <3>2
  <2> QED
    BY <1>1, <2>2, SameModsRanked
<1>4. ASSUME NEW p \in Proc, Crash(p) PROVE Ranked(R)'
  <2>1. \A q \in Proc : /\ Depth(q)' \in {0, Depth(q)}
                        /\ Depth(q)' # 0 => stack'[q] = stack[q]
    BY <1>1, <1>4, CrashedOK DEF Depth, Crash
  <2>2. \A q \in Proc : \A i \in 1..Depth(q)' :
          i \in 1..Depth(q) /\ stack'[q][i] = stack[q][i]
    BY <2>1
  <2> QED
    BY <1>1, <2>2, SameModsRanked
<1>5. ASSUME stack' = stack PROVE Ranked(R)'
  BY <1>1, <1>5, SameModsRanked DEF Depth
<1>6. ASSUME NEW p \in Proc, Step(p) \/ LockFails(p) \/ WaitTimesOut(p) \/ BuildCrash(p) PROVE Ranked(R)'
  BY <1>1, <1>2, <1>3, <1>5, <1>6, LocalSteps, LockOwnedRanked DEF Step, EndOfTU
<1> QED
  BY <1>4, <1>5, <1>6 DEF Next, Environment, EditHeaders, Terminated, vars

(* Two processes never wait for each other's locks when no module imports
   itself through another: a waits for b only when b is below everything it
   builds.  loadModule's own check sees the cycles within one process only,
   so without the assumption the theorem is false.                         *)
THEOREM NoMutualWaitIfAcyclic ==
  ASSUME NEW CONSTANT R, Acyclic(R)
  PROVE  Spec => []NoMutualWait
<1>1. Init => RankInv(R)
  <2> SUFFICES ASSUME Init PROVE Ranked(R)
    BY InitLocks DEF RankInv
  <2>1. \A p \in Proc : Len(stack[p]) = 1
    BY DEF Init
  <2> QED
    BY <2>1 DEF Ranked, Depth
<1>2. RankInv(R) /\ [Next]_vars => RankInv(R)'
  BY NextRanked
<1>3. RankInv(R) => NoMutualWait
  (* The module p waits for is built by q, and what q waits for is below. *)
  <2>1. ASSUME RankInv(R), NEW p \in Proc, NEW q \in Proc, Waiting(p), Waiting(q),
               lock[Cur(Top(p))] = q
        PROVE  /\ Cur(Top(p)) \in Module /\ Cur(Top(q)) \in Module
               /\ R[Cur(Top(q))] < R[Cur(Top(p))]
    <3> DEFINE c == Cur(Top(p))
               d == Cur(Top(q))
               n == Depth(q)
               s == Top(q).todo
    <3>1. /\ Typed /\ status[p] = "running" /\ status[q] = "running"
          /\ Top(p).pc = "wait" /\ Top(q).pc = "wait"
      BY <2>1 DEF RankInv, LockInv, Waiting, At
    <3>2. /\ FrameOK(Top(p)) /\ FrameOK(Top(q)) /\ n \in Nat \ {0}
          /\ Top(p).todo # <<>> /\ s # <<>> /\ d # Top(q).mod
      BY <3>1, RunningTop DEF FrameOK
    <3>3. c \in Module /\ d \in Module
      BY <3>2, CurOK
    <3>4. PICK i \in 2..n : stack[q][i].mod = c
      BY <2>1, <3>1, <3>3 DEF RankInv, LockInv, Owned
    <3>5. n \in 2..n /\ n \in i..n
      BY <3>2
    <3>6. Below(R, stack[q][n]) /\ R[stack[q][n].mod] <= R[c]
      BY <2>1, <3>4, <3>5 DEF RankInv, Ranked
    <3>7. 1 \in 1..Len(s) /\ d = s[1]
      <4>1. s \in Seq(Module) /\ d = Head(s) /\ s # <<>>
        BY <3>2 DEF FrameOK, Frame, Cur
      <4> HIDE DEF s, d
      <4>2. 1 \in 1..Len(s) /\ Head(s) = s[1]
        BY <4>1, HeadTailProperties, EmptySeq
      <4> QED
        BY <4>1, <4>2
    <3>8. R[d] < R[stack[q][n].mod]
      BY <3>2, <3>6, <3>7 DEF Below, Top
    <3>9. R[d] \in Nat /\ R[c] \in Nat /\ R[stack[q][n].mod] \in Nat
      BY <3>1, <3>3, <3>5, ModOK DEF Acyclic
    <3> HIDE DEF c, d, n, s
    <3> QED
      BY <3>3, <3>6, <3>8, <3>9 DEF c, d
  <2> SUFFICES ASSUME RankInv(R), NEW p \in Proc, NEW q \in Proc,
                      Waiting(p), Waiting(q),
                      lock[Cur(Top(p))] = q, lock[Cur(Top(q))] = p
               PROVE  FALSE
    BY DEF NoMutualWait
  <2>2. /\ R[Cur(Top(q))] < R[Cur(Top(p))] /\ R[Cur(Top(p))] < R[Cur(Top(q))]
        /\ Cur(Top(p)) \in Module /\ Cur(Top(q)) \in Module
    BY <2>1
  <2>3. R[Cur(Top(p))] \in Nat /\ R[Cur(Top(q))] \in Nat
    BY <2>2 DEF Acyclic
  <2> QED
    BY <2>2, <2>3
<1> QED
  BY <1>1, <1>2, <1>3, PTL DEF Spec

-----------------------------------------------------------------------------
(* What the helpers leave alone *)

(* What no step of an instance changes, and what it only ever sets.        *)
Steady(f, g) ==
  /\ Same(f, g) /\ g.ver = f.ver /\ g.direct = f.direct
  /\ f.err => g.err
  /\ f.pc # "unlock"
  /\ g.why = "rebuild" => f.why = "rebuild" \/ f.pc = "evict"

(* The module files and control blocks of the instance are as before, or as
   before the ReadAST that was running.                                     *)
Holds(f, g) ==
  g.chain = f.chain /\ g.rd = f.rd /\ g.fresh = f.fresh /\ g.imps = f.imps
Drops(f, g) ==
  /\ \A m \in Module : g.chain[m] = IF m \in f.fresh THEN NoFile ELSE f.chain[m]
  /\ g.rd = <<>> /\ g.fresh = {} /\ g.imps = f.imps

(* Everything but the import declarations, the call and pc.                *)
Alike(f, g) ==
  /\ Holds(f, g) /\ g.known = f.known
  /\ g.ver = f.ver /\ g.direct = f.direct /\ g.err = f.err /\ g.why = f.why
  /\ g.fm = f.fm

(* NextCall ends one call of the import and changes nothing else.           *)
LEMMA NextCallFields ==
  ASSUME NEW f, FrameOK(f), f.todo # <<>>
  PROVE  Alike(f, NextCall(f)) /\ NextCall(f).pc = "import" /\ Same(f, NextCall(f))
<1>1. f \in Frame
  BY DEF FrameOK
<1>2. Alike(f, NextCall(f)) /\ NextCall(f).pc = "import"
  BY <1>1 DEF Alike, Holds, Frame, NextCall
<1> QED
  BY <1>2, NextCallOK

(* Stat changes what the FileManager has cached about one file only.        *)
LEMMA StatFields ==
  ASSUME NEW f, FrameOK(f), NEW m \in Module, NEW c \in BOOLEAN
  PROVE  LET g == Stat(f, m, c) IN
         /\ Same(f, g) /\ Holds(f, g) /\ g.known = f.known /\ g.todo = f.todo
         /\ g.ver = f.ver /\ g.direct = f.direct /\ g.err = f.err /\ g.why = f.why
         /\ g.pc = f.pc /\ Cur(g) = Cur(f)
         /\ \A d \in Module \ {m} : g.fm[d] = f.fm[d]
         /\ g.fm[m] = IF Seen(f, m) THEN "seen" ELSE IF c THEN "absent" ELSE f.fm[m]
<1>1. f \in Frame
  BY DEF FrameOK
<1> QED
  BY <1>1, StatOK DEF Holds, Frame, Stat, Cur

(* Giving up on an import: a call of it is over, whatever KnownModules says. *)
GivenUp(f, g) ==
  /\ Same(f, g) /\ g.ver = f.ver /\ g.direct = f.direct /\ g.why = f.why
  /\ g.pc = "import" /\ g.fm = f.fm
  /\ g.known \in {f.known, [f.known EXCEPT ![Cur(f)] = "null"]}

(* Failed gives up on the import and keeps the module files.                *)
LEMMA FailedFields ==
  ASSUME NEW f, FrameOK(f), f.todo # <<>>, NEW null \in BOOLEAN, NEW report \in BOOLEAN
  PROVE  LET g == Failed(f, null, report) IN
         Holds(f, g) /\ GivenUp(f, g) /\ g.err = (f.err \/ report)
<1> DEFINE d == [f EXCEPT !.known[Cur(f)] = IF null THEN "null" ELSE @,
                          !.err = @ \/ report]
<1>1. FrameOK(d) /\ d.mod = f.mod /\ d.todo = f.todo
  BY CurOK, ZenonT(60) DEF FrameOK, Frame, Cur
<1>2. f \in Frame /\ f.known \in [Module -> {"unknown", "ok", "null"}]
  BY DEF FrameOK, Frame
<1>3. Holds(f, d) /\ d.ver = f.ver /\ d.direct = f.direct /\ d.why = f.why /\ d.fm = f.fm
  BY <1>2 DEF Holds, Frame
<1>4. d.err = (f.err \/ report)
  BY <1>2, Zenon DEF Frame
<1>5. d.known \in {f.known, [f.known EXCEPT ![Cur(f)] = "null"]}
  BY <1>2 DEF Frame
<1>6. Failed(f, null, report) = NextCall(d)
  BY DEF Failed
<1> HIDE DEF d
<1>7. Alike(d, NextCall(d)) /\ NextCall(d).pc = "import" /\ Same(d, NextCall(d))
  BY <1>1, NextCallFields
<1> QED
  BY <1>1, <1>3, <1>4, <1>5, <1>6, <1>7 DEF Alike, Holds, GivenUp, Same

(* Dropped takes away what the running ReadAST has added.                   *)
LEMMA DroppedFields ==
  ASSUME NEW f, FrameOK(f)
  PROVE  LET g == Dropped(f) IN
         /\ Drops(f, g) /\ Same(f, g) /\ g.todo = f.todo /\ Cur(g) = Cur(f)
         /\ g.ver = f.ver /\ g.direct = f.direct /\ g.why = f.why /\ g.fm = f.fm
         /\ g.known = f.known /\ g.err = f.err /\ g.pc = f.pc
<1> DEFINE c == [d \in Module |-> IF d \in f.fresh THEN NoFile ELSE f.chain[d]]
<1>1. f \in Frame
  BY DEF FrameOK
<1>2. Dropped(f) = [f EXCEPT !.rd = <<>>, !.fresh = {}, !.chain = c]
  BY DEF Dropped
<1>3. \A m \in Module : c[m] = IF m \in f.fresh THEN NoFile ELSE f.chain[m]
  OBVIOUS
<1> HIDE DEF c
<1>4. LET g == Dropped(f) IN
      /\ g.chain = c /\ g.rd = <<>> /\ g.fresh = {} /\ g.imps = f.imps
      /\ g.ver = f.ver /\ g.direct = f.direct /\ g.why = f.why /\ g.fm = f.fm
      /\ g.known = f.known /\ g.err = f.err /\ g.todo = f.todo /\ g.pc = f.pc
  BY <1>1, <1>2 DEF Frame
<1> QED
  BY <1>3, <1>4, DroppedOK DEF Drops, Cur

(* With the outermost file a ReadAST ends, else the file is ticked off in the
   control block that imports it.                                           *)
Finishes(f, g, m, rd) ==
  /\ g.chain = f.chain
  /\ IF rd = <<>>
     THEN /\ g.rd = <<>> /\ g.fresh = {} /\ g.imps = f.imps \cup {Cur(f)}
          /\ g.known = [f.known EXCEPT ![Cur(f)] = "ok"] /\ g.pc = "import"
     ELSE /\ g.rd = Advance(rd, m) /\ g.fresh = f.fresh /\ g.imps = f.imps
          /\ g.known = f.known /\ g.todo = f.todo /\ g.pc = f.pc

(* FileRead is through with one file, of the import or of a control block.  *)
LEMMA FileReadFields ==
  ASSUME NEW f, FrameOK(f), f.todo # <<>>, NEW m
  PROVE  LET g == FileRead(f, m) IN
         /\ Finishes(f, g, m, f.rd) /\ Same(f, g) /\ g.fm = f.fm
         /\ g.ver = f.ver /\ g.direct = f.direct /\ g.why = f.why /\ g.err = f.err
<1>1. f \in Frame
  BY DEF FrameOK
<1>2. Same(f, FileRead(f, m))
  BY FileReadOK
<1>3. CASE f.rd = <<>>
  <2> DEFINE d == [f EXCEPT !.known[Cur(f)] = "ok", !.fresh = {},
                            !.imps = @ \cup {Cur(f)}]
  <2>1. FrameOK(d) /\ d.mod = f.mod /\ d.todo = f.todo
    BY CurOK, ZenonT(60) DEF FrameOK, Frame, Cur
  <2>2. /\ d.chain = f.chain /\ d.rd = <<>> /\ d.fresh = {}
        /\ d.imps = f.imps \cup {Cur(f)} /\ d.known = [f.known EXCEPT ![Cur(f)] = "ok"]
        /\ d.ver = f.ver /\ d.direct = f.direct /\ d.why = f.why /\ d.err = f.err
        /\ d.fm = f.fm
    BY <1>1, <1>3 DEF Frame
  <2>3. FileRead(f, m) = NextCall(d)
    BY <1>3 DEF FileRead
  <2> HIDE DEF d
  <2>4. Alike(d, NextCall(d)) /\ NextCall(d).pc = "import"
    BY <2>1, NextCallFields
  <2> QED
    BY <1>2, <1>3, <2>2, <2>3, <2>4 DEF Finishes, Alike, Holds
<1>4. CASE f.rd # <<>>
  <2>1. FileRead(f, m) = [f EXCEPT !.rd = Advance(f.rd, m)]
    BY <1>4 DEF FileRead
  <2> QED
    BY <1>1, <1>2, <1>4, <2>1 DEF Finishes, Frame
<1> QED
  BY <1>3, <1>4

-----------------------------------------------------------------------------
(* What a step does to an instance: f is the instance before, g after.     *)

(* The program counter moves, within compileModule or towards a ReadAST.   *)
Moves(f, g) ==
  /\ Holds(f, g) /\ g.todo = f.todo /\ g.known = f.known /\ g.pc # "evict"
  /\ f.pc = "read" => g.pc = "unlock"

(* loadModule answers from KnownModules.                                    *)
Skips(f, g) ==
  /\ Holds(f, g) /\ f.todo # <<>> /\ f.pc = "import" /\ g.pc = "import"
  /\ f.known[Cur(f)] # "unknown" \/ Cur(f) = f.mod
  /\ g.known = [f.known EXCEPT ![Cur(f)] = IF @ = "unknown" THEN "ok" ELSE @]

(* loadModule gives up, with an error unless it rebuilt the module.        *)
GivesUp(f, g) ==
  /\ (Holds(f, g) /\ f.pc # "read") \/ Drops(f, g)
  /\ f.todo # <<>> /\ g.pc = "import"
  /\ g.err \/ f.why = "rebuild"
  /\ g.known \in {f.known, [f.known EXCEPT ![Cur(f)] = "null"]}

(* A file being read is out of date.                                        *)
Rejects(f, g) ==
  /\ Drops(f, g) /\ g.todo = f.todo /\ g.known = f.known
  /\ f.pc = "read" /\ f.rd # <<>> /\ ~UpToDate(f, Last(f.rd).m)

(* ReadASTCore adds a file; finds a file that was added before; is through
   with a file, which is up to date.                                        *)
Opens(f, g) ==
  /\ f.pc = "read" /\ g.pc = "read" /\ g.todo = f.todo /\ g.known = f.known
  /\ g.imps = f.imps
  /\ \E m \in Targets(f) :
       /\ m \in Module /\ f.chain[m] = NoFile /\ pcm[m] \in Content
       /\ g.chain = [f.chain EXCEPT ![m] = pcm[m]]
       /\ g.fresh = f.fresh \cup {m}
       /\ g.rd = Append(f.rd, [m |-> m, left |-> pcm[m].imps])
Passes(f, g) ==
  /\ f.pc = "read"
  /\ \E m \in Targets(f) : m \in Module /\ f.chain[m] # NoFile /\ Finishes(f, g, m, f.rd)
Accepts(f, g) ==
  /\ f.pc = "read" /\ f.rd # <<>> /\ Last(f.rd).left = {}
  /\ UpToDate(f, Last(f.rd).m)
  /\ Finishes(f, g, Last(f.rd).m, Front(f.rd))

Turns(f, g) ==
  /\ Steady(f, g)
  /\ \/ Moves(f, g) \/ Skips(f, g) \/ GivesUp(f, g) \/ Rejects(f, g)
     \/ Opens(f, g) \/ Passes(f, g) \/ Accepts(f, g)

(* What a local step of p is, as Turns of its innermost instance.          *)
TopTurns(p) == \E g : Turns(Top(p), g) /\ SetTop(p, g)

(* ImportKnown answers from KnownModules.                                   *)
LEMMA ImportKnownTurns ==
  ASSUME Typed, NEW p \in Proc, ImportKnown(p)
  PROVE  TopTurns(p)
<1> DEFINE f == Top(p)
           k == [f.known EXCEPT ![Cur(f)] = IF @ = "unknown" THEN "ok" ELSE @]
           d == [f EXCEPT !.known = k]
<1>1. /\ FrameOK(f) /\ f \in Frame /\ f.todo # <<>> /\ f.pc = "import"
      /\ Cur(f) \in Module
  BY RunningTop, CurOK DEF ImportKnown, Importing, At
<1>2. k \in [Module -> {"unknown", "ok", "null"}]
  BY <1>1 DEF Frame
<1>3. /\ f.known[Cur(f)] # "unknown" \/ Cur(f) = f.mod
      /\ SetTop(p, NextCall([f EXCEPT !.known[Cur(f)] = IF @ = "unknown" THEN "ok" ELSE @]))
  BY DEF ImportKnown
<1>4. [f EXCEPT !.known[Cur(f)] = IF @ = "unknown" THEN "ok" ELSE @] = d
  OBVIOUS
<1> HIDE DEF k
<1>5. /\ FrameOK(d) /\ d.mod = f.mod /\ d.todo = f.todo /\ Holds(f, d)
      /\ d.known = k /\ d.ver = f.ver /\ d.direct = f.direct
      /\ d.err = f.err /\ d.why = f.why
  BY <1>1, <1>2 DEF FrameOK, Frame, Cur, Holds
<1> HIDE DEF d
<1>6. Alike(d, NextCall(d)) /\ NextCall(d).pc = "import" /\ Same(d, NextCall(d))
  BY <1>1, <1>5, NextCallFields
<1>7. Steady(f, NextCall(d))
  BY <1>1, <1>5, <1>6 DEF Alike, Steady, Same
<1>8. Skips(f, NextCall(d))
  BY <1>1, <1>3, <1>5, <1>6 DEF Alike, Holds, Skips, k
<1> QED
  BY <1>3, <1>4, <1>7, <1>8 DEF TopTurns, Turns

(* FindModuleFile goes on to a read or a build, or gives up.                *)
LEMMA FindModuleFileTurns ==
  ASSUME Typed, NEW p \in Proc, FindModuleFile(p)
  PROVE  TopTurns(p)
<1> DEFINE t == Top(p)
           f == Stat(t, Cur(t), FALSE)
           m == Cur(f)
<1>1. FrameOK(t) /\ t.todo # <<>> /\ t.pc = "import" /\ Cur(t) \in Module
  BY RunningTop, CurOK DEF FindModuleFile, Importing, At
<1>2. /\ Same(t, f) /\ Holds(t, f) /\ f.known = t.known /\ f.todo = t.todo
      /\ f.ver = t.ver /\ f.direct = t.direct /\ f.err = t.err /\ f.why = t.why
      /\ f.pc = t.pc /\ m = Cur(t) /\ FrameOK(f) /\ f \in Frame
  BY <1>1, StatFields DEF Same, FrameOK
<1>3. m # f.mod /\ \/ SetTop(p, [f EXCEPT !.pc = "read", !.why = "cached"])
                   \/ SetTop(p, Failed(f, FALSE, TRUE))
                   \/ SetTop(p, [f EXCEPT !.pc = "lock", !.why = "build"])
  BY DEF FindModuleFile
<1> HIDE DEF t, f
<1>4. ASSUME NEW c \in {"read", "lock"}, NEW w \in {"cached", "build"},
             SetTop(p, [f EXCEPT !.pc = c, !.why = w])
      PROVE  TopTurns(p)
  <2> DEFINE g == [f EXCEPT !.pc = c, !.why = w]
  <2>1. /\ FrameOK(g) /\ g.mod = f.mod /\ g.todo = f.todo /\ Holds(f, g)
        /\ g.known = f.known /\ g.ver = f.ver /\ g.direct = f.direct
        /\ g.err = f.err /\ g.why = w /\ g.pc = c
    BY <1>1, <1>2, <1>3 DEF FrameOK, Frame, Cur, Holds
  <2> HIDE DEF g
  <2>2. Steady(t, g) /\ Moves(t, g)
    BY <1>1, <1>2, <2>1 DEF Steady, Moves, Same, Holds
  <2> QED
    BY <1>4, <2>2 DEF TopTurns, Turns, g, t
<1>5. ASSUME SetTop(p, Failed(f, FALSE, TRUE)) PROVE TopTurns(p)
  <2> DEFINE g == Failed(f, FALSE, TRUE)
  <2>1. Holds(f, g) /\ GivenUp(f, g) /\ g.err
    BY <1>1, <1>2, FailedFields
  <2> HIDE DEF g
  <2>2. Steady(t, g) /\ GivesUp(t, g)
    BY <1>1, <1>2, <2>1 DEF Steady, GivesUp, GivenUp, Same, Holds
  <2> QED
    BY <1>5, <2>2 DEF TopTurns, Turns, g, t
<1> QED
  BY <1>3, <1>4, <1>5

(* A step that only moves the program counter, and may report an error.    *)
LEMMA MoveTurns ==
  ASSUME Typed, NEW p \in Proc, status[p] = "running", Top(p).pc # "unlock",
         NEW c \in {"wait", "after", "unlock"}, NEW e \in BOOLEAN,
         Top(p).err => e,
         IF c = "unlock" THEN Depth(p) > 1 ELSE Top(p).pc \in {"lock", "wait"},
         SetTop(p, [Top(p) EXCEPT !.pc = c, !.err = e])
  PROVE  TopTurns(p)
<1> DEFINE f == Top(p)
           g == [f EXCEPT !.pc = c, !.err = e]
<1>1. FrameOK(f) /\ f \in Frame
  BY RunningTop
<1>2. Depth(p) > 1 => f.mod # TU
  BY RunningTop DEF Typed, StackOK, Top
<1>3. /\ g \in Frame /\ g.pc = c /\ g.mod = f.mod /\ g.todo = f.todo /\ Holds(f, g)
      /\ g.known = f.known /\ g.ver = f.ver /\ g.direct = f.direct /\ g.why = f.why
  BY <1>1 DEF Frame, Holds
<1>4. g.err = e
  BY <1>1, Zenon DEF Frame
<1>5. /\ IF c = "unlock" THEN f.mod # TU ELSE f.pc \in {"lock", "wait"}
      /\ f.err => e
      /\ f.pc # "unlock"
  BY <1>2 DEF f
<1> HIDE DEF f, g
<1>6. FrameOK(g)
  BY <1>1, <1>3, <1>5 DEF FrameOK, Holds, Cur
<1>7. Steady(f, g) /\ Moves(f, g)
  BY <1>1, <1>3, <1>4, <1>5, <1>6 DEF Steady, Moves, Same
<1> QED
  BY <1>7 DEF TopTurns, Turns, f, g

(* Waiting and the failures of compileModule only move the program counter. *)
LEMMA CompileModuleTurns ==
  ASSUME Typed, NEW p \in Proc, LockShared(p) \/ LockFails(p) \/ WaitForUnlock(p) \/ WaitTimesOut(p)
  PROVE  TopTurns(p)
<1> DEFINE f == Top(p)
<1>1. status[p] = "running" /\ f \in Frame /\ f.pc \in {"lock", "wait"}
  BY RunningTop DEF LockShared, LockFails, WaitForUnlock, WaitTimesOut, At
<1>2. f.err \in BOOLEAN
  BY <1>1 DEF Frame
<1>3. PICK c \in {"wait", "after"} :
        SetTop(p, [f EXCEPT !.pc = c]) \/ SetTop(p, [f EXCEPT !.pc = c, !.err = TRUE])
  BY DEF LockShared, LockFails, WaitForUnlock, WaitTimesOut
<1>4. [f EXCEPT !.pc = c] = [f EXCEPT !.pc = c, !.err = f.err]
  BY <1>1 DEF Frame
<1> QED
  BY <1>1, <1>2, <1>3, <1>4, MoveTurns

(* The end of a build, by success or crash, only moves the program counter. *)
LEMMA BuildTurns ==
  ASSUME Typed, NEW p \in Proc, EndOfModule(p) \/ BuildCrash(p)
  PROVE  TopTurns(p)
<1> DEFINE f == Top(p)
<1>1. status[p] = "running" /\ f \in Frame /\ Depth(p) > 1 /\ f.pc # "unlock"
  BY RunningTop DEF EndOfModule, BuildCrash, At
<1>2. f.err \in BOOLEAN
  BY <1>1 DEF Frame
<1>3. CASE EndOfModule(p)
  <2> DEFINE failed == f.err \/ <<f.mod, f.ver>> \in Bad
  <2>1. SetTop(p, [f EXCEPT !.pc = "unlock", !.err = failed])
    BY <1>3 DEF EndOfModule
  <2>2. failed \in BOOLEAN /\ (f.err => failed)
    BY <1>2
  <2> HIDE DEF failed
  <2> QED
    BY <1>1, <2>1, <2>2, MoveTurns
<1>4. CASE BuildCrash(p)
  <2>1. SetTop(p, [f EXCEPT !.pc = "unlock"])
    BY <1>4 DEF BuildCrash
  <2>2. [f EXCEPT !.pc = "unlock"] = [f EXCEPT !.pc = "unlock", !.err = f.err]
    BY <1>1 DEF Frame
  <2> QED
    BY <1>1, <1>2, <2>1, <2>2, MoveTurns
<1> QED
  BY <1>3, <1>4

(* Recheck goes on to read the file or gives up.                            *)
LEMMA RecheckTurns ==
  ASSUME Typed, NEW p \in Proc, Recheck(p)
  PROVE  TopTurns(p)
<1> DEFINE t == Top(p)
           f == Stat(t, Cur(t), TRUE)
           rebuilt == f.why = "rebuild"
<1>1. FrameOK(t) /\ t.todo # <<>> /\ t.pc = "after" /\ Cur(t) \in Module
  BY RunningTop, CurOK DEF Recheck, At, FrameOK
<1>2. /\ Same(t, f) /\ Holds(t, f) /\ f.known = t.known /\ f.todo = t.todo
      /\ f.ver = t.ver /\ f.direct = t.direct /\ f.err = t.err /\ f.why = t.why
      /\ f.pc = t.pc /\ FrameOK(f) /\ f \in Frame /\ Cur(f) = Cur(t)
  BY <1>1, StatFields DEF Same, FrameOK
<1>3. SetTop(p, [f EXCEPT !.pc = "read"]) \/ SetTop(p, Failed(f, rebuilt, ~rebuilt))
  BY DEF Recheck
<1>4. CASE SetTop(p, [f EXCEPT !.pc = "read"])
  <2> DEFINE g == [f EXCEPT !.pc = "read"]
  <2> HIDE DEF f
  <2>1. /\ FrameOK(g) /\ g.mod = f.mod /\ g.todo = f.todo /\ Holds(f, g)
        /\ g.known = f.known /\ g.ver = f.ver /\ g.direct = f.direct
        /\ g.err = f.err /\ g.why = f.why /\ g.pc = "read"
    BY <1>1, <1>2 DEF FrameOK, Frame, Cur, Holds
  <2> HIDE DEF g, t
  <2>2. Steady(t, g) /\ Moves(t, g)
    BY <1>1, <1>2, <2>1 DEF Steady, Moves, Same, Holds
  <2> QED
    BY <1>4, <2>2 DEF TopTurns, Turns, g, t
<1>5. CASE SetTop(p, Failed(f, rebuilt, ~rebuilt))
  <2> DEFINE report == ~rebuilt
             g == Failed(f, rebuilt, report)
  <2>0. rebuilt \in BOOLEAN /\ report \in BOOLEAN
        /\ (report \/ f.why = "rebuild") /\ SetTop(p, g)
    BY <1>5
  <2> HIDE DEF rebuilt, report, f
  <2>1. Holds(f, g) /\ GivenUp(f, g) /\ g.err = (f.err \/ report)
    BY <1>1, <1>2, <2>0, FailedFields
  <2> HIDE DEF g, t
  <2>2. Steady(t, g) /\ GivesUp(t, g)
    BY <1>1, <1>2, <2>0, <2>1 DEF Steady, GivesUp, GivenUp, Same, Holds
  <2> QED
    BY <2>0, <2>2 DEF TopTurns, Turns, t
<1> QED
  BY <1>3, <1>4, <1>5

(* Evict starts a rebuild, from evict only.                                 *)
LEMMA EvictTurns ==
  ASSUME Typed, NEW p \in Proc, Evict(p)
  PROVE  TopTurns(p)
<1> DEFINE f == Top(p)
           g == [f EXCEPT !.fm[Cur(f)] = "unseen", !.why = "rebuild", !.pc = "lock"]
<1>1. FrameOK(f) /\ f \in Frame /\ f.pc = "evict" /\ SetTop(p, g)
  BY RunningTop DEF Evict, At
<1>2. Cur(f) \in Module
  BY <1>1, CurOK DEF FrameOK
<1>3. /\ FrameOK(g) /\ g.mod = f.mod /\ g.todo = f.todo /\ Holds(f, g)
      /\ g.known = f.known /\ g.ver = f.ver /\ g.direct = f.direct
      /\ g.err = f.err /\ g.pc = "lock"
  BY <1>1, <1>2 DEF FrameOK, Frame, Cur, Holds
<1> HIDE DEF f, g
<1>4. Steady(f, g) /\ Moves(f, g)
  BY <1>1, <1>3 DEF Steady, Moves, Same
<1> QED
  BY <1>1, <1>4 DEF TopTurns, Turns, f

(* The file ReadASTCore opens next is a module's.                           *)
LEMMA TargetsOK ==
  ASSUME NEW f, FrameOK(f), f.pc = "read"
  PROVE  Targets(f) \subseteq Module
<1>1. CASE f.rd = <<>>
  BY <1>1, CurOK DEF Targets, FrameOK
<1>2. CASE f.rd # <<>>
  <2> DEFINE s == f.rd
  <2>1. s \in Seq([m : Module, left : SUBSET Module]) /\ s # <<>>
    BY <1>2 DEF FrameOK, Frame
  <2>2. Targets(f) = s[Len(s)].left
    BY <1>2 DEF Targets, Last
  <2> HIDE DEF s
  <2>3. Len(s) \in 1..Len(s)
    BY <2>1, EmptySeq
  <2>4. s[Len(s)] \in [m : Module, left : SUBSET Module]
    BY <2>1, <2>3, ElementOfSeq
  <2> QED
    BY <2>2, <2>4
<1> QED
  BY <1>1, <1>2

(* OpenAST passes a loaded file, gives up, or opens a new one.              *)
LEMMA OpenASTTurns ==
  ASSUME Typed, NEW p \in Proc, OpenAST(p)
  PROVE  TopTurns(p)
<1> DEFINE t == Top(p)
<1>1. /\ FrameOK(t) /\ t.todo # <<>> /\ t.pc = "read" /\ Cur(t) \in Module
  BY RunningTop, CurOK DEF OpenAST, AtFile, At, FrameOK
<1>2. PICK m \in Targets(t) :
        LET f == Stat(t, m, TRUE) IN
        \/ f.chain[m] # NoFile /\ SetTop(p, FileRead(f, m))
        \/ SetTop(p, Failed(Dropped(f), TRUE, TRUE))
        \/ /\ f.chain[m] = NoFile /\ pcm[m] \notin {NoFile, Torn}
           /\ SetTop(p, [f EXCEPT !.chain[m] = pcm[m], !.fresh = @ \cup {m},
                                  !.rd = Append(@, [m |-> m, left |-> pcm[m].imps])])
  BY DEF OpenAST
<1>3. m \in Module
  BY <1>1, TargetsOK
<1> DEFINE f == Stat(t, m, TRUE)
<1>4. /\ Same(t, f) /\ Holds(t, f) /\ f.known = t.known /\ f.todo = t.todo
      /\ f.ver = t.ver /\ f.direct = t.direct /\ f.err = t.err /\ f.why = t.why
      /\ f.pc = t.pc /\ FrameOK(f) /\ f \in Frame /\ Cur(f) = Cur(t)
  BY <1>1, <1>3, StatFields, ZenonT(60) DEF Same, FrameOK
<1>5. \/ f.chain[m] # NoFile /\ SetTop(p, FileRead(f, m))
      \/ SetTop(p, Failed(Dropped(f), TRUE, TRUE))
      \/ /\ f.chain[m] = NoFile /\ pcm[m] \notin {NoFile, Torn}
         /\ SetTop(p, [f EXCEPT !.chain[m] = pcm[m], !.fresh = @ \cup {m},
                                !.rd = Append(@, [m |-> m, left |-> pcm[m].imps])])
  BY <1>2
<1> HIDE DEF t, f
<1>6. CASE f.chain[m] # NoFile /\ SetTop(p, FileRead(f, m))
  <2> DEFINE g == FileRead(f, m)
  <2>1. /\ Finishes(f, g, m, f.rd) /\ Same(f, g)
        /\ g.ver = f.ver /\ g.direct = f.direct /\ g.why = f.why /\ g.err = f.err
    BY <1>1, <1>4, FileReadFields
  <2> HIDE DEF g
  <2>2. Steady(t, g)
    BY <1>1, <1>4, <2>1 DEF Steady, Same
  <2>3. Finishes(t, g, m, t.rd)
    BY <1>4, <2>1 DEF Finishes, Holds
  <2>4. Passes(t, g)
    BY <1>1, <1>2, <1>3, <1>4, <1>6, <2>3 DEF Passes, Holds
  <2> QED
    BY <1>6, <2>2, <2>4 DEF TopTurns, Turns, g, t
<1>7. CASE SetTop(p, Failed(Dropped(f), TRUE, TRUE))
  <2> DEFINE d == Dropped(f)
             g == Failed(d, TRUE, TRUE)
  <2>1. /\ Drops(f, d) /\ Same(f, d) /\ d.todo = f.todo /\ Cur(d) = Cur(f)
        /\ d.ver = f.ver /\ d.direct = f.direct /\ d.why = f.why
        /\ d.known = f.known /\ d.err = f.err /\ d.pc = f.pc
    BY <1>4, DroppedFields
  <2> HIDE DEF d
  <2>2. Holds(d, g) /\ GivenUp(d, g) /\ g.err
    BY <1>1, <1>4, <2>1, FailedFields DEF Same
  <2> HIDE DEF g
  <2>3. Steady(t, g)
    BY <1>1, <1>4, <2>1, <2>2 DEF Steady, GivenUp, Same
  <2>4. Drops(t, g)
    BY <1>4, <2>1, <2>2 DEF Drops, Holds
  <2>5. GivesUp(t, g)
    BY <1>1, <1>4, <2>1, <2>2, <2>4 DEF GivesUp, GivenUp
  <2> QED
    BY <1>7, <2>3, <2>5 DEF TopTurns, Turns, d, g, t
<1>8. CASE /\ f.chain[m] = NoFile /\ pcm[m] \notin {NoFile, Torn}
           /\ SetTop(p, [f EXCEPT !.chain[m] = pcm[m], !.fresh = @ \cup {m},
                                  !.rd = Append(@, [m |-> m, left |-> pcm[m].imps])])
  <2> DEFINE c == pcm[m]
             r == Append(f.rd, [m |-> m, left |-> c.imps])
             g == [f EXCEPT !.chain[m] = c, !.fresh = @ \cup {m}, !.rd = r]
  <2>1. c \in Content /\ SetTop(p, g)
    BY <1>3, <1>8 DEF Typed, TypeOK
  <2> HIDE DEF r, c
  <2>2. /\ g.chain = [f.chain EXCEPT ![m] = c] /\ g.fresh = f.fresh \cup {m}
        /\ g.rd = r /\ g.imps = f.imps /\ g.todo = f.todo /\ g.known = f.known
        /\ g.ver = f.ver /\ g.direct = f.direct /\ g.err = f.err /\ g.why = f.why
        /\ g.pc = f.pc /\ g.mod = f.mod
    BY <1>4 DEF Frame
  <2>3. FrameOK(g)
    <3>1. OpenAST(p) /\ Local(p)
      BY OpenASTLocal
    <3>2. PICK h : Same(Top(p), h) /\ SetTop(p, h)
      BY <3>1 DEF Local
    <3>3. status[p] = "running" /\ Typed /\ status' = status
      BY <3>1 DEF Local
    <3>4. stack'[p][Len(stack[p])] = h
      <4>1. Len(stack[p]) \in 1..Len(stack[p])
        BY <3>3, RunningTop DEF Depth
      <4> QED
        BY <3>2, <3>3, <4>1, SetTopOK
    <3>5. stack'[p][Len(stack[p])] = g
      <4> HIDE DEF g
      <4> DEFINE n == Len(stack[p])
                 s == [stack[p] EXCEPT ![n] = g]
      <4>1. stack[p] \in Seq(Frame) /\ n \in 1..n /\ stack \in [Proc -> Seq(Frame)]
        BY <3>3, RunningTop DEF Depth, Typed, TypeOK
      <4>2. stack' = [stack EXCEPT ![p] = s]
        BY <2>1 DEF SetTop, Depth
      <4>3. s[n] = g
        BY <4>1
      <4> QED
        BY <4>1, <4>2, <4>3
    <3> QED
      BY <3>2, <3>4, <3>5 DEF Same
  <2> HIDE DEF g
  <2>4. Steady(t, g)
    BY <1>1, <1>4, <2>2, <2>3 DEF Steady, Same
  <2>5. Opens(t, g)
    BY <1>1, <1>2, <1>3, <1>4, <1>8, <2>1, <2>2 DEF Opens, Holds, r, c
  <2> QED
    BY <2>1, <2>4, <2>5 DEF TopTurns, Turns, t
<1> QED
  BY <1>5, <1>6, <1>7, <1>8

(* An instance without its innermost control block is still one.            *)
LEMMA FrontFrameOK ==
  ASSUME NEW f, FrameOK(f), f.rd # <<>>
  PROVE  LET g == [f EXCEPT !.rd = Front(@)] IN
         /\ FrameOK(g) /\ g.rd = Front(f.rd) /\ g.mod = f.mod /\ g.todo = f.todo
         /\ g.chain = f.chain /\ g.fresh = f.fresh /\ g.imps = f.imps
         /\ g.known = f.known /\ g.ver = f.ver /\ g.direct = f.direct
         /\ g.err = f.err /\ g.why = f.why /\ g.pc = f.pc /\ g.fm = f.fm
<1> DEFINE s == f.rd
           r == Front(s)
           g == [f EXCEPT !.rd = r]
<1>1. s \in Seq([m : Module, left : SUBSET Module]) /\ Len(s) \in Nat \ {0}
  BY EmptySeq DEF FrameOK, Frame
<1>2. \A k \in 1..Len(s) : k < Len(s) => s[k].left # {}
  BY DEF FrameOK
<1> HIDE DEF s
<1>3. /\ r \in Seq([m : Module, left : SUBSET Module]) /\ Len(r) = Len(s) - 1
      /\ \A k \in 1..Len(r) : r[k] = s[k]
  BY <1>1, FrontTyped
<1> HIDE DEF r
<1>4. \A k \in 1..Len(r) : r[k].left # {}
  <2> TAKE k \in 1..Len(r)
  <2>1. k \in 1..Len(s) /\ k < Len(s)
    BY <1>1, <1>3
  <2>2. r[k] = s[k]
    BY <1>3
  <2> QED
    BY <1>2, <2>1, <2>2
<1>5. /\ g \in Frame /\ g.rd = r /\ g.mod = f.mod /\ g.todo = f.todo
      /\ g.chain = f.chain /\ g.fresh = f.fresh /\ g.imps = f.imps
      /\ g.known = f.known /\ g.ver = f.ver /\ g.direct = f.direct
      /\ g.err = f.err /\ g.why = f.why /\ g.pc = f.pc /\ g.fm = f.fm
  BY <1>3 DEF FrameOK, Frame
<1>6. FrameOK(g)
  BY <1>4, <1>5 DEF FrameOK, Cur
<1> QED
  BY <1>5, <1>6 DEF r, s

(* Validate accepts the innermost file, rejects it, or gives up.            *)
LEMMA ValidateTurns ==
  ASSUME Typed, NEW p \in Proc, Validate(p)
  PROVE  TopTurns(p)
<1> DEFINE f == Top(p)
           m == Last(f.rd).m
<1>1. /\ FrameOK(f) /\ f.todo # <<>> /\ f.pc = "read" /\ f.rd # <<>>
      /\ Last(f.rd).left = {}
  BY RunningTop DEF Validate, At, FrameOK
<1>2. \/ UpToDate(f, m) /\ SetTop(p, FileRead([f EXCEPT !.rd = Front(@)], m))
      \/ /\ ~UpToDate(f, m)
         /\ SetTop(p, [Dropped(f) EXCEPT !.pc = "evict", !.err = @ \/ Cur(f) \in NoMap])
      \/ ~UpToDate(f, m) /\ SetTop(p, Failed(Dropped(f), TRUE, TRUE))
  BY DEF Validate
<1> DEFINE d == Dropped(f)
<1>3. /\ Drops(f, d) /\ Same(f, d) /\ d.todo = f.todo /\ Cur(d) = Cur(f)
      /\ d.ver = f.ver /\ d.direct = f.direct /\ d.why = f.why
      /\ d.known = f.known /\ d.err = f.err /\ d.pc = f.pc
  BY <1>1, DroppedFields
<1> HIDE DEF f
<1>4. CASE UpToDate(f, m) /\ SetTop(p, FileRead([f EXCEPT !.rd = Front(@)], m))
  <2> DEFINE b == [f EXCEPT !.rd = Front(@)]
             g == FileRead(b, m)
  <2>1. /\ FrameOK(b) /\ b.rd = Front(f.rd) /\ b.mod = f.mod /\ b.todo = f.todo
        /\ b.chain = f.chain /\ b.fresh = f.fresh /\ b.imps = f.imps
        /\ b.known = f.known /\ b.ver = f.ver /\ b.direct = f.direct
        /\ b.err = f.err /\ b.why = f.why /\ b.pc = f.pc
    BY <1>1, FrontFrameOK
  <2> HIDE DEF b
  <2>2. /\ Finishes(b, g, m, b.rd) /\ Same(b, g)
        /\ g.ver = b.ver /\ g.direct = b.direct /\ g.why = b.why /\ g.err = b.err
    BY <1>1, <2>1, FileReadFields
  <2> HIDE DEF g
  <2>3. Steady(f, g)
    BY <1>1, <2>1, <2>2 DEF Steady, Same
  <2>4. Finishes(f, g, m, Front(f.rd))
    BY <2>1, <2>2 DEF Finishes, Cur
  <2>5. Accepts(f, g)
    BY <1>1, <1>4, <2>4 DEF Accepts
  <2> QED
    BY <1>4, <2>3, <2>5 DEF TopTurns, Turns, b, g, f
<1>5. CASE /\ ~UpToDate(f, m)
           /\ SetTop(p, [Dropped(f) EXCEPT !.pc = "evict", !.err = @ \/ Cur(f) \in NoMap])
  <2> DEFINE n == d.err \/ Cur(f) \in NoMap
             g == [d EXCEPT !.pc = "evict", !.err = n]
  <2>0. d.err \in BOOLEAN /\ d \in Frame
    BY <1>3 DEF Same, FrameOK, Frame
  <2>1. n \in BOOLEAN /\ (d.err => n)
    BY <2>0
  <2>2. SetTop(p, g)
    BY <1>5
  <2> HIDE DEF n, d
  <2>3. /\ g \in Frame /\ g.mod = d.mod /\ g.todo = d.todo /\ Holds(d, g)
        /\ g.known = d.known /\ g.ver = d.ver /\ g.direct = d.direct
        /\ g.why = d.why /\ g.pc = "evict"
    BY <2>0, <2>1 DEF Frame, Holds
  <2>4. g.err = n
    BY <2>0, <2>1, Zenon DEF Frame
  <2> HIDE DEF g
  <2>5. FrameOK(g)
    BY <1>1, <1>3, <2>3 DEF Same, FrameOK, Cur, Holds
  <2>6. Steady(f, g)
    BY <1>1, <1>3, <2>1, <2>3, <2>4, <2>5 DEF Steady, Same
  <2>7. Rejects(f, g)
    BY <1>1, <1>3, <1>5, <2>3 DEF Rejects, Drops, Holds
  <2> QED
    BY <2>2, <2>6, <2>7 DEF TopTurns, Turns, f
<1>6. CASE SetTop(p, Failed(d, TRUE, TRUE))
  <2> HIDE DEF d
  <2> DEFINE g == Failed(d, TRUE, TRUE)
  <2>2. Holds(d, g) /\ GivenUp(d, g) /\ g.err
    BY <1>1, <1>3, FailedFields DEF Same
  <2> HIDE DEF g
  <2>3. Steady(f, g)
    BY <1>1, <1>3, <2>2 DEF Steady, GivenUp, Same
  <2>4. Drops(f, g)
    BY <1>3, <2>2 DEF Drops, Holds
  <2>5. GivesUp(f, g)
    BY <1>1, <1>3, <2>2, <2>4 DEF GivesUp, GivenUp
  <2> QED
    BY <1>6, <2>3, <2>5 DEF TopTurns, Turns, g, f
<1> QED
  BY <1>2, <1>4, <1>5, <1>6

(* The steps of one instance are Turns of it.                              *)
LEMMA LocalTurns ==
  ASSUME Typed, NEW p \in Proc,
         \/ ImportKnown(p) \/ FindModuleFile(p) \/ LockShared(p)
         \/ WaitForUnlock(p) \/ EndOfModule(p) \/ Recheck(p) \/ OpenAST(p)
         \/ Validate(p) \/ Evict(p) \/ LockFails(p) \/ WaitTimesOut(p) \/ BuildCrash(p)
  PROVE  /\ TopTurns(p) /\ status[p] = "running" /\ status' = status /\ hdr' = hdr
<1>1. status[p] = "running" /\ status' = status
  BY LocalSteps DEF Local
<1>2. hdr' = hdr
  BY DEF ImportKnown, FindModuleFile, LockShared, WaitForUnlock, EndOfModule,
         Recheck, OpenAST, Validate, Evict, LockFails, WaitTimesOut, BuildCrash
<1>3. TopTurns(p)
  BY ImportKnownTurns, FindModuleFileTurns, CompileModuleTurns, BuildTurns,
     RecheckTurns, OpenASTTurns, ValidateTurns, EvictTurns
<1> QED
  BY <1>1, <1>2, <1>3

-----------------------------------------------------------------------------
(* What a step does to every instance and to every module file             *)

(* g is the instance in which q begins to build the module it imports.     *)
Begins(q, g) ==
  LET m == Cur(Top(q)) IN
  /\ status[q] = "running" /\ FrameOK(Top(q)) /\ Top(q).pc = "lock"
  /\ m \in Module \ NoMap
  /\ ~Held(m) /\ lock' = [lock EXCEPT ![m] = q]
  /\ \E d \in BOOLEAN : /\ g = NewInstance(m, hdr[m], Imports[m], d)
                        /\ d => "temp" \in FaultKinds /\ faults' = faults + 1

(* The instances after a step are as they were, or one step further, or new. *)
InstancesStep ==
  \A q \in Proc : \A i \in 1..Depth(q)' :
    \/ i \in 1..Depth(q) /\ stack'[q][i] = stack[q][i]
    \/ /\ i \in 1..Depth(q) /\ status[q] = "running" /\ hdr' = hdr
       /\ Turns(stack[q][i], stack'[q][i])
    \/ i = Depth(q) + 1 /\ hdr' = hdr /\ Begins(q, stack'[q][i])

(* SetTop changes the innermost instance of one process only.               *)
LEMMA SetTopFrames ==
  ASSUME Typed, NEW p \in Proc, status[p] = "running", status' = status,
         NEW g, Same(Top(p), g), SetTop(p, g)
  PROVE  /\ \A q \in Proc : Depth(q)' = Depth(q)
         /\ \A q \in Proc : \A i \in 1..Depth(q) :
              IF q = p /\ i = Depth(p) THEN stack'[q][i] = g
              ELSE stack'[q][i] = stack[q][i]
<1>1. /\ Len(stack'[p]) = Len(stack[p])
      /\ \A i \in 1..Len(stack[p]) :
           stack'[p][i] = IF i = Len(stack[p]) THEN g ELSE stack[p][i]
      /\ \A q \in Proc \ {p} : stack'[q] = stack[q]
  BY SetTopOK
<1> QED
  BY <1>1 DEF Depth

(* A local step leaves every instance but one as it was.                    *)
LEMMA TopTurnsFrames ==
  ASSUME Typed, NEW p \in Proc, status[p] = "running", status' = status,
         hdr' = hdr, TopTurns(p)
  PROVE  InstancesStep
<1>1. PICK g : Turns(Top(p), g) /\ SetTop(p, g)
  BY DEF TopTurns
<1>2. Same(Top(p), g)
  BY <1>1 DEF Turns, Steady
<1>3. \A q \in Proc : \A i \in 1..Depth(q)' :
        /\ i \in 1..Depth(q)
        /\ IF q = p /\ i = Depth(p) THEN stack'[q][i] = g
           ELSE stack'[q][i] = stack[q][i]
  <2>1. /\ \A q \in Proc : Depth(q)' = Depth(q)
        /\ \A q \in Proc : \A i \in 1..Depth(q) :
              IF q = p /\ i = Depth(p) THEN stack'[q][i] = g
              ELSE stack'[q][i] = stack[q][i]
    BY <1>1, <1>2, SetTopFrames
  <2> QED
    BY <2>1
<1> SUFFICES ASSUME NEW q \in Proc, NEW i \in 1..Depth(q)'
             PROVE  /\ i \in 1..Depth(q)
                    /\ \/ stack'[q][i] = stack[q][i]
                       \/ status[q] = "running" /\ Turns(stack[q][i], stack'[q][i])
  BY DEF InstancesStep
<1>4. CASE q = p /\ i = Depth(p)
  <2>1. i \in 1..Depth(q) /\ stack'[q][i] = g /\ stack[q][i] = Top(p)
    BY <1>3, <1>4 DEF Top
  <2> QED
    BY <1>1, <1>4, <2>1
<1>5. CASE ~(q = p /\ i = Depth(p))
  BY <1>3, <1>5
<1> QED
  BY <1>4, <1>5

(* The instance that builds a module has its type.                          *)
LEMMA NewInstanceType ==
  ASSUME Typed, NEW m \in Module, NEW d \in BOOLEAN
  PROVE  LET g == NewInstance(m, hdr[m], Imports[m], d) IN FrameOK(g) /\ g.mod = m
<1>1. hdr[m] \in Version /\ Imports[m] \in Seq(Module)
  BY ConstantsOK DEF Typed, TypeOK
<1> QED
  BY <1>1, NewInstanceOK

(* LockOwned adds one instance, or ends the process.                        *)
LEMMA LockOwnedFrames ==
  ASSUME Typed, NEW p \in Proc, LockOwned(p)
  PROVE  /\ InstancesStep /\ hdr' = hdr
         /\ \/ Crashed(p) /\ Cur(Top(p)) \in NoMap /\ pcm' = pcm
            \/ /\ status' = status /\ Depth(p)' = Depth(p) + 1
               /\ Begins(p, stack'[p][Depth(p) + 1])
               /\ \A q \in Proc : \A i \in 1..Depth(q) : stack'[q][i] = stack[q][i]
               /\ \A q \in Proc \ {p} : Depth(q)' = Depth(q)
               /\ \/ pcm' = pcm
                  \/ /\ pcm' = [pcm EXCEPT ![Cur(Top(p))] = Torn]
                     /\ "temp" \in FaultKinds /\ faults' = faults + 1
<1> DEFINE m == Cur(Top(p))
           New(d) == NewInstance(m, hdr[m], Imports[m], d)
<1>1. /\ status[p] = "running" /\ Top(p).pc = "lock" /\ m \in Module /\ hdr' = hdr
      /\ FrameOK(Top(p)) /\ Depth(p) \in Nat
  BY LockOwnedCases, RunningTop
<1>2. \/ Crashed(p) /\ m \in NoMap /\ pcm' = pcm
      \/ /\ status' = status /\ m \notin NoMap /\ ~Held(m)
         /\ lock' = [lock EXCEPT ![m] = p]
         /\ \E d \in BOOLEAN :
              /\ stack' = [stack EXCEPT ![p] = Append(stack[p], New(d))]
              /\ d => "temp" \in FaultKinds /\ faults' = faults + 1
         /\ \/ pcm' = pcm
            \/ /\ pcm' = [pcm EXCEPT ![m] = Torn]
               /\ "temp" \in FaultKinds /\ faults' = faults + 1
  BY DEF LockOwned, Fault
<1>3. CASE Crashed(p) /\ m \in NoMap /\ pcm' = pcm
  <2>1. Len(stack'[p]) = 0 /\ \A q \in Proc \ {p} : stack'[q] = stack[q]
    BY <1>3, CrashedOK
  <2>2. \A q \in Proc : \A i \in 1..Depth(q)' :
          i \in 1..Depth(q) /\ stack'[q][i] = stack[q][i]
    BY <2>1 DEF Depth
  <2> QED
    BY <1>1, <1>3, <2>2 DEF InstancesStep
<1>4. CASE /\ status' = status /\ m \notin NoMap /\ ~Held(m)
           /\ lock' = [lock EXCEPT ![m] = p]
           /\ \E d \in BOOLEAN :
                /\ stack' = [stack EXCEPT ![p] = Append(stack[p], New(d))]
                /\ d => "temp" \in FaultKinds /\ faults' = faults + 1
           /\ \/ pcm' = pcm
              \/ /\ pcm' = [pcm EXCEPT ![m] = Torn]
                 /\ "temp" \in FaultKinds /\ faults' = faults + 1
  <2>1. PICK d \in BOOLEAN :
          /\ stack' = [stack EXCEPT ![p] = Append(stack[p], New(d))]
          /\ d => "temp" \in FaultKinds /\ faults' = faults + 1
    BY <1>4
  <2>2. FrameOK(New(d)) /\ New(d).mod # TU
    BY <1>1, NewInstanceType, ConstantsOK
  <2>3. Begins(p, New(d))
    BY <1>1, <1>4, <2>1 DEF Begins
  <2> HIDE DEF New, m
  <2>4. /\ Len(stack'[p]) = Len(stack[p]) + 1
        /\ \A i \in 1..Len(stack[p]) + 1 :
              stack'[p][i] = IF i = Len(stack[p]) + 1 THEN New(d) ELSE stack[p][i]
        /\ \A q \in Proc \ {p} : stack'[q] = stack[q]
    BY <1>1, <1>4, <2>1, <2>2, PushOK
  <2>5. /\ Depth(p)' = Depth(p) + 1 /\ stack'[p][Depth(p) + 1] = New(d)
        /\ \A i \in 1..Depth(p) : stack'[p][i] = stack[p][i]
        /\ \A q \in Proc \ {p} : Depth(q)' = Depth(q) /\ stack'[q] = stack[q]
    BY <1>1, <2>4 DEF Depth
  <2>6. InstancesStep
    <3> SUFFICES ASSUME NEW q \in Proc, NEW i \in 1..Depth(q)'
                 PROVE  \/ i \in 1..Depth(q) /\ stack'[q][i] = stack[q][i]
                        \/ i = Depth(q) + 1 /\ Begins(q, stack'[q][i])
      BY <1>1 DEF InstancesStep
    <3>1. CASE q = p /\ i = Depth(p) + 1
      BY <2>3, <2>5, <3>1
    <3>2. CASE q = p /\ i # Depth(p) + 1
      BY <1>1, <2>5, <3>2
    <3>3. CASE q # p
      BY <2>5, <3>3
    <3> QED
      BY <3>1, <3>2, <3>3
  <2> QED
    BY <1>1, <1>4, <2>3, <2>5, <2>6 DEF m
<1> QED
  BY <1>2, <1>3, <1>4

(* Unlock removes the innermost instance and resumes the one below.         *)
LEMMA UnlockFrames ==
  ASSUME Typed, NEW p \in Proc, Unlock(p)
  PROVE  /\ InstancesStep /\ hdr' = hdr /\ status' = status /\ pcm' = pcm
         /\ lock' = [lock EXCEPT ![Top(p).mod] = Free]
         /\ Top(p).pc = "unlock" /\ Depth(p) > 1 /\ Depth(p)' = Depth(p) - 1
         /\ \A q \in Proc \ {p} : stack'[q] = stack[q]
         /\ \A i \in 1..Depth(p) - 1 :
              stack'[p][i] = IF i = Depth(p) - 1
                             THEN [stack[p][i] EXCEPT !.pc = "after"]
                             ELSE stack[p][i]
<1> DEFINE b == Front(stack[p])
           n == Depth(p)
           f == stack[p][n - 1]
           g == [f EXCEPT !.pc = "after"]
<1>1. /\ status[p] = "running" /\ stack[p] \in Seq(Frame) /\ Top(p).pc = "unlock"
      /\ n \in Nat /\ n > 1
  BY RunningTop DEF Unlock, At, FrameOK, Typed, StackOK, Top
<1>2. Len(b) = n - 1 /\ \A k \in 1..n - 1 : b[k] = stack[p][k]
  BY <1>1, FrontTyped DEF Depth
<1>3. Last(b) = f
  <2>1. n - 1 \in 1..n - 1
    BY <1>1
  <2> HIDE DEF b, n
  <2> QED
    BY <1>2, <2>1 DEF Last
<1>4. FrameOK(f) /\ f.pc = "lock"
  <2>1. n - 1 \in 1..n /\ n - 1 < n
    BY <1>1
  <2> QED
    BY <2>1 DEF Typed, StackOK
<1>5. /\ stack' = [stack EXCEPT ![p] = [b EXCEPT ![Len(b)] = g]]
      /\ status' = status /\ lock' = [lock EXCEPT ![Top(p).mod] = Free]
      /\ hdr' = hdr /\ pcm' = pcm
  BY <1>3 DEF Unlock, Released
<1>6. Turns(f, g)
  <2> HIDE DEF f
  <2>1. /\ FrameOK(g) /\ g.mod = f.mod /\ g.todo = f.todo /\ Holds(f, g)
        /\ g.known = f.known /\ g.ver = f.ver /\ g.direct = f.direct
        /\ g.err = f.err /\ g.why = f.why /\ g.pc = "after"
    BY <1>4 DEF FrameOK, Frame, Cur, Holds
  <2> HIDE DEF g
  <2> QED
    BY <1>4, <2>1 DEF Turns, Steady, Moves, Same
<1>7. Same(Last(b), g)
  BY <1>3, <1>6 DEF Turns, Steady
<1> HIDE DEF g, b
<1>8. /\ Len(stack'[p]) = n - 1
      /\ \A i \in 1..n - 1 : stack'[p][i] = IF i = n - 1 THEN g ELSE stack[p][i]
      /\ \A q \in Proc \ {p} : stack'[q] = stack[q]
  BY <1>1, <1>5, <1>7, PopOK, ZenonT(60) DEF b, Depth
<1>9. InstancesStep
  <2> SUFFICES ASSUME NEW q \in Proc, NEW i \in 1..Depth(q)'
               PROVE  /\ i \in 1..Depth(q)
                      /\ \/ stack'[q][i] = stack[q][i]
                         \/ status[q] = "running" /\ Turns(stack[q][i], stack'[q][i])
    BY <1>5 DEF InstancesStep
  <2>1. CASE q = p
    <3>1. i \in 1..n - 1 /\ i \in 1..n
      BY <1>1, <1>8, <2>1 DEF Depth
    <3>2. stack'[q][i] = IF i = n - 1 THEN g ELSE stack[p][i]
      BY <1>8, <2>1, <3>1
    <3> QED
      BY <1>1, <1>6, <2>1, <3>1, <3>2
  <2>2. CASE q # p
    BY <1>8, <2>2 DEF Depth
  <2> QED
    BY <2>1, <2>2
<1> QED
  BY <1>1, <1>5, <1>8, <1>9 DEF Depth, g

(* A crash takes all instances of one process away.                         *)
LEMMA CrashFrames ==
  ASSUME Typed, NEW p \in Proc, Crash(p)
  PROVE  /\ InstancesStep /\ hdr' = hdr /\ pcm' = pcm /\ lock' = lock /\ Crashed(p)
         /\ faults' = faults + 1
<1>1. Len(stack'[p]) = 0 /\ \A q \in Proc \ {p} : stack'[q] = stack[q]
  BY CrashedOK DEF Crash
<1>2. \A q \in Proc : \A i \in 1..Depth(q)' :
        i \in 1..Depth(q) /\ stack'[q][i] = stack[q][i]
  BY <1>1 DEF Depth
<1> QED
  BY <1>2 DEF InstancesStep, Crash, Fault

(* A step that leaves the stacks alone is an InstancesStep.                 *)
LEMMA SameFrames ==
  ASSUME stack' = stack
  PROVE  InstancesStep
BY DEF InstancesStep, Depth

(* Every step of the specification is an InstancesStep.                     *)
LEMMA EveryInstance == Typed /\ [Next]_vars => InstancesStep
<1> SUFFICES ASSUME Typed, [Next]_vars PROVE InstancesStep
  OBVIOUS
<1>1. ASSUME NEW p \in Proc, Step(p) \/ LockFails(p) \/ WaitTimesOut(p) \/ BuildCrash(p)
      PROVE  InstancesStep
  BY <1>1, LocalTurns, TopTurnsFrames, LockOwnedFrames, UnlockFrames, SameFrames
     DEF Step, EndOfTU
<1>2. ASSUME NEW p \in Proc, Crash(p) PROVE InstancesStep
  BY <1>2, CrashFrames
<1>3. ASSUME stack' = stack PROVE InstancesStep
  BY <1>3, SameFrames
<1> QED
  BY <1>1, <1>2, <1>3 DEF Next, Environment, EditHeaders, Terminated, vars

(* A module file is as it was, erased by a build in place or because it is out
   of date, begun in place, or what the instance that built it publishes.   *)
Publishes(p, m) ==
  LET f == Top(p) IN
  /\ At(p, "import") /\ f.todo = <<>> /\ Depth(p) > 1 /\ f.mod = m
  /\ ~f.err /\ pcm'[m] = Output(f)
Erases(p) == status[p] = "running" /\ (Top(p).direct \/ Top(p).pc = "evict")
FilesStep ==
  \A m \in Module :
    \/ pcm'[m] = pcm[m]
    \/ pcm'[m] = NoFile /\ hdr' = hdr /\ \E p \in Proc : Erases(p)
    \/ pcm'[m] = Torn /\ "temp" \in FaultKinds /\ faults' = faults + 1 /\ hdr' = hdr
    \/ hdr' = hdr /\ \E p \in Proc : EndOfModule(p) /\ Publishes(p, m)

(* Every step of the specification is a FilesStep.                          *)
LEMMA EveryFile == Typed /\ [Next]_vars => FilesStep
<1> SUFFICES ASSUME Typed, [Next]_vars PROVE FilesStep
  OBVIOUS
<1>0. pcm \in [Module -> Content \cup {NoFile, Torn}]
  BY DEF Typed, TypeOK
<1>1. ASSUME pcm' = pcm PROVE FilesStep
  BY <1>1 DEF FilesStep
<1>2. ASSUME NEW p \in Proc, LockOwned(p) PROVE FilesStep
  BY <1>0, <1>1, <1>2, LockOwnedFrames DEF FilesStep
<1>3. ASSUME NEW p \in Proc, EndOfModule(p) PROVE FilesStep
  <2> DEFINE f == Top(p)
             failed == f.err \/ <<f.mod, f.ver>> \in Bad
  <2>1. /\ At(p, "import") /\ f.todo = <<>> /\ Depth(p) > 1 /\ hdr' = hdr
        /\ status[p] = "running"
        /\ \/ pcm' = [pcm EXCEPT ![f.mod] = IF ~failed THEN Output(f)
                                            ELSE IF f.direct THEN NoFile ELSE @]
           \/ pcm' = pcm
    BY <1>3 DEF EndOfModule, At
  <2>2. CASE failed
    BY <1>0, <2>1, <2>2 DEF FilesStep, Erases
  <2>3. CASE ~failed /\ pcm' = [pcm EXCEPT ![f.mod] = Output(f)]
    BY <1>0, <1>3, <2>1, <2>3 DEF FilesStep, Publishes
  <2> QED
    BY <1>1, <2>1, <2>2, <2>3
<1>4. ASSUME NEW p \in Proc, BuildCrash(p) PROVE FilesStep
  <2>1. /\ pcm' = [pcm EXCEPT ![Top(p).mod] = IF Top(p).direct THEN NoFile ELSE @]
        /\ hdr' = hdr /\ status[p] = "running"
    BY <1>4 DEF BuildCrash
  <2> QED
    BY <1>0, <2>1 DEF FilesStep, Erases
<1>5. ASSUME NEW p \in Proc, Evict(p) PROVE FilesStep
  <2>1. pcm' = [pcm EXCEPT ![Cur(Top(p))] = NoFile] /\ hdr' = hdr /\ Erases(p)
    BY <1>5 DEF Evict, At, Erases
  <2> QED
    BY <1>0, <2>1 DEF FilesStep
<1>6. ASSUME NEW p \in Proc, Step(p) \/ LockFails(p) \/ WaitTimesOut(p) \/ Crash(p)
      PROVE  FilesStep
  BY <1>1, <1>2, <1>3, <1>5, <1>6
     DEF Step, ImportKnown, FindModuleFile, LockShared, WaitForUnlock, Unlock,
         Recheck, OpenAST, Validate, EndOfTU, LockFails, WaitTimesOut, Crash
<1> QED
  BY <1>1, <1>4, <1>6 DEF Next, Environment, EditHeaders, Terminated, vars

(* The headers change with nothing else, and only upwards.                  *)
LEMMA EveryHeader ==
  Typed /\ [Next]_vars =>
    \/ hdr' = hdr
    \/ /\ MayEdit /\ stack' = stack /\ pcm' = pcm
       /\ \A m \in Module : hdr[m] \in Nat /\ hdr'[m] \in Nat /\ hdr[m] <= hdr'[m]
<1> SUFFICES ASSUME Typed, [Next]_vars, hdr' # hdr
             PROVE  /\ MayEdit /\ stack' = stack /\ pcm' = pcm
                    /\ \A m \in Module : hdr[m] \in Nat /\ hdr'[m] \in Nat /\ hdr[m] <= hdr'[m]
  BY SMTT(30)
<1>1. ASSUME NEW p \in Proc,
             Step(p) \/ LockFails(p) \/ WaitTimesOut(p) \/ BuildCrash(p) \/ Crash(p)
      PROVE  hdr' = hdr
  BY <1>1 DEF Step, ImportKnown, FindModuleFile, LockOwned, LockShared,
              WaitForUnlock, EndOfModule, Unlock, Recheck, OpenAST, Validate, Evict,
              EndOfTU, LockFails, WaitTimesOut, BuildCrash, Crash
<1>2. PICK d \in Module : EditHeaders(d)
  BY <1>1 DEF Next, Environment, Terminated, vars
<1>3. hdr \in [Module -> Version]
  BY DEF Typed, TypeOK
<1>4. MayEdit /\ stack' = stack /\ pcm' = pcm
  BY <1>2 DEF EditHeaders
<1>5. hdr' = [hdr EXCEPT ![d] = hdr[d] + 1]
  BY <1>2 DEF EditHeaders
<1>6. \A m \in Module : hdr[m] \in Nat /\ hdr'[m] \in Nat /\ hdr[m] <= hdr'[m]
  <2> TAKE m \in Module
  <2>1. hdr[m] \in Nat
    BY <1>3, ConstantsOK
  <2>2. hdr'[m] = IF m = d THEN hdr[m] + 1 ELSE hdr[m]
    BY <1>3, <1>5
  <2> QED
    BY <2>1, <2>2
<1> QED
  BY <1>4, <1>6

-----------------------------------------------------------------------------
(* Module files are never replaced by older ones                           *)

(* A module's file is not from newer headers than there are, and as long as
   it is being built again not from newer ones than the new file will be.   *)
FilesNotNewer == \A m \in Module : pcm[m] \in Content => pcm[m].ver <= hdr[m]
BuildNotOlder(f) ==
  /\ f.ver <= hdr[f.mod]
  /\ f.pc # "unlock" /\ pcm[f.mod] \in Content => pcm[f.mod].ver <= f.ver
BuildsNotOlder == \A p \in Proc : \A i \in 2..Depth(p) : BuildNotOlder(stack[p][i])

OrderInv == LockInv /\ FilesNotNewer /\ BuildsNotOlder

(* After EndOfModule the instance that published waits to unlock.           *)
LEMMA EndOfModulePops ==
  ASSUME Typed, NEW p \in Proc, EndOfModule(p)
  PROVE  Depth(p)' = Depth(p) /\ stack'[p][Depth(p)].pc = "unlock"
<1> DEFINE f == Top(p)
           failed == f.err \/ <<f.mod, f.ver>> \in Bad
           g == [f EXCEPT !.pc = "unlock", !.err = failed]
<1>1. SetTop(p, g) /\ status[p] = "running" /\ status' = status
  BY DEF EndOfModule, At
<1>2. PICK h : Same(f, h) /\ SetTop(p, h)
  BY BuildLocal DEF Local
<1>3. /\ stack[p] \in Seq(Frame) /\ Depth(p) \in 1..Len(stack[p]) /\ f \in Frame
      /\ stack \in [Proc -> Seq(Frame)]
  BY <1>1, RunningTop DEF Depth, Typed, TypeOK
<1>4. Depth(p)' = Depth(p)
  BY <1>1, <1>2, SetTopFrames
<1>5. g.pc = "unlock"
  BY <1>3 DEF Frame
<1> HIDE DEF g
<1>6. stack'[p] = [stack[p] EXCEPT ![Depth(p)] = g]
  BY <1>1, <1>3 DEF SetTop
<1>7. [stack[p] EXCEPT ![Depth(p)] = g][Depth(p)] = g
  BY <1>3
<1> QED
  BY <1>4, <1>5, <1>6, <1>7

(* What is published is the work of the one instance that builds it.       *)
LEMMA PublisherUnique ==
  ASSUME LockInv, NEW m \in Module, NEW p \in Proc, EndOfModule(p), Publishes(p, m),
         NEW q \in Proc, NEW i \in 2..Depth(q), stack[q][i].mod = m
  PROVE  q = p /\ i = Depth(p) /\ stack'[q][i].pc = "unlock" /\ stack[q][i] = Top(p)
<1>1. Depth(p) \in 2..Depth(p) /\ stack[p][Depth(p)].mod = m
  BY DEF LockInv, Typed, TypeOK, Depth, Publishes, Top
<1>2. q = p
  BY <1>1 DEF LockInv, Locked
<1>3. i = Depth(p)
  BY <1>1, <1>2 DEF LockInv, Distinct
<1> QED
  BY <1>2, <1>3, EndOfModulePops DEF LockInv, Top

(* What is published is at least as new as what it replaces.                *)
LEMMA PublishedVersion ==
  ASSUME LockInv, BuildsNotOlder, NEW m \in Module, NEW p \in Proc,
         EndOfModule(p), Publishes(p, m)
  PROVE  /\ pcm'[m].ver = Top(p).ver /\ Top(p).ver <= hdr[m]
         /\ pcm[m] \in Content => pcm[m].ver <= Top(p).ver
<1>1. Depth(p) \in 2..Depth(p) /\ Top(p).mod = m /\ Top(p).pc = "import"
  BY DEF LockInv, Typed, TypeOK, Depth, Publishes, At
<1>2. BuildNotOlder(Top(p))
  BY <1>1 DEF BuildsNotOlder, Top
<1>3. pcm'[m].ver = Top(p).ver
  BY DEF Publishes, Output
<1> QED
  BY <1>1, <1>2, <1>3 DEF BuildNotOlder

(* The order of the versions holds at the start.                            *)
LEMMA InitOrder == Init => OrderInv
<1> SUFFICES ASSUME Init PROVE FilesNotNewer /\ BuildsNotOlder
  BY InitLocks DEF OrderInv
<1>1. FilesNotNewer
  BY ConstantsOK DEF Init, FilesNotNewer
<1>2. \A p \in Proc : Len(stack[p]) = 1
  BY DEF Init
<1> QED
  BY <1>1, <1>2 DEF BuildsNotOlder, Depth

(* Every step keeps the order of the versions.                              *)
LEMMA NextOrder == OrderInv /\ [Next]_vars => OrderInv'
<1> SUFFICES ASSUME OrderInv, [Next]_vars PROVE FilesNotNewer' /\ BuildsNotOlder'
  BY NextLocks DEF OrderInv
<1>1. Typed /\ Typed' /\ LockInv /\ FilesStep /\ InstancesStep
  BY NextTyped, EveryFile, EveryInstance DEF OrderInv, LockInv
<1>2. \A m \in Module : hdr[m] \in Nat /\ hdr'[m] \in Nat /\ hdr[m] <= hdr'[m]
  <2>1. \A m \in Module : hdr[m] \in Nat
    BY <1>1, ConstantsOK DEF Typed, TypeOK
  <2> QED
    BY <1>1, <2>1, EveryHeader
<1>3. \A m \in Module : pcm[m] \in Content => pcm[m].ver \in Nat
  BY ConstantsOK DEF Content
<1>4. ASSUME NEW m \in Module, pcm'[m] \in Content PROVE pcm'[m].ver <= hdr'[m]
  <2>1. CASE pcm'[m] = pcm[m]
    BY <1>2, <1>3, <1>4, <2>1 DEF OrderInv, FilesNotNewer
  <2>2. CASE hdr' = hdr /\ \E p \in Proc : EndOfModule(p) /\ Publishes(p, m)
    BY <1>1, <2>2, PublishedVersion DEF OrderInv
  <2> QED
    BY <1>1, <1>4, <2>1, <2>2, ConstantsOK DEF FilesStep
<1>5. ASSUME NEW q \in Proc, NEW i \in 2..Depth(q)'
      PROVE  BuildNotOlder(stack[q][i])'
  <2> DEFINE g == stack'[q][i]
             m == g.mod
  <2>1. m \in Module /\ g.ver \in Nat /\ i \in 1..Depth(q)'
    <3>1. Depth(q)' \in Nat
      BY <1>1 DEF Typed, TypeOK, Depth
    <3>2. i \in 1..Depth(q)' /\ i # 1
      BY <3>1
    <3>3. FrameOK(g) /\ m # TU
      BY <1>1, <3>2 DEF Typed, StackOK, FrameOK
    <3> QED
      BY <3>2, <3>3, ConstantsOK DEF FrameOK, Frame
  <2> SUFFICES /\ g.ver <= hdr'[m]
               /\ g.pc # "unlock" /\ pcm'[m] \in Content => pcm'[m].ver <= g.ver
    BY DEF BuildNotOlder
  (* An instance that was there before.                                    *)
  <2>2. ASSUME i \in 1..Depth(q), m = stack[q][i].mod, g.ver = stack[q][i].ver,
               g.pc # "unlock" => stack[q][i].pc # "unlock"
        PROVE  /\ g.ver <= hdr'[m]
               /\ g.pc # "unlock" /\ pcm'[m] \in Content => pcm'[m].ver <= g.ver
    <3>1. i \in 2..Depth(q) /\ BuildNotOlder(stack[q][i])
      BY <2>2 DEF OrderInv, BuildsNotOlder
    <3>2. g.ver <= hdr'[m]
      BY <1>2, <2>1, <2>2, <3>1 DEF BuildNotOlder
    <3>3. ASSUME g.pc # "unlock", pcm'[m] \in Content PROVE pcm'[m].ver <= g.ver
      <4>1. CASE pcm'[m] = pcm[m]
        BY <2>2, <3>1, <3>3, <4>1 DEF BuildNotOlder
      <4>2. CASE \E p \in Proc : EndOfModule(p) /\ Publishes(p, m)
        BY <1>1, <2>1, <2>2, <3>1, <3>3, <4>2, PublisherUnique
      <4> QED
        BY <1>1, <2>1, <3>3, <4>1, <4>2, ConstantsOK DEF FilesStep
    <3> QED
      BY <3>2, <3>3
  (* A new one: nobody else is building the module.                        *)
  <2>3. ASSUME hdr' = hdr, Begins(q, g)
        PROVE  /\ g.ver <= hdr'[m]
               /\ g.pc # "unlock" /\ pcm'[m] \in Content => pcm'[m].ver <= g.ver
    <3>1. m = Cur(Top(q)) /\ ~Held(m) /\ g.ver = hdr[m]
      BY <2>3 DEF Begins, NewInstance
    <3>2. g.ver <= hdr'[m]
      BY <1>2, <2>1, <2>3, <3>1
    <3>3. ASSUME pcm'[m] \in Content PROVE pcm'[m].ver <= g.ver
      <4>1. CASE pcm'[m] = pcm[m]
        BY <2>1, <3>1, <3>3, <4>1 DEF OrderInv, FilesNotNewer
      <4>2. CASE \E p \in Proc : EndOfModule(p) /\ Publishes(p, m)
        <5>1. PICK p \in Proc : Publishes(p, m)
          BY <4>2
        <5>2. Depth(p) \in 2..Depth(p) /\ stack[p][Depth(p)].mod = m
          BY <1>1, <5>1 DEF Typed, TypeOK, Depth, Publishes, Top
        <5> QED
          BY <1>1, <2>1, <3>1, <5>2, NotBuilt
      <4> QED
        BY <1>1, <2>1, <3>3, <4>1, <4>2, ConstantsOK DEF FilesStep
    <3> QED
      BY <3>2, <3>3
  <2>4. CASE stack'[q][i] = stack[q][i] /\ i \in 1..Depth(q)
    BY <2>2, <2>4
  <2>5. CASE i \in 1..Depth(q) /\ Turns(stack[q][i], stack'[q][i])
    BY <2>2, <2>5 DEF Turns, Steady, Same
  <2> QED
    BY <1>1, <2>1, <2>3, <2>4, <2>5 DEF InstancesStep
<1> QED
  BY <1>4, <1>5 DEF FilesNotNewer, BuildsNotOlder

(* A module file is never replaced by one built from older headers: the lock
   keeps other builds of the module away until the file is in place, and the
   headers do not go back.                                                  *)
THEOREM FilesNotReplacedByOlder == Spec => NeverReplacedByOlder
<1>1. OrderInv /\ [Next]_vars =>
        \A m \in Module :
          pcm[m] \in Content /\ pcm'[m] \in Content => pcm'[m].ver >= pcm[m].ver
  <2> SUFFICES ASSUME OrderInv, [Next]_vars, NEW m \in Module,
                      pcm[m] \in Content, pcm'[m] \in Content
               PROVE  pcm'[m].ver >= pcm[m].ver
    OBVIOUS
  <2>1. LockInv /\ FilesStep /\ pcm[m].ver \in Nat /\ pcm'[m].ver \in Nat
    BY EveryFile, ConstantsOK DEF OrderInv, LockInv, Content
  <2>2. CASE \E p \in Proc : EndOfModule(p) /\ Publishes(p, m)
    BY <2>1, <2>2, PublishedVersion DEF OrderInv
  <2>3. CASE pcm'[m] = pcm[m]
    BY <2>1, <2>3
  <2> QED
    BY <2>1, <2>2, <2>3, ConstantsOK DEF FilesStep
<1> QED
  BY <1>1, InitOrder, NextOrder, PTL DEF Spec, NeverReplacedByOlder

-----------------------------------------------------------------------------
(* The module files an instance is reading                                 *)

Loaded(f) == {m \in Module : f.chain[m] # NoFile}

Block == [m : Module, left : SUBSET Module]

(* Only a ReadAST has control blocks open, of files it has added, the one
   imported outermost; what is imported is loaded for good.                 *)
Reading(f) ==
  /\ f.pc \notin {"read", "unlock"} => f.rd = <<>>
  /\ f.rd = <<>> => f.fresh = {}
  /\ f.rd # <<>> => f.rd[1].m = Cur(f)
  /\ \A k \in 1..Len(f.rd) : f.rd[k].m \in f.fresh
  /\ f.fresh \subseteq Loaded(f)
  /\ f.imps \subseteq Loaded(f) \ f.fresh

(* Advance ticks one file off in the innermost control block.               *)
LEMMA AdvanceFields ==
  ASSUME NEW rd \in Seq(Block), rd # <<>>, NEW m
  PROVE  /\ Advance(rd, m) # <<>> /\ Len(Advance(rd, m)) = Len(rd)
         /\ \A k \in 1..Len(rd) : /\ Advance(rd, m)[k].m = rd[k].m
                                  /\ rd[k].left \subseteq Advance(rd, m)[k].left \cup {m}
                                  /\ Advance(rd, m)[k].left \subseteq rd[k].left
<1> DEFINE n == Len(rd)
           e == [m |-> rd[n].m, left |-> rd[n].left \ {m}]
           s == [rd EXCEPT ![n] = e]
<1>1. n \in Nat /\ n # 0 /\ n \in 1..n
  BY EmptySeq, LenProperties
<1>2. rd[n] \in Block
  BY <1>1, ElementOfSeq
<1>3. /\ e \in Block /\ e.m = rd[n].m /\ rd[n].left \subseteq e.left \cup {m}
      /\ e.left \subseteq rd[n].left
  BY <1>2 DEF Block
<1>4. Advance(rd, m) = s
  BY DEF Advance, Last
<1> HIDE DEF e
<1>5. /\ s \in Seq(Block) /\ Len(s) = n
      /\ \A k \in 1..n : s[k] = IF k = n THEN e ELSE rd[k]
  BY <1>1, <1>3, ExceptSeq
<1> HIDE DEF s
<1>6. s # <<>>
  BY <1>1, <1>5, EmptySeq
<1> QED
  BY <1>3, <1>4, <1>5, <1>6

(* The control blocks of an instance are a sequence.                        *)
LEMMA FrameRd ==
  ASSUME NEW f, FrameOK(f)
  PROVE  f.rd \in Seq(Block) /\ Len(f.rd) \in Nat /\ (f.rd = <<>> <=> Len(f.rd) = 0)
<1> DEFINE s == f.rd
<1>1. s \in Seq(Block)
  BY DEF FrameOK, Frame, Block
<1> HIDE DEF s
<1> QED
  BY <1>1, EmptySeq DEF s

(* The control blocks left when a file is through are those under it.      *)
LEMMA FrontRd ==
  ASSUME NEW f, FrameOK(f), f.rd # <<>>
  PROVE  /\ Front(f.rd) \in Seq(Block) /\ Len(Front(f.rd)) = Len(f.rd) - 1
         /\ (Front(f.rd) = <<>>) = (Len(f.rd) = 1)
         /\ \A k \in 1..Len(Front(f.rd)) : Front(f.rd)[k] = f.rd[k]
<1> DEFINE s == f.rd
           r == Front(s)
<1>1. s \in Seq(Block) /\ Len(s) \in Nat /\ Len(s) # 0
  BY FrameRd
<1> HIDE DEF s
<1>2. /\ r \in Seq(Block) /\ Len(r) = Len(s) - 1
      /\ \A k \in 1..Len(s) - 1 : r[k] = s[k]
  BY <1>1, FrontTyped
<1> HIDE DEF r
<1>3. r = <<>> <=> Len(r) = 0
  BY <1>2, EmptySeq
<1> QED
  BY <1>1, <1>2, <1>3 DEF r, s

(* Reading survives the end of a file,                                      *)
LEMMA FinishesReading ==
  ASSUME NEW f, FrameOK(f), Reading(f), f.pc = "read",
         NEW g, NEW m, NEW r \in Seq(Block), Finishes(f, g, m, r),
         \A k \in 1..Len(r) : k \in 1..Len(f.rd) /\ r[k] = f.rd[k],
         r = <<>> => Cur(f) \in Module /\ f.chain[Cur(f)] # NoFile
  PROVE  Reading(g)
<1>1. CASE r = <<>>
  <2>1. /\ g.chain = f.chain /\ g.rd = <<>> /\ g.fresh = {} /\ g.imps = f.imps \cup {Cur(f)}
    BY <1>1 DEF Finishes
  <2>2. Len(<<>>) = 0
    BY EmptySeq
  <2> QED
    BY <1>1, <2>1, <2>2 DEF Reading, Loaded
<1>2. CASE r # <<>>
  <2>1. /\ g.chain = f.chain /\ g.rd = Advance(r, m) /\ g.fresh = f.fresh
        /\ g.imps = f.imps /\ g.todo = f.todo /\ g.pc = f.pc
    BY <1>2 DEF Finishes
  <2>2. /\ g.rd # <<>> /\ Len(g.rd) = Len(r)
        /\ \A k \in 1..Len(r) : g.rd[k].m = r[k].m
    BY <1>2, <2>1, AdvanceFields
  <2>3. 1 \in 1..Len(r)
    BY <1>2, EmptySeq
  <2>4. f.rd # <<>>
    BY <2>3, EmptySeq
  <2> QED
    BY <2>1, <2>2, <2>3, <2>4 DEF Reading, Loaded, Cur
<1> QED
  BY <1>1, <1>2

(* a ReadAST that fails,                                                    *)
LEMMA DropsReading ==
  ASSUME NEW f, FrameOK(f), Reading(f), NEW g, Drops(f, g)
  PROVE  Reading(g)
<1>1. Len(<<>>) = 0
  BY EmptySeq
<1> QED
  BY <1>1 DEF Drops, Reading, Loaded

(* the start of a new file,                                                 *)
LEMMA OpensReading ==
  ASSUME NEW f, FrameOK(f), Reading(f), NEW g, Opens(f, g)
  PROVE  Reading(g)
<1>1. PICK m \in Targets(f) :
        /\ m \in Module /\ f.chain[m] = NoFile /\ pcm[m] \in Content
        /\ g.chain = [f.chain EXCEPT ![m] = pcm[m]]
        /\ g.fresh = f.fresh \cup {m}
        /\ g.rd = Append(f.rd, [m |-> m, left |-> pcm[m].imps])
  BY DEF Opens
<1> DEFINE e == [m |-> m, left |-> pcm[m].imps]
<1>2. e \in Block /\ e.m = m
  BY <1>1 DEF Block, Content
<1> HIDE DEF e
<1>3. f.rd \in Seq(Block) /\ Len(f.rd) \in Nat
  BY FrameRd
<1>4. /\ Append(f.rd, e) \in Seq(Block) /\ Len(Append(f.rd, e)) = Len(f.rd) + 1
      /\ \A k \in 1..Len(f.rd) : Append(f.rd, e)[k] = f.rd[k]
      /\ Append(f.rd, e)[Len(f.rd) + 1] = e
  BY <1>2, <1>3, AppendProperties
<1>5. /\ g.pc = "read" /\ g.todo = f.todo /\ g.imps = f.imps /\ g.rd = Append(f.rd, e)
  BY <1>1 DEF Opens, e
<1>6. Append(f.rd, e) # <<>>
  <2> DEFINE r == Append(f.rd, e)
  <2>1. Len(r) # 0
    BY <1>3, <1>4
  <2> HIDE DEF r
  <2>2. r # <<>>
    BY <2>1, EmptySeq
  <2> QED
    BY <2>2 DEF r
<1>7. g.rd[1].m = Cur(g)
  <2>1. CASE f.rd = <<>>
    <3>1. m = Cur(f) /\ Len(f.rd) = 0
      BY <1>1, <2>1, FrameRd DEF Targets
    <3> QED
      BY <1>2, <1>4, <1>5, <3>1 DEF Cur
  <2>2. CASE f.rd # <<>>
    <3>1. 1 \in 1..Len(f.rd)
      BY <2>2, FrameRd
    <3> QED
      BY <1>4, <1>5, <2>2, <3>1 DEF Reading, Cur
  <2> QED
    BY <2>1, <2>2
<1>8. f.chain \in [Module -> Content \cup {NoFile}]
  BY DEF FrameOK, Frame
<1>9. Loaded(g) = Loaded(f) \cup {m}
  BY <1>1, <1>8, ConstantsOK DEF Loaded
<1>10. \A k \in 1..Len(g.rd) : g.rd[k].m \in g.fresh
  <2> TAKE k \in 1..Len(g.rd)
  <2>1. CASE k = Len(f.rd) + 1
    BY <1>1, <1>2, <1>4, <1>5, <2>1
  <2>2. CASE k # Len(f.rd) + 1
    <3>1. k \in 1..Len(f.rd)
      BY <1>3, <1>4, <1>5, <2>2
    <3> QED
      BY <1>1, <1>4, <1>5, <3>1 DEF Reading
  <2> QED
    BY <2>1, <2>2
<1>11. m \notin Loaded(f)
  BY <1>1 DEF Loaded
<1> QED
  BY <1>1, <1>5, <1>6, <1>7, <1>9, <1>10, <1>11 DEF Reading

(* and so every step of an instance.                                        *)
LEMMA TurnsReading ==
  ASSUME NEW f, FrameOK(f), Reading(f), NEW g, Turns(f, g)
  PROVE  Reading(g)
<1>1. Steady(f, g) /\ FrameOK(g)
  BY DEF Turns, Steady, Same
<1>2. CASE Moves(f, g)
  BY <1>1, <1>2 DEF Moves, Holds, Steady, Reading, Loaded, Cur
<1>3. CASE Skips(f, g)
  BY <1>3 DEF Skips, Holds, Reading, Loaded
<1>4. CASE GivesUp(f, g)
  <2>1. CASE Holds(f, g) /\ f.pc # "read"
    BY <1>1, <1>4, <2>1 DEF GivesUp, Holds, Steady, Reading, Loaded
  <2> QED
    BY <1>4, <2>1, DropsReading DEF GivesUp
<1>5. CASE Rejects(f, g)
  BY <1>5, DropsReading DEF Rejects
<1>6. CASE Opens(f, g)
  BY <1>6, OpensReading
<1>7. CASE Passes(f, g)
  <2>1. PICK m \in Targets(f) : m \in Module /\ f.chain[m] # NoFile /\ Finishes(f, g, m, f.rd)
    BY <1>7 DEF Passes
  <2>2. f.rd = <<>> => m = Cur(f)
    BY <2>1 DEF Targets
  <2> QED
    BY <1>7, <2>1, <2>2, FrameRd, FinishesReading DEF Passes
<1>8. CASE Accepts(f, g)
  <2>1. /\ f.rd # <<>> /\ f.pc = "read"
        /\ Finishes(f, g, Last(f.rd).m, Front(f.rd))
    BY <1>8 DEF Accepts
  <2>2. f.rd[1].m = Cur(f) /\ 1 \in 1..Len(f.rd)
    BY <2>1, FrameRd DEF Reading
  <2>3. Cur(f) \in Module /\ f.chain[Cur(f)] # NoFile
    BY <2>2 DEF Reading, Loaded
  <2>4. /\ Front(f.rd) \in Seq(Block)
        /\ \A k \in 1..Len(Front(f.rd)) : k \in 1..Len(f.rd) /\ Front(f.rd)[k] = f.rd[k]
    BY <2>1, FrontRd, FrameRd
  <2> QED
    BY <2>1, <2>3, <2>4, FinishesReading
<1> QED
  BY <1>2, <1>3, <1>4, <1>5, <1>6, <1>7, <1>8 DEF Turns

ReadingInv == \A p \in Proc : \A i \in 1..Depth(p) : Reading(stack[p][i])

(* Every instance has its type.                                             *)
LEMMA TypedFrames ==
  ASSUME Typed
  PROVE  \A p \in Proc : Depth(p) \in Nat /\ \A i \in 1..Depth(p) : FrameOK(stack[p][i])
BY DEF Typed, TypeOK, StackOK, Depth

(* A new instance has loaded nothing.                                      *)
LEMMA NewInstanceFields ==
  ASSUME NEW m, NEW v, NEW s, NEW d
  PROVE  LET g == NewInstance(m, v, s, d) IN
         /\ g.mod = m /\ g.ver = v /\ g.direct = d /\ g.pc = "import" /\ g.todo = s
         /\ g.rd = <<>> /\ Len(g.rd) = 0 /\ g.fresh = {} /\ g.imps = {}
         /\ g.why = "cached" /\ ~g.err
         /\ \A x \in Module : /\ g.chain[x] = NoFile /\ g.known[x] = "unknown"
                              /\ g.fm[x] = "unseen"
BY EmptySeq DEF NewInstance

(* An instance that begins to build has loaded and answered nothing.        *)
LEMMA BeginsFields ==
  ASSUME NEW q, NEW g, Begins(q, g)
  PROVE  LET m == Cur(Top(q)) IN
         /\ m \in Module \ NoMap /\ g.mod = m /\ g.ver = hdr[m] /\ g.todo = Imports[m]
         /\ g.direct => "temp" \in FaultKinds /\ faults' = faults + 1
         /\ g.pc = "import" /\ g.rd = <<>> /\ Len(g.rd) = 0 /\ g.fresh = {} /\ g.imps = {}
         /\ g.why = "cached" /\ ~g.err
         /\ \A x \in Module : /\ g.chain[x] = NoFile /\ g.known[x] = "unknown"
                              /\ g.fm[x] = "unseen"
<1> DEFINE m == Cur(Top(q))
<1>1. PICK d \in BOOLEAN : /\ g = NewInstance(m, hdr[m], Imports[m], d)
                           /\ d => "temp" \in FaultKinds /\ faults' = faults + 1
  BY DEF Begins
<1>2. m \in Module \ NoMap
  BY DEF Begins
<1> HIDE DEF m
<1> QED
  BY <1>1, <1>2, NewInstanceFields DEF m

(* Nor has the instance of a translation unit at the start.                 *)
LEMMA InitInstances ==
  ASSUME Init, NEW p \in Proc, NEW i \in 1..Depth(p)
  PROVE  LET g == stack[p][i] IN
         /\ i = 1 /\ g.mod = TU /\ ~g.direct /\ g.pc = "import"
         /\ g.rd = <<>> /\ Len(g.rd) = 0 /\ g.fresh = {} /\ g.imps = {}
         /\ g.why = "cached" /\ ~g.err
         /\ \A x \in Module : /\ g.chain[x] = NoFile /\ g.known[x] = "unknown"
                              /\ g.fm[x] = "unseen"
<1> DEFINE g == NewInstance(TU, 1, TUImports[p], FALSE)
<1>1. stack[p] = <<g>>
  BY DEF Init
<1>2. /\ g.mod = TU /\ ~g.direct /\ g.pc = "import"
      /\ g.rd = <<>> /\ Len(g.rd) = 0 /\ g.fresh = {} /\ g.imps = {}
      /\ g.why = "cached" /\ ~g.err
      /\ \A x \in Module : /\ g.chain[x] = NoFile /\ g.known[x] = "unknown"
                           /\ g.fm[x] = "unseen"
  BY EmptySeq DEF NewInstance
<1> HIDE DEF g
<1>3. Len(stack[p]) = 1 /\ stack[p][1] = g
  BY <1>1
<1>4. i = 1
  BY <1>3 DEF Depth
<1> QED
  BY <1>2, <1>3, <1>4

(* Every step keeps ReadingInv.                                             *)
LEMMA NextReading == Typed /\ ReadingInv /\ [Next]_vars => ReadingInv'
<1> SUFFICES ASSUME Typed, ReadingInv, [Next]_vars,
                    NEW q \in Proc, NEW i \in 1..Depth(q)'
             PROVE  Reading(stack'[q][i])
  BY DEF ReadingInv
<1> DEFINE g == stack'[q][i]
<1>1. ASSUME i \in 1..Depth(q), Turns(stack[q][i], g) PROVE Reading(g)
  BY <1>1, TypedFrames, TurnsReading DEF ReadingInv
<1>2. ASSUME Begins(q, g) PROVE Reading(g)
  BY <1>2, BeginsFields DEF Reading, Loaded
<1> QED
  BY <1>1, <1>2, EveryInstance DEF InstancesStep, ReadingInv

(* ReadingInv holds at the start.                                           *)
LEMMA InitReading == Init => ReadingInv
<1> SUFFICES ASSUME Init, NEW p \in Proc, NEW i \in 1..Depth(p)
             PROVE  Reading(stack[p][i])
  BY DEF ReadingInv
<1> QED
  BY InitInstances DEF Reading, Loaded

-----------------------------------------------------------------------------
(* No module file older than the headers is used                           *)

(* What an instance has read to the end of m's control block, or loaded for
   good, is m's headers in version v or a later one.                        *)
Validated(f, m, v) ==
  f.chain[m] # NoFile /\ (m \notin f.fresh \/ \A k \in 1..Len(f.rd) : f.rd[k].m # m)
    => f.chain[m].ver >= v

(* Every step of an instance keeps what it has validated.                   *)
LEMMA TurnsValidated ==
  ASSUME NEW m \in Module, NEW v, hdr[m] >= v,
         NEW f, FrameOK(f), Reading(f), Validated(f, m, v), NEW g, Turns(f, g)
  PROVE  Validated(g, m, v)
<1>1. ASSUME Holds(f, g) PROVE Validated(g, m, v)
  BY <1>1 DEF Holds, Validated
<1>2. ASSUME Drops(f, g) PROVE Validated(g, m, v)
  BY <1>2 DEF Drops, Validated
<1>3. CASE Opens(f, g)
  <2>1. PICK d \in Targets(f) :
          /\ d \in Module /\ f.chain[d] = NoFile /\ pcm[d] \in Content
          /\ g.chain = [f.chain EXCEPT ![d] = pcm[d]]
          /\ g.fresh = f.fresh \cup {d}
          /\ g.rd = Append(f.rd, [m |-> d, left |-> pcm[d].imps])
    BY <1>3 DEF Opens
  <2> DEFINE e == [m |-> d, left |-> pcm[d].imps]
  <2>2. e \in Block /\ e.m = d /\ g.rd = Append(f.rd, e)
    BY <2>1 DEF Block, Content
  <2> HIDE DEF e
  <2>3. f.rd \in Seq(Block) /\ Len(f.rd) \in Nat
    BY FrameRd
  <2>4. /\ Len(g.rd) = Len(f.rd) + 1 /\ g.rd[Len(f.rd) + 1] = e
        /\ \A k \in 1..Len(f.rd) : g.rd[k] = f.rd[k]
    BY <2>2, <2>3, AppendProperties
  <2>5. f.chain \in [Module -> Content \cup {NoFile}]
    BY DEF FrameOK, Frame
  <2>6. CASE m = d
    <3>1. Len(f.rd) + 1 \in 1..Len(g.rd) /\ m \in g.fresh
      BY <2>1, <2>3, <2>4, <2>6
    <3> QED
      BY <2>2, <2>4, <2>6, <3>1 DEF Validated
  <2>7. CASE m # d
    <3>1. g.chain[m] = f.chain[m] /\ (m \in g.fresh <=> m \in f.fresh)
      BY <2>1, <2>5, <2>7
    <3>2. \A k \in 1..Len(f.rd) : k \in 1..Len(g.rd) /\ g.rd[k] = f.rd[k]
      BY <2>3, <2>4
    <3> QED
      BY <3>1, <3>2 DEF Validated
  <2> QED
    BY <2>6, <2>7
<1>4. CASE Passes(f, g)
  <2>1. PICK d \in Targets(f) : Finishes(f, g, d, f.rd)
    BY <1>4 DEF Passes
  <2>2. CASE f.rd = <<>>
    <3>1. f.fresh = {} /\ g.chain = f.chain
      BY <2>1, <2>2 DEF Finishes, Reading
    <3> QED
      BY <3>1 DEF Validated
  <2>3. CASE f.rd # <<>>
    <3>1. g.chain = f.chain /\ g.fresh = f.fresh /\ g.rd = Advance(f.rd, d)
      BY <2>1, <2>3 DEF Finishes
    <3>2. Len(g.rd) = Len(f.rd) /\ \A k \in 1..Len(f.rd) : g.rd[k].m = f.rd[k].m
      BY <2>3, <3>1, FrameRd, AdvanceFields
    <3> QED
      BY <3>1, <3>2 DEF Validated
  <2> QED
    BY <2>2, <2>3
<1>5. CASE Accepts(f, g)
  <2> DEFINE n == Len(f.rd)
             d == f.rd[n].m
  <2>1. /\ f.rd # <<>> /\ f.chain[d].ver = hdr[d] /\ Finishes(f, g, d, Front(f.rd))
    BY <1>5 DEF Accepts, Last, UpToDate
  <2>2. n \in Nat \ {0} /\ f.rd \in Seq(Block)
    BY <2>1, FrameRd
  <2>3. /\ Front(f.rd) \in Seq(Block) /\ Len(Front(f.rd)) = n - 1
        /\ (Front(f.rd) = <<>>) = (n = 1)
        /\ \A k \in 1..n - 1 : Front(f.rd)[k] = f.rd[k]
    BY <2>1, FrontRd
  <2>4. g.chain = f.chain
    BY <2>1 DEF Finishes
  <2>5. CASE m = d
    BY <2>1, <2>4, <2>5 DEF Validated
  <2>6. CASE m # d
    <3>1. CASE n = 1
      <4>1. \A k \in 1..Len(f.rd) : f.rd[k].m # m
        BY <2>6, <3>1
      <4> QED
        BY <2>4, <4>1 DEF Validated
    <3>2. CASE n # 1
      <4> DEFINE r == Front(f.rd)
      <4>1. r # <<>> /\ g.fresh = f.fresh /\ g.rd = Advance(r, d)
        BY <2>1, <2>3, <3>2 DEF Finishes
      <4>2. r \in Seq(Block) /\ Len(r) = n - 1 /\ \A k \in 1..n - 1 : r[k] = f.rd[k]
        BY <2>3
      <4> HIDE DEF r
      <4>3. Len(g.rd) = n - 1 /\ \A k \in 1..n - 1 : g.rd[k].m = f.rd[k].m
        BY <4>1, <4>2, AdvanceFields
      <4>4. ASSUME \A k \in 1..Len(g.rd) : g.rd[k].m # m
            PROVE  \A k \in 1..Len(f.rd) : f.rd[k].m # m
        <5> TAKE k \in 1..Len(f.rd)
        <5>1. k = n \/ k \in 1..n - 1
          BY <2>2
        <5> QED
          BY <2>6, <4>3, <4>4, <5>1
      <4> QED
        BY <2>4, <4>1, <4>4 DEF Validated
    <3> QED
      BY <3>1, <3>2
  <2> QED
    BY <2>5, <2>6
<1> QED
  BY <1>1, <1>2, <1>3, <1>4, <1>5 DEF Turns, Moves, Skips, GivesUp, Rejects

AtLeast(m, v) ==
  /\ Typed /\ ReadingInv /\ hdr[m] >= v
  /\ \A p \in Proc : \A i \in 1..Depth(p) : Validated(stack[p][i], m, v)

(* Every step of the specification does.                                    *)
LEMMA NextAtLeast ==
  ASSUME NEW m \in Module, NEW v \in Version
  PROVE  AtLeast(m, v) /\ [Next]_vars => AtLeast(m, v)'
<1> SUFFICES ASSUME AtLeast(m, v), [Next]_vars PROVE AtLeast(m, v)'
  OBVIOUS
<1>1. Typed' /\ ReadingInv' /\ InstancesStep
  BY NextTyped, NextReading, EveryInstance DEF AtLeast
<1>2. hdr'[m] >= v
  <2>1. v \in Nat /\ hdr[m] \in Nat
    BY ConstantsOK DEF AtLeast, Typed, TypeOK
  <2> QED
    BY <2>1, EveryHeader DEF AtLeast
<1>3. ASSUME NEW q \in Proc, NEW i \in 1..Depth(q)'
      PROVE  Validated(stack'[q][i], m, v)
  <2>1. ASSUME i \in 1..Depth(q), Turns(stack[q][i], stack'[q][i])
        PROVE  Validated(stack'[q][i], m, v)
    BY <2>1, TypedFrames, TurnsValidated DEF AtLeast, ReadingInv
  <2>2. ASSUME Begins(q, stack'[q][i]) PROVE Validated(stack'[q][i], m, v)
    BY <2>2, BeginsFields DEF Validated
  <2> QED
    BY <1>1, <2>1, <2>2 DEF InstancesStep, AtLeast
<1> QED
  BY <1>1, <1>2, <1>3 DEF AtLeast

(* A compilation never uses a module file older than the headers were when
   it started, however stale the cache is, whatever is edited meanwhile and
   whatever fails.                                                          *)
THEOREM NothingStaleLoaded == Spec => LoadedNotOlder
<1>1. ASSUME NEW CONSTANT m \in Module, NEW CONSTANT v \in Version
      PROVE  Spec => (hdr[m] >= v => []LoadedAtLeast(m, v))
  <2>1. Init /\ hdr[m] >= v => AtLeast(m, v)
    <3> SUFFICES ASSUME Init, NEW p \in Proc, NEW i \in 1..Depth(p)
                 PROVE  Validated(stack[p][i], m, v)
      BY InitTyped, InitReading DEF AtLeast
    <3> QED
      BY InitInstances DEF Validated
  <2>2. AtLeast(m, v) /\ [Next]_vars => AtLeast(m, v)'
    BY NextAtLeast
  <2>3. AtLeast(m, v) => LoadedAtLeast(m, v)
    BY DEF AtLeast, LoadedAtLeast, Instances, Instance, Validated
  <2> QED
    BY <2>1, <2>2, <2>3, PTL DEF Spec
<1> QED
  BY <1>1 DEF LoadedNotOlder

-----------------------------------------------------------------------------
(* Caches that are up to date, while nobody edits headers                  *)

Needs(m) == ToSet(Imports[m]) \ {m}

(* A module file that was built from the headers there are.                *)
FileOK(file, m) == file.ver = hdr[m] /\ file.imps = Needs(m)
FilesSound == \A m \in Module : pcm[m] \in Content => FileOK(pcm[m], m)

(* An instance has loaded such files only, and rebuilds nothing.           *)
LoadsSound(f) ==
  /\ f.why # "rebuild" /\ f.pc # "evict"
  /\ \A m \in Module : f.chain[m] # NoFile => FileOK(f.chain[m], m)

(* KnownModules says null of what is an error, ok of what is imported.     *)
AnswersSound(f) ==
  \A m \in Module : /\ f.known[m] = "null" => f.err
                    /\ f.known[m] = "ok" => m \in f.imps \cup {f.mod}

(* An instance that builds a module has imported what the headers before its
   current import import, unless it has an error.                           *)
BuildSound(f) ==
  f.mod # TU =>
    /\ f.ver = hdr[f.mod]
    /\ f.imps \subseteq Needs(f.mod) /\ ToSet(f.todo) \subseteq ToSet(Imports[f.mod])
    /\ f.err \/ Needs(f.mod) \subseteq f.imps \cup ToSet(f.todo)

Sound(f) == LoadsSound(f) /\ AnswersSound(f) /\ BuildSound(f)
SoundInv == /\ Typed /\ ReadingInv /\ FilesSound
            /\ \A p \in Proc : \A i \in 1..Depth(p) : Sound(stack[p][i])

(* A sequence holds its head and what its tail holds.                       *)
LEMMA TailSet ==
  ASSUME NEW S, NEW s \in Seq(S), s # <<>>
  PROVE  ToSet(s) = ToSet(Tail(s)) \cup {Head(s)}
<1> DEFINE t == Tail(s)
<1>1. /\ Len(s) \in Nat \ {0} /\ Len(t) = Len(s) - 1 /\ t \in Seq(S)
      /\ \A k \in 1..Len(s) - 1 : t[k] = s[k + 1]
      /\ Head(s) = s[1]
  BY HeadTailProperties, EmptySeq
<1> HIDE DEF t
<1>2. DOMAIN s = 1..Len(s) /\ DOMAIN t = 1..Len(s) - 1
  BY <1>1, LenProperties
<1>3. ToSet(s) = {s[k] : k \in 1..Len(s)} /\ ToSet(t) = {t[k] : k \in 1..Len(s) - 1}
  BY <1>2 DEF ToSet
<1>4. ASSUME NEW x \in ToSet(s) PROVE x \in ToSet(t) \cup {Head(s)}
  <2>1. PICK k \in 1..Len(s) : x = s[k]
    BY <1>3
  <2>2. CASE k = 1
    BY <1>1, <2>1, <2>2
  <2>3. CASE k # 1
    <3>1. k - 1 \in 1..Len(s) - 1 /\ k - 1 + 1 = k
      BY <1>1, <2>3
    <3> QED
      BY <1>1, <1>3, <2>1, <3>1
  <2> QED
    BY <2>2, <2>3
<1>5. ASSUME NEW x \in ToSet(t) \cup {Head(s)} PROVE x \in ToSet(s)
  <2>1. CASE x = Head(s)
    BY <1>1, <1>3, <2>1
  <2>2. CASE x \in ToSet(t)
    <3>1. PICK k \in 1..Len(s) - 1 : x = t[k]
      BY <1>3, <2>2
    <3>2. k + 1 \in 1..Len(s)
      BY <1>1
    <3> QED
      BY <1>1, <1>3, <3>1, <3>2
  <2> QED
    BY <2>1, <2>2
<1> QED
  BY <1>4, <1>5 DEF t

(* The imports to do are the current one and the others.                    *)
LEMMA CurSet ==
  ASSUME NEW f, FrameOK(f), f.todo # <<>>
  PROVE  ToSet(f.todo) = ToSet(Tail(f.todo)) \cup {Cur(f)}
<1> DEFINE s == f.todo
<1>1. s \in Seq(Module)
  BY DEF FrameOK, Frame
<1> HIDE DEF s
<1>2. s # <<>> => ToSet(s) = ToSet(Tail(s)) \cup {Head(s)}
  BY <1>1, TailSet
<1> QED
  BY <1>2 DEF s, Cur

(* A current import that is done with has been imported or is an error.    *)
LEMMA BuildStep ==
  ASSUME NEW f, FrameOK(f), BuildSound(f), NEW g, Steady(f, g),
         f.imps \subseteq g.imps,
         f.mod # TU => g.imps \subseteq f.imps \cup Needs(f.mod),
         \/ g.todo = f.todo
         \/ f.todo # <<>> /\ (g.err \/ Cur(f) \in g.imps \cup {f.mod})
  PROVE  BuildSound(g)
<1>1. g.mod = f.mod /\ g.ver = f.ver /\ (f.err => g.err)
      /\ (g.todo = f.todo \/ g.todo = Tail(f.todo))
  BY DEF Steady, Same
<1> SUFFICES ASSUME f.mod # TU
             PROVE  /\ ToSet(g.todo) \subseteq ToSet(Imports[f.mod])
                    /\ g.err \/ Needs(f.mod) \subseteq g.imps \cup ToSet(g.todo)
  BY <1>1 DEF BuildSound
<1>2. CASE g.todo = f.todo
  BY <1>1, <1>2 DEF BuildSound
<1>3. CASE g.todo = Tail(f.todo) /\ f.todo # <<>> /\ (g.err \/ Cur(f) \in g.imps \cup {f.mod})
  <2>1. ToSet(f.todo) = ToSet(g.todo) \cup {Cur(f)}
    BY <1>3, CurSet
  <2>2. f.mod \notin Needs(f.mod)
    BY DEF Needs
  <2> QED
    BY <1>1, <1>3, <2>1, <2>2 DEF BuildSound
<1> QED
  BY <1>1, <1>2, <1>3

(* What is being read is imported by the headers being built.               *)
LEMMA CurNeeded ==
  ASSUME NEW f, FrameOK(f), BuildSound(f), f.pc = "read"
  PROVE  /\ f.todo # <<>> /\ Cur(f) \in Module /\ Cur(f) # f.mod
         /\ f.mod # TU => Cur(f) \in Needs(f.mod)
<1>1. f.todo # <<>> /\ Cur(f) # f.mod
  BY DEF FrameOK
<1>2. Cur(f) \in ToSet(f.todo) /\ Cur(f) \in Module
  BY <1>1, CurSet, CurOK
<1> QED
  BY <1>1, <1>2 DEF BuildSound, Needs

(* The file a ReadAST is through with is not what changes what is sound.   *)
LEMMA FinishesSound ==
  ASSUME NEW f, FrameOK(f), Sound(f), f.pc = "read", NEW g, Steady(f, g),
         NEW m, NEW r, Finishes(f, g, m, r)
  PROVE  Sound(g)
<1>1. /\ f.todo # <<>> /\ Cur(f) \in Module /\ Cur(f) # f.mod
      /\ f.mod # TU => Cur(f) \in Needs(f.mod)
  BY CurNeeded DEF Sound
<1>2. g.why # "rebuild" /\ g.chain = f.chain /\ (f.err => g.err) /\ g.mod = f.mod
  BY DEF Steady, Same, Finishes, Sound, LoadsSound
<1>3. CASE r = <<>>
  <2>1. /\ g.imps = f.imps \cup {Cur(f)} /\ g.pc = "import"
        /\ g.known = [f.known EXCEPT ![Cur(f)] = "ok"]
    BY <1>3 DEF Finishes
  <2>2. LoadsSound(g)
    BY <1>2, <2>1 DEF Sound, LoadsSound
  <2>3. AnswersSound(g)
    <3>1. f.known \in [Module -> {"unknown", "ok", "null"}]
      BY DEF FrameOK, Frame
    <3> QED
      BY <1>2, <2>1, <3>1 DEF Sound, AnswersSound
  <2>4. BuildSound(g)
    BY <1>1, <2>1, BuildStep DEF Sound
  <2> QED
    BY <2>2, <2>3, <2>4 DEF Sound
<1>4. CASE r # <<>>
  <2>1. /\ g.imps = f.imps /\ g.pc = f.pc /\ g.known = f.known /\ g.todo = f.todo
    BY <1>4 DEF Finishes
  <2>2. LoadsSound(g) /\ AnswersSound(g)
    BY <1>2, <2>1 DEF Sound, LoadsSound, AnswersSound
  <2>3. BuildSound(g)
    BY <2>1, BuildStep DEF Sound
  <2> QED
    BY <2>2, <2>3 DEF Sound
<1> QED
  BY <1>3, <1>4

(* Every step of an instance keeps it sound.                                *)
LEMMA TurnsSound ==
  ASSUME FilesSound, NEW f, FrameOK(f), Reading(f), Sound(f), NEW g, Turns(f, g)
  PROVE  Sound(g)
<1>1. /\ Steady(f, g) /\ g.why # "rebuild" /\ (f.err => g.err) /\ g.mod = f.mod
      /\ f.why # "rebuild" /\ FrameOK(g)
  BY DEF Turns, Steady, Same, Sound, LoadsSound
<1>2. f.known \in [Module -> {"unknown", "ok", "null"}]
  BY DEF FrameOK, Frame
<1>3. CASE Moves(f, g)
  <2>1. /\ g.chain = f.chain /\ g.imps = f.imps /\ g.todo = f.todo
        /\ g.known = f.known /\ g.pc # "evict"
    BY <1>3 DEF Moves, Holds
  <2>2. LoadsSound(g) /\ AnswersSound(g)
    BY <1>1, <2>1 DEF Sound, LoadsSound, AnswersSound
  <2>3. BuildSound(g)
    BY <1>1, <2>1, BuildStep DEF Sound
  <2> QED
    BY <2>2, <2>3 DEF Sound
<1>4. CASE Skips(f, g)
  <2>1. /\ g.chain = f.chain /\ g.imps = f.imps /\ f.todo # <<>> /\ g.pc = "import"
        /\ f.known[Cur(f)] # "unknown" \/ Cur(f) = f.mod
        /\ g.known = [f.known EXCEPT ![Cur(f)] = IF @ = "unknown" THEN "ok" ELSE @]
    BY <1>4 DEF Skips, Holds
  <2>2. Cur(f) \in Module
    BY <2>1, CurOK
  <2>3. \A m \in Module : g.known[m] = f.known[m]
                          \/ (m = f.mod /\ g.known[m] = "ok")
    BY <1>2, <2>1, <2>2
  <2>4. LoadsSound(g) /\ AnswersSound(g)
    BY <1>1, <2>1, <2>3 DEF Sound, LoadsSound, AnswersSound
  <2>5. g.err \/ Cur(f) \in g.imps \cup {f.mod}
    BY <1>1, <1>2, <2>1, <2>2 DEF Sound, AnswersSound
  <2>6. BuildSound(g)
    BY <1>1, <2>1, <2>5, BuildStep DEF Sound
  <2> QED
    BY <2>4, <2>6 DEF Sound
<1>5. CASE GivesUp(f, g)
  <2>1. /\ g.err /\ f.todo # <<>> /\ g.pc = "import"
        /\ g.known \in {f.known, [f.known EXCEPT ![Cur(f)] = "null"]}
    BY <1>1, <1>5 DEF GivesUp
  <2>2. g.imps = f.imps /\ \A m \in Module : g.chain[m] = NoFile \/ g.chain[m] = f.chain[m]
    BY <1>5 DEF GivesUp, Holds, Drops
  <2>3. LoadsSound(g)
    BY <1>1, <2>1, <2>2 DEF Sound, LoadsSound
  <2>4. \A m \in Module : g.known[m] = "null" \/ g.known[m] = f.known[m]
    BY <1>2, <2>1
  <2>5. AnswersSound(g)
    BY <1>1, <2>1, <2>2, <2>4 DEF Sound, AnswersSound
  <2>6. BuildSound(g)
    BY <1>1, <2>1, <2>2, BuildStep DEF Sound
  <2> QED
    BY <2>3, <2>5, <2>6 DEF Sound
\* No file that is read is out of date.
<1>6. CASE Rejects(f, g)
  <2> DEFINE n == Len(f.rd)
  <2>1. f.rd # <<>> /\ f.chain[f.rd[n].m].ver # hdr[f.rd[n].m]
    BY <1>6 DEF Rejects, UpToDate, Last
  <2>2. n \in 1..n
    BY <2>1, FrameRd
  <2>3. f.rd[n].m \in Module /\ f.chain[f.rd[n].m] # NoFile
    BY <2>2 DEF Reading, Loaded
  <2> QED
    BY <2>1, <2>3 DEF Sound, LoadsSound, FileOK
<1>7. CASE Opens(f, g)
  <2>1. PICK m \in Targets(f) :
          /\ m \in Module /\ f.chain[m] = NoFile /\ pcm[m] \in Content
          /\ g.chain = [f.chain EXCEPT ![m] = pcm[m]]
    BY <1>7 DEF Opens
  <2>2. g.pc = "read" /\ g.todo = f.todo /\ g.known = f.known /\ g.imps = f.imps
    BY <1>7 DEF Opens
  <2>3. FileOK(pcm[m], m)
    BY <2>1 DEF FilesSound
  <2>4. f.chain \in [Module -> Content \cup {NoFile}]
    BY DEF FrameOK, Frame
  <2>5. \A d \in Module : g.chain[d] = IF d = m THEN pcm[m] ELSE f.chain[d]
    BY <2>1, <2>4
  <2>6. LoadsSound(g)
    BY <1>1, <2>2, <2>3, <2>5 DEF Sound, LoadsSound
  <2>7. AnswersSound(g)
    BY <1>1, <2>2 DEF Sound, AnswersSound
  <2>8. BuildSound(g)
    BY <1>1, <2>2, BuildStep DEF Sound
  <2> QED
    BY <2>6, <2>7, <2>8 DEF Sound
<1>8. CASE Passes(f, g)
  BY <1>1, <1>8, FinishesSound DEF Passes
<1>9. CASE Accepts(f, g)
  BY <1>1, <1>9, FinishesSound DEF Accepts
<1> QED
  BY <1>3, <1>4, <1>5, <1>6, <1>7, <1>8, <1>9 DEF Turns

(* The empty sequence holds nothing.                                        *)
LEMMA EmptySet ==
  ASSUME NEW s, s = <<>>
  PROVE  ToSet(s) = {}
BY EmptySeq DEF ToSet

(* What is published was built from the headers there are, completely.     *)
LEMMA PublishedSound ==
  ASSUME SoundInv, NEW m \in Module, NEW p \in Proc, Publishes(p, m)
  PROVE  FileOK(pcm'[m], m) /\ Top(p).imps = Needs(m)
<1> DEFINE f == Top(p)
<1>1. /\ f.todo = <<>> /\ f.mod = m /\ ~f.err /\ pcm'[m] = Output(f)
      /\ status[p] = "running"
  BY DEF Publishes, At
<1>2. Sound(f)
  BY <1>1, RunningTop DEF SoundInv, Top
<1>3. m # TU
  BY ConstantsOK
<1>4. f.ver = hdr[m] /\ f.imps = Needs(m)
  BY <1>1, <1>2, <1>3, EmptySet DEF Sound, BuildSound
<1> QED
  BY <1>1, <1>4 DEF FileOK, Output

(* An instance that begins to build is sound.                               *)
LEMMA NewSound ==
  ASSUME Typed, NEW q \in Proc, NEW g, Begins(q, g)
  PROVE  Sound(g)
<1> DEFINE m == Cur(Top(q))
<1>1. /\ m \in Module /\ g.mod = m /\ g.ver = hdr[m] /\ g.todo = Imports[m]
      /\ g.pc = "import" /\ g.imps = {} /\ g.why = "cached"
      /\ \A x \in Module : g.chain[x] = NoFile /\ g.known[x] = "unknown"
  BY BeginsFields
<1> HIDE DEF m
<1> QED
  BY <1>1 DEF Sound, LoadsSound, AnswersSound, BuildSound, Needs

(* Without edits every step keeps SoundInv.                                 *)
LEMMA NextSound ==
  ASSUME ~MayEdit
  PROVE  SoundInv /\ [Next]_vars => SoundInv'
<1> SUFFICES ASSUME SoundInv, [Next]_vars PROVE SoundInv'
  OBVIOUS
<1>1. /\ Typed /\ ReadingInv /\ Typed' /\ ReadingInv' /\ InstancesStep /\ FilesStep
  BY NextTyped, NextReading, EveryInstance, EveryFile DEF SoundInv
<1>2. hdr' = hdr
  BY <1>1, EveryHeader
<1>3. ASSUME NEW m \in Module, pcm'[m] \in Content PROVE FileOK(pcm'[m], m)
  <2>1. CASE pcm'[m] = pcm[m]
    BY <1>3, <2>1 DEF SoundInv, FilesSound
  <2>2. CASE \E p \in Proc : Publishes(p, m)
    BY <2>2, PublishedSound
  <2> QED
    BY <1>1, <1>3, <2>1, <2>2, ConstantsOK DEF FilesStep
<1>4. FilesSound'
  BY <1>2, <1>3 DEF FilesSound, FileOK
<1>5. ASSUME NEW q \in Proc, NEW i \in 1..Depth(q)'
      PROVE  Sound(stack[q][i])'
  <2> DEFINE g == stack'[q][i]
  <2>1. ASSUME i \in 1..Depth(q), Turns(stack[q][i], g) PROVE Sound(g)
    BY <1>1, <2>1, TypedFrames, TurnsSound DEF SoundInv, ReadingInv
  <2>2. ASSUME Begins(q, g) PROVE Sound(g)
    BY <1>1, <2>2, NewSound
  <2>3. Sound(g)
    BY <1>1, <2>1, <2>2 DEF InstancesStep, SoundInv
  <2> QED
    BY <1>2, <2>3 DEF Sound, LoadsSound, AnswersSound, BuildSound, FileOK
<1> QED
  BY <1>1, <1>4, <1>5 DEF SoundInv

(* SoundInv holds at the start of a cache that is up to date.               *)
LEMMA InitSound == Init /\ FilesSound => SoundInv
<1> SUFFICES ASSUME Init, FilesSound, NEW p \in Proc, NEW i \in 1..Depth(p)
             PROVE  Sound(stack[p][i])
  BY InitTyped, InitReading DEF SoundInv
<1> QED
  BY InitInstances DEF Sound, LoadsSound, AnswersSound, BuildSound

(* No module file enters the cache that lacks one of the imports of its
   headers, whatever fails while it is built.  FilesSound says of the cache
   that it is up to date when the compilers start, and no header is edited:
   only then is no module rebuilt, and it is a rebuilt module whose absence
   loadModule does not report.                                              *)
THEOREM PublishedFilesComplete ==
  ASSUME ~MayEdit
  PROVE  Spec /\ FilesSound => []PublishedComplete
<1>1. SoundInv => PublishedComplete
  BY DEF SoundInv, PublishedComplete, FilesSound, FileOK, Needs
<1> QED
  BY <1>1, InitSound, NextSound, PTL DEF Spec

-----------------------------------------------------------------------------
(* What is loaded is complete                                              *)

(* Loaded for good is a module with all it imports; what a running ReadAST
   has added and not loaded yet, it is still about to open.                 *)
Complete(f) ==
  /\ \A m \in Loaded(f) \ f.fresh : Needs(m) \subseteq Loaded(f) \ f.fresh
  /\ \A m \in f.fresh : \A d \in Needs(m) :
       d \in Loaded(f) \/ \E k \in 1..Len(f.rd) : f.rd[k].m = m /\ d \in f.rd[k].left

(* An instance that has loaded nothing is complete.                        *)
LEMMA NewComplete ==
  ASSUME NEW f, \A m \in Module : f.chain[m] = NoFile, f.fresh = {}
  PROVE  Complete(f)
BY DEF Complete, Loaded

(* Complete survives a ReadAST that fails,                                 *)
LEMMA DropsComplete ==
  ASSUME NEW f, Complete(f), NEW g, Drops(f, g)
  PROVE  Complete(g)
<1>1. Loaded(g) = Loaded(f) \ f.fresh /\ g.fresh = {}
  BY DEF Drops, Loaded
<1> QED
  BY <1>1 DEF Complete

(* the end of a file that is loaded, where only the control blocks that wait
   for no other file are closed,                                            *)
LEMMA FinishesComplete ==
  ASSUME NEW f, FrameOK(f), Reading(f), Complete(f), NEW g,
         NEW m \in Loaded(f), NEW r \in Seq(Block), Finishes(f, g, m, r),
         \A k \in 1..Len(f.rd) : f.rd[k].left # {} => k \in 1..Len(r) /\ r[k] = f.rd[k]
  PROVE  Complete(g)
<1>1. Loaded(g) = Loaded(f)
  BY DEF Finishes, Loaded
<1>2. CASE r = <<>>
  <2>1. g.fresh = {} /\ Len(r) = 0
    BY <1>2, EmptySeq DEF Finishes
  <2>2. \A d \in f.fresh : Needs(d) \subseteq Loaded(f)
    BY <2>1 DEF Complete
  <2> QED
    BY <1>1, <2>1, <2>2 DEF Complete
<1>3. CASE r # <<>>
  <2>1. g.fresh = f.fresh /\ g.rd = Advance(r, m)
    BY <1>3 DEF Finishes
  <2>2. /\ Len(g.rd) = Len(r)
        /\ \A k \in 1..Len(r) : /\ g.rd[k].m = r[k].m
                                /\ r[k].left \subseteq g.rd[k].left \cup {m}
    BY <1>3, <2>1, AdvanceFields
  <2>3. ASSUME NEW x \in g.fresh, NEW d \in Needs(x), d \notin Loaded(g)
        PROVE  \E k \in 1..Len(g.rd) : g.rd[k].m = x /\ d \in g.rd[k].left
    <3>1. PICK k \in 1..Len(f.rd) : f.rd[k].m = x /\ d \in f.rd[k].left
      BY <1>1, <2>1, <2>3 DEF Complete
    <3>2. k \in 1..Len(r) /\ r[k] = f.rd[k] /\ d # m
      BY <1>1, <2>3, <3>1
    <3> QED
      BY <2>2, <3>1, <3>2
  <2> QED
    BY <1>1, <2>1, <2>3 DEF Complete
<1> QED
  BY <1>2, <1>3

(* the start of a new file, which names what its headers import,           *)
LEMMA OpensComplete ==
  ASSUME FilesSound, NEW f, FrameOK(f), Reading(f), Complete(f), NEW g, Opens(f, g)
  PROVE  Complete(g)
<1>1. PICK m \in Targets(f) :
        /\ m \in Module /\ f.chain[m] = NoFile /\ pcm[m] \in Content
        /\ g.chain = [f.chain EXCEPT ![m] = pcm[m]]
        /\ g.fresh = f.fresh \cup {m}
        /\ g.rd = Append(f.rd, [m |-> m, left |-> pcm[m].imps])
  BY DEF Opens
<1> DEFINE e == [m |-> m, left |-> pcm[m].imps]
<1>2. e \in Block /\ e.m = m /\ e.left = Needs(m)
  BY <1>1 DEF Block, Content, FilesSound, FileOK
<1>3. g.rd = Append(f.rd, e)
  BY <1>1
<1> HIDE DEF e
<1>4. f.rd \in Seq(Block) /\ Len(f.rd) \in Nat
  BY FrameRd
<1>5. /\ Len(g.rd) = Len(f.rd) + 1
      /\ \A k \in 1..Len(f.rd) : g.rd[k] = f.rd[k]
      /\ g.rd[Len(f.rd) + 1] = e
  BY <1>2, <1>3, <1>4, AppendProperties
<1>6. f.chain \in [Module -> Content \cup {NoFile}]
  BY DEF FrameOK, Frame
<1>7. Loaded(g) = Loaded(f) \cup {m} /\ m \notin Loaded(f)
  BY <1>1, <1>6, ConstantsOK DEF Loaded
<1>8. ASSUME NEW x \in g.fresh, NEW d \in Needs(x), d \notin Loaded(g)
      PROVE  \E k \in 1..Len(g.rd) : g.rd[k].m = x /\ d \in g.rd[k].left
  <2>1. CASE x = m
    <3>1. Len(f.rd) + 1 \in 1..Len(g.rd)
      BY <1>4, <1>5
    <3> QED
      BY <1>2, <1>5, <1>8, <2>1, <3>1
  <2>2. CASE x # m
    <3>1. PICK k \in 1..Len(f.rd) : f.rd[k].m = x /\ d \in f.rd[k].left
      BY <1>1, <1>7, <1>8, <2>2 DEF Complete
    <3>2. k \in 1..Len(g.rd)
      BY <1>4, <1>5
    <3> QED
      BY <1>5, <3>1, <3>2
  <2> QED
    BY <2>1, <2>2
<1>9. Loaded(g) \ g.fresh = Loaded(f) \ f.fresh
  BY <1>1, <1>7
<1> QED
  BY <1>8, <1>9 DEF Complete

(* and so every step of an instance.                                       *)
LEMMA TurnsComplete ==
  ASSUME FilesSound, NEW f, FrameOK(f), Reading(f), Complete(f), NEW g, Turns(f, g)
  PROVE  Complete(g)
<1>1. ASSUME Holds(f, g) PROVE Complete(g)
  BY <1>1 DEF Holds, Complete, Loaded
<1>2. CASE Passes(f, g)
  <2>1. PICK m \in Targets(f) : m \in Module /\ f.chain[m] # NoFile /\ Finishes(f, g, m, f.rd)
    BY <1>2 DEF Passes
  <2> QED
    BY <2>1, FrameRd, FinishesComplete DEF Loaded
<1>3. CASE Accepts(f, g)
  <2> DEFINE n == Len(f.rd)
             m == f.rd[n].m
  <2>1. f.rd # <<>> /\ f.rd[n].left = {} /\ Finishes(f, g, m, Front(f.rd))
    BY <1>3 DEF Accepts, Last
  <2>2. n \in Nat /\ n \in 1..n
    BY <2>1, FrameRd
  <2>3. m \in Loaded(f)
    BY <2>2 DEF Reading
  <2>4. /\ Front(f.rd) \in Seq(Block) /\ Len(Front(f.rd)) = n - 1
        /\ \A k \in 1..Len(Front(f.rd)) : Front(f.rd)[k] = f.rd[k]
    BY <2>1, FrontRd
  <2>5. \A k \in 1..n : f.rd[k].left # {} =>
          k \in 1..Len(Front(f.rd)) /\ Front(f.rd)[k] = f.rd[k]
    BY <2>1, <2>2, <2>4
  <2> HIDE DEF m
  <2> QED
    BY <2>1, <2>3, <2>4, <2>5, FinishesComplete
<1> QED
  BY <1>1, <1>2, <1>3, DropsComplete, OpensComplete
     DEF Turns, Moves, Skips, GivesUp, Rejects

-----------------------------------------------------------------------------
(* The cache keeps what was loaded from it                                 *)

(* No module is written in place.                                          *)
Untorn == "temp" \notin FaultKinds \/ faults = 0

FileKept(f) == ~f.direct /\ \A m \in Loaded(f) : pcm[m] \in Content
Kept ==
  /\ \A m \in Module : pcm[m] # Torn
  /\ \A p \in Proc : \A i \in 1..Depth(p) : FileKept(stack[p][i])

CompleteInv == \A p \in Proc : \A i \in 1..Depth(p) : Complete(stack[p][i])
GraphInv == SoundInv /\ CompleteInv /\ (Untorn => Kept)

(* Faults are only counted up, and each step has one at most.              *)
LEMMA FaultsGrow ==
  ASSUME Typed, [Next]_vars
  PROVE  faults \in Nat /\ faults' \in {faults, faults + 1}
<1>1. faults \in Nat
  BY ConstantsOK, SMTT(30) DEF Typed, TypeOK
<1>2. ASSUME NEW p \in Proc, Step(p) PROVE faults' \in {faults, faults + 1}
  BY <1>2 DEF Step, ImportKnown, FindModuleFile, LockOwned, LockShared, WaitForUnlock,
              EndOfModule, Unlock, Recheck, OpenAST, Validate, Evict, EndOfTU, Fault
<1> QED
  BY <1>1, <1>2 DEF Next, Environment, LockFails, WaitTimesOut, BuildCrash, Crash,
                    EditHeaders, Terminated, Fault, vars

(* A file that is in the cache, with nothing to erase it, stays there.      *)
LEMMA FilesStay ==
  ASSUME SoundInv, Kept, FilesStep, Untorn', faults \in Nat,
         faults' \in {faults, faults + 1}
  PROVE  /\ \A m \in Module : pcm'[m] # Torn
         /\ \A m \in Module : pcm[m] \in Content => pcm'[m] \in Content
<1>2. ASSUME NEW p \in Proc, Erases(p) PROVE FALSE
  <2>1. Sound(Top(p)) /\ FileKept(Top(p))
    BY <1>2, RunningTop DEF SoundInv, Kept, Erases, Top
  <2> QED
    BY <1>2, <2>1 DEF Erases, Sound, LoadsSound, FileKept
<1>3. ~("temp" \in FaultKinds /\ faults' = faults + 1)
  BY DEF Untorn
<1> SUFFICES ASSUME NEW m \in Module
             PROVE  pcm'[m] # Torn /\ (pcm[m] \in Content => pcm'[m] \in Content)
  OBVIOUS
<1>4. CASE pcm'[m] = pcm[m]
  BY <1>4 DEF Kept
<1>5. CASE \E p \in Proc : Publishes(p, m)
  <2>1. PICK p \in Proc : Publishes(p, m)
    BY <1>5
  <2>2. Top(p) \in Frame
    BY <2>1, RunningTop DEF Publishes, At, SoundInv
  <2>3. pcm'[m] \in Content
    BY <2>1, <2>2, OutputOK DEF Publishes
  <2> QED
    BY <2>3, ConstantsOK
<1> QED
  BY <1>2, <1>3, <1>4, <1>5 DEF FilesStep

(* Every step of an instance loads from the cache.                         *)
LEMMA TurnsKept ==
  ASSUME NEW f, FrameOK(f), FileKept(f), NEW g, Turns(f, g)
  PROVE  FileKept(g)
<1>1. g.direct = f.direct
  BY DEF Turns, Steady
<1>2. \A m \in Loaded(g) : m \in Loaded(f) \/ pcm[m] \in Content
  <2>1. CASE Opens(f, g)
    <3>1. f.chain \in [Module -> Content \cup {NoFile}]
      BY DEF FrameOK, Frame
    <3> QED
      BY <2>1, <3>1 DEF Opens, Loaded
  <2>2. CASE ~Opens(f, g)
    <3>1. \A m \in Module : g.chain[m] = NoFile \/ g.chain[m] = f.chain[m]
      BY <2>2 DEF Turns, Moves, Skips, GivesUp, Rejects, Passes, Accepts, Holds, Drops, Finishes
    <3> QED
      BY <3>1 DEF Loaded
  <2> QED
    BY <2>1, <2>2
<1> QED
  BY <1>1, <1>2 DEF FileKept

(* GraphInv holds at the start of a cache that is up to date,              *)
LEMMA InitGraph == Init /\ FilesSound => GraphInv
<1> SUFFICES ASSUME Init, FilesSound PROVE CompleteInv /\ Kept
  BY InitSound DEF GraphInv
<1>1. \A m \in Module : pcm[m] # Torn
  BY ModuleCacheAssumption DEF Init
<1>2. ASSUME NEW p \in Proc, NEW i \in 1..Depth(p)
      PROVE  Complete(stack[p][i]) /\ FileKept(stack[p][i])
  BY InitInstances, NewComplete DEF FileKept, Loaded
<1> QED
  BY <1>1, <1>2 DEF CompleteInv, Kept

(* and every step keeps it while no header is edited.                      *)
LEMMA NextGraph ==
  ASSUME ~MayEdit
  PROVE  GraphInv /\ [Next]_vars => GraphInv'
<1> SUFFICES ASSUME GraphInv, [Next]_vars PROVE GraphInv'
  OBVIOUS
<1>1. /\ SoundInv /\ CompleteInv /\ (Untorn => Kept) /\ SoundInv'
      /\ Typed /\ ReadingInv /\ FilesSound /\ Typed'
  BY NextSound DEF GraphInv, SoundInv
<1>2. /\ InstancesStep /\ FilesStep /\ faults \in Nat /\ faults' \in {faults, faults + 1}
  BY <1>1, EveryInstance, EveryFile, FaultsGrow
<1>3. CompleteInv'
  <2> SUFFICES ASSUME NEW q \in Proc, NEW i \in 1..Depth(q)'
               PROVE  Complete(stack'[q][i])
    BY DEF CompleteInv
  <2> DEFINE g == stack'[q][i]
  <2>1. ASSUME i \in 1..Depth(q), Turns(stack[q][i], g) PROVE Complete(g)
    BY <1>1, <2>1, TypedFrames, TurnsComplete DEF CompleteInv, ReadingInv
  <2>2. ASSUME Begins(q, g) PROVE Complete(g)
    BY <2>2, BeginsFields, NewComplete
  <2> QED
    BY <1>1, <1>2, <2>1, <2>2 DEF InstancesStep, CompleteInv
<1>4. ASSUME Untorn' PROVE Kept'
  <2>1. Untorn /\ Kept /\ ~("temp" \in FaultKinds /\ faults' = faults + 1)
    BY <1>1, <1>2, <1>4 DEF Untorn
  <2>2. /\ \A m \in Module : pcm'[m] # Torn
        /\ \A m \in Module : pcm[m] \in Content => pcm'[m] \in Content
    BY <1>1, <1>2, <1>4, <2>1, FilesStay
  <2> SUFFICES ASSUME NEW q \in Proc, NEW i \in 1..Depth(q)'
               PROVE  FileKept(stack[q][i])'
    BY <2>2 DEF Kept
  <2> DEFINE g == stack'[q][i]
  <2>3. ASSUME i \in 1..Depth(q), Turns(stack[q][i], g) PROVE FileKept(g)
    BY <1>1, <2>1, <2>3, TypedFrames, TurnsKept DEF Kept
  <2>4. ASSUME Begins(q, g) PROVE FileKept(g)
    BY <2>1, <2>4, BeginsFields DEF FileKept, Loaded
  <2>5. FileKept(g)
    BY <1>2, <2>1, <2>3, <2>4 DEF InstancesStep, Kept
  <2> QED
    BY <2>2, <2>5 DEF FileKept, Loaded
<1> QED
  BY <1>1, <1>3, <1>4 DEF GraphInv

-----------------------------------------------------------------------------
(* The steps of ModuleImports                                              *)

(* What an instance has loaded for good.                                   *)
Base(f) == Loaded(f) \ f.fresh

(* A step of an instance leaves it alone, or ends a ReadAST, which adds what
   was read.                                                               *)
LEMMA TurnsBase ==
  ASSUME FilesSound, NEW f, FrameOK(f), Reading(f), Complete(f), FileKept(f),
         NEW g, Turns(f, g)
  PROVE  \/ Base(g) = Base(f)
         \/ \E S \in SUBSET Module :
              /\ Base(g) = Base(f) \cup S
              /\ \A m \in S : pcm[m] \in Content /\ Needs(m) \subseteq Base(f) \cup S
<1>1. Complete(g)
  BY TurnsComplete
<1>2. ASSUME NEW d, NEW r, Finishes(f, g, d, r)
      PROVE  \/ Base(g) = Base(f)
             \/ Base(g) = Base(f) \cup f.fresh /\ g.fresh = {} /\ g.chain = f.chain
  BY <1>2 DEF Finishes, Base, Loaded, Reading
<1>3. CASE Opens(f, g)
  <2>1. PICK m \in Module :
          /\ f.chain[m] = NoFile /\ g.chain = [f.chain EXCEPT ![m] = pcm[m]]
          /\ g.fresh = f.fresh \cup {m}
    BY <1>3 DEF Opens
  <2>2. f.chain \in [Module -> Content \cup {NoFile}]
    BY DEF FrameOK, Frame
  <2> QED
    BY <2>1, <2>2 DEF Base, Loaded
<1>4. CASE Passes(f, g) \/ Accepts(f, g)
  <2>1. PICK d, r : Finishes(f, g, d, r)
    BY <1>4 DEF Passes, Accepts
  <2>2. CASE Base(g) = Base(f) \cup f.fresh /\ g.fresh = {} /\ g.chain = f.chain
    <3>1. Loaded(g) = Loaded(f) /\ Base(g) = Loaded(f) /\ f.fresh \subseteq Loaded(f)
      BY <2>2 DEF Base, Loaded, Reading
    <3>2. \A m \in f.fresh : pcm[m] \in Content /\ Needs(m) \subseteq Base(f) \cup f.fresh
      BY <1>1, <2>2, <3>1 DEF Complete, FileKept
    <3>3. f.fresh \in SUBSET Module
      BY DEF Reading, Loaded
    <3> QED
      BY <2>2, <3>2, <3>3
  <2> QED
    BY <1>2, <2>1, <2>2
<1>5. CASE Holds(f, g) \/ Drops(f, g)
  BY <1>5 DEF Holds, Drops, Base, Loaded
<1> QED
  BY <1>3, <1>4, <1>5 DEF Turns, Moves, Skips, GivesUp, Rejects

available == {m \in Module : pcm[m] \in Content}
loaded == [p \in Proc |-> Imported(p)]

(* Nothing is imported or forgotten when the instance of the translation unit
   keeps its module files.                                                  *)
LEMMA ImportedBase ==
  ASSUME NEW p
  PROVE  Imported(p) = IF stack[p] = <<>> THEN {} ELSE Base(stack[p][1])
BY DEF Imported, Base, Loaded

(* A step of an innermost instance that leaves the cache alone is a Load, or
   a stutter.                                                               *)
LEMMA LocalLoads ==
  ASSUME GraphInv, Untorn, NEW p \in Proc, TopTurns(p), status[p] = "running",
         status' = status
  PROVE  \/ loaded' = loaded
         \/ \E S \in SUBSET Module :
              /\ S \subseteq available
              /\ \A m \in S : Needs(m) \subseteq loaded[p] \cup S
              /\ loaded' = [loaded EXCEPT ![p] = @ \cup S]
<1>1. /\ Typed /\ FilesSound /\ ReadingInv /\ CompleteInv /\ Kept
  BY DEF GraphInv, SoundInv
<1>2. PICK g : Turns(Top(p), g) /\ SetTop(p, g)
  BY DEF TopTurns
<1>3. /\ Len(stack'[p]) = Len(stack[p])
      /\ \A i \in 1..Len(stack[p]) :
           stack'[p][i] = IF i = Len(stack[p]) THEN g ELSE stack[p][i]
      /\ \A q \in Proc \ {p} : stack'[q] = stack[q]
  BY <1>1, <1>2, SetTopOK DEF Turns, Steady
<1>4. /\ Depth(p) \in Nat \ {0} /\ 1 \in 1..Depth(p) /\ Depth(p) \in 1..Depth(p)
      /\ stack[p] # <<>> /\ stack'[p] # <<>>
  BY <1>1, <1>3, RunningTop, EmptySeq DEF Depth
<1>5. \A q \in Proc \ {p} : Imported(q)' = Imported(q)
  BY <1>3 DEF Imported
<1>6. Imported(p) = Base(stack[p][1]) /\ Imported(p)' = Base(stack'[p][1])
  BY <1>4 DEF Imported, Base, Loaded
<1>7. CASE Depth(p) # 1
  <2>1. Imported(p)' = Imported(p)
    BY <1>3, <1>4, <1>6, <1>7 DEF Depth
  <2> QED
    BY <1>5, <2>1 DEF loaded
<1>8. CASE Depth(p) = 1
  <2> DEFINE f == Top(p)
  <2>1. stack[p][1] = f /\ stack'[p][1] = g
    BY <1>3, <1>4, <1>8 DEF Depth, Top
  <2>2. /\ FrameOK(f) /\ Reading(f) /\ Complete(f) /\ FileKept(f)
    BY <1>1, <1>4, TypedFrames DEF ReadingInv, CompleteInv, Kept, Top
  <2>3. \/ Base(g) = Base(f)
        \/ \E S \in SUBSET Module :
              /\ Base(g) = Base(f) \cup S
              /\ \A m \in S : pcm[m] \in Content /\ Needs(m) \subseteq Base(f) \cup S
    BY <1>1, <1>2, <2>2, TurnsBase
  <2>4. loaded[p] = Base(f) /\ loaded'[p] = Base(g)
    BY <1>6, <2>1 DEF loaded
  <2>5. CASE Base(g) = Base(f)
    BY <1>5, <2>4, <2>5 DEF loaded
  <2>6. CASE \E S \in SUBSET Module :
              /\ Base(g) = Base(f) \cup S
              /\ \A m \in S : pcm[m] \in Content /\ Needs(m) \subseteq Base(f) \cup S
    <3>1. PICK S \in SUBSET Module :
            /\ Base(g) = Base(f) \cup S
            /\ \A m \in S : pcm[m] \in Content /\ Needs(m) \subseteq Base(f) \cup S
      BY <2>6
    <3>2. loaded' = [loaded EXCEPT ![p] = @ \cup S]
      BY <1>5, <2>4, <3>1 DEF loaded
    <3>3. S \subseteq available
      BY <3>1 DEF available
    <3> QED
      BY <2>4, <3>1, <3>2, <3>3
  <2> QED
    BY <2>3, <2>5, <2>6
<1> QED
  BY <1>7, <1>8

(* The step of a process that dies is a Forget.                            *)
LEMMA CrashForgets ==
  ASSUME Typed, NEW p \in Proc, Crashed(p)
  PROVE  loaded' = [loaded EXCEPT ![p] = {}]
<1>1. stack'[p] = <<>> /\ \A q \in Proc \ {p} : stack'[q] = stack[q]
  BY DEF Crashed, Typed, TypeOK
<1>2. Imported(p)' = {} /\ \A q \in Proc \ {p} : Imported(q)' = Imported(q)
  BY <1>1 DEF Imported
<1> QED
  BY <1>2 DEF loaded

(* The end of a build leaves what translation units have imported alone, and
   is a Publish when the module file was not there.                         *)
LEMMA EndOfModulePublishes ==
  ASSUME GraphInv, Untorn, NEW p \in Proc, EndOfModule(p)
  PROVE  /\ loaded' = loaded
         /\ \/ available' = available
            \/ \E m \in Module : /\ Needs(m) \subseteq available
                                 /\ available' = available \cup {m}
<1> DEFINE f == Top(p)
           m == f.mod
<1>1. /\ Typed /\ FilesSound /\ ReadingInv /\ Kept /\ SoundInv
  BY DEF GraphInv, SoundInv
<1>2. /\ status[p] = "running" /\ status' = status /\ Depth(p) > 1 /\ TopTurns(p)
      /\ At(p, "import") /\ f.todo = <<>>
  BY <1>1, LocalTurns DEF EndOfModule
<1>3. loaded' = loaded
  <2>1. PICK g : Turns(f, g) /\ SetTop(p, g)
    BY <1>2 DEF TopTurns
  <2>2. /\ Len(stack'[p]) = Len(stack[p])
        /\ \A i \in 1..Len(stack[p]) :
             stack'[p][i] = IF i = Len(stack[p]) THEN g ELSE stack[p][i]
        /\ \A q \in Proc \ {p} : stack'[q] = stack[q]
    BY <1>1, <1>2, <2>1, SetTopOK DEF Turns, Steady
  <2>3. /\ Depth(p) \in Nat /\ 1 \in 1..Depth(p) /\ stack[p] # <<>> /\ stack'[p] # <<>>
    BY <1>1, <1>2, <2>2, RunningTop, EmptySeq DEF Depth
  <2>4. stack'[p][1] = stack[p][1]
    BY <1>2, <2>2, <2>3 DEF Depth
  <2>5. \A q \in Proc : Imported(q)' = Imported(q)
    BY <2>2, <2>3, <2>4 DEF Imported
  <2> QED
    BY <2>5 DEF loaded
<1>4. /\ FrameOK(f) /\ f \in Frame /\ Reading(f) /\ FileKept(f) /\ m \in Module
      /\ pcm \in [Module -> Content \cup {NoFile, Torn}]
  <2>1. Depth(p) \in 1..Depth(p) /\ FrameOK(f) /\ f \in Frame
    BY <1>1, <1>2, RunningTop
  <2>2. m # TU
    BY <1>1, <1>2, <2>1 DEF Typed, StackOK, Top
  <2> QED
    BY <1>1, <2>1, <2>2 DEF Kept, ReadingInv, Top, Frame, Typed, TypeOK
<1>5. CASE pcm' = pcm
  BY <1>3, <1>5 DEF available
<1>6. CASE ~f.err /\ pcm' = [pcm EXCEPT ![m] = Output(f)]
  <2>1. Publishes(p, m)
    BY <1>2, <1>4, <1>6 DEF Publishes
  <2>2. f.imps = Needs(m)
    BY <1>1, <1>4, <2>1, PublishedSound
  <2>3. Needs(m) \subseteq available
    BY <1>4, <2>2 DEF Reading, FileKept, Loaded, available
  <2>4. Output(f) \in Content
    BY <1>4, OutputOK
  <2>5. available' = available \cup {m}
    BY <1>4, <1>6, <2>4 DEF available
  <2> QED
    BY <1>3, <1>4, <2>3, <2>5
<1> QED
  <2>1. ~f.direct
    BY <1>4 DEF FileKept
  <2>2. pcm' = [pcm EXCEPT ![m] = pcm[m]] => pcm' = pcm
    BY <1>4
  <2>3. \/ pcm' = pcm
        \/ ~f.err /\ pcm' = [pcm EXCEPT ![m] = Output(f)]
        \/ pcm' = [pcm EXCEPT ![m] = pcm[m]]
    BY <2>1 DEF EndOfModule
  <2> QED
    BY <1>5, <1>6, <2>2, <2>3

(* Every other step of an innermost instance leaves the cache alone.       *)
LEMMA CacheKept ==
  ASSUME GraphInv, Untorn, NEW p \in Proc,
         \/ ImportKnown(p) \/ FindModuleFile(p) \/ LockShared(p)
         \/ WaitForUnlock(p) \/ Recheck(p) \/ OpenAST(p)
         \/ Validate(p) \/ Evict(p) \/ LockFails(p) \/ WaitTimesOut(p) \/ BuildCrash(p)
  PROVE  pcm' = pcm
<1>1. /\ Typed /\ Kept /\ SoundInv
  BY DEF GraphInv, SoundInv
<1>2. status[p] = "running"
  BY <1>1, LocalTurns
<1>3. Sound(Top(p)) /\ FileKept(Top(p))
  BY <1>1, <1>2, RunningTop DEF SoundInv, Kept, Top
<1>4. ~Evict(p)
  BY <1>3 DEF Evict, At, Sound, LoadsSound
<1>5. ASSUME BuildCrash(p) PROVE pcm' = pcm
  <2>1. pcm' = [pcm EXCEPT ![Top(p).mod] = @]
    BY <1>3, <1>5 DEF BuildCrash, FileKept
  <2> QED
    BY <1>1, <2>1 DEF Typed, TypeOK
<1> QED
  BY <1>4, <1>5 DEF ImportKnown, FindModuleFile, LockShared, WaitForUnlock, Recheck,
                    OpenAST, Validate, LockFails, WaitTimesOut

(* A step that changes neither what is available nor what is loaded.       *)
Stutters == available' = available /\ loaded' = loaded
ImportsStep ==
  \/ Stutters
  \/ /\ loaded' = loaded
     /\ \E m \in Module : Needs(m) \subseteq available /\ available' = available \cup {m}
  \/ /\ available' = available
     /\ \E p \in Proc : loaded' = [loaded EXCEPT ![p] = {}]
  \/ /\ available' = available
     /\ \E p \in Proc : \E S \in SUBSET Module :
          /\ S \subseteq available
          /\ \A m \in S : Needs(m) \subseteq loaded[p] \cup S
          /\ loaded' = [loaded EXCEPT ![p] = @ \cup S]

(* Which step of ModuleImports a step of ModuleCache is.                   *)
LEMMA StepImports ==
  ASSUME "temp" \notin FaultKinds, GraphInv, [Next]_vars
  PROVE  ImportsStep
<1>1. Untorn /\ Typed /\ SoundInv
  BY DEF Untorn, GraphInv, SoundInv
<1>2. ASSUME pcm' = pcm PROVE available' = available
  BY <1>2 DEF available
<1>3. ASSUME stack' = stack PROVE loaded' = loaded
  BY <1>3 DEF loaded, Imported
<1>4. ASSUME NEW p \in Proc,
             \/ ImportKnown(p) \/ FindModuleFile(p) \/ LockShared(p)
             \/ WaitForUnlock(p) \/ Recheck(p) \/ OpenAST(p)
             \/ Validate(p) \/ Evict(p) \/ LockFails(p) \/ WaitTimesOut(p) \/ BuildCrash(p)
      PROVE  ImportsStep
  <2>1. pcm' = pcm /\ TopTurns(p) /\ status[p] = "running" /\ status' = status
    BY <1>1, <1>4, CacheKept, LocalTurns
  <2> QED
    BY <1>1, <1>2, <2>1, LocalLoads DEF ImportsStep, Stutters
<1>5. ASSUME NEW p \in Proc, EndOfModule(p) PROVE ImportsStep
  BY <1>1, <1>5, EndOfModulePublishes DEF ImportsStep, Stutters
<1>6. ASSUME NEW p \in Proc, Crashed(p), pcm' = pcm PROVE ImportsStep
  BY <1>1, <1>2, <1>6, CrashForgets DEF ImportsStep
<1>7. ASSUME NEW p \in Proc, LockOwned(p) PROVE ImportsStep
  <2>1. CASE Crashed(p) /\ pcm' = pcm
    BY <1>6, <2>1
  <2>2. CASE /\ status' = status /\ Depth(p)' = Depth(p) + 1
             /\ \A q \in Proc : \A i \in 1..Depth(q) : stack'[q][i] = stack[q][i]
             /\ \A q \in Proc \ {p} : Depth(q)' = Depth(q)
             /\ pcm' = pcm
    <3>1. \A q \in Proc : stack[q] \in Seq(Frame) /\ stack'[q] \in Seq(Frame)
      BY <1>1, NextTyped DEF Typed, TypeOK
    <3>2. \A q \in Proc : Depth(q) \in Nat /\ (stack[q] = <<>> <=> Depth(q) = 0)
      BY <3>1, EmptySeq DEF Depth
    <3>3. \A q \in Proc : stack'[q] = <<>> <=> Depth(q)' = 0
      BY <3>1, EmptySeq DEF Depth
    <3>4. status[p] = "running"
      BY <1>7 DEF LockOwned, At
    <3>5. stack[p] # <<>>
      BY <1>1, <3>4 DEF Typed, StackOK
    <3>6. \A q \in Proc : /\ stack'[q] = <<>> <=> stack[q] = <<>>
                          /\ stack[q] # <<>> => stack'[q][1] = stack[q][1]
      BY <2>2, <3>2, <3>3, <3>5
    <3>7. \A q \in Proc : Imported(q)' = Imported(q)
      BY <3>6 DEF Imported
    <3> QED
      BY <1>2, <2>2, <3>7 DEF ImportsStep, Stutters, loaded
  <2> QED
    BY <1>1, <1>7, <2>1, <2>2, LockOwnedFrames
<1>8. ASSUME NEW p \in Proc, Unlock(p) PROVE ImportsStep
  <2>1. /\ pcm' = pcm /\ status' = status /\ Depth(p) > 1 /\ Depth(p)' = Depth(p) - 1
        /\ \A q \in Proc \ {p} : stack'[q] = stack[q]
        /\ \A i \in 1..Depth(p) - 1 :
              stack'[p][i] = IF i = Depth(p) - 1
                             THEN [stack[p][i] EXCEPT !.pc = "after"]
                             ELSE stack[p][i]
    BY <1>1, <1>8, UnlockFrames
  <2>2. status[p] = "running"
    BY <1>8 DEF Unlock, At
  <2>3. Depth(p) \in Nat /\ stack[p] # <<>> /\ stack[p] \in Seq(Frame)
    BY <1>1, <2>2, RunningTop
  <2>4. stack'[p] # <<>>
    BY <1>1, <2>1, <2>2, NextTyped DEF Typed, StackOK
  <2>5. 1 \in 1..Depth(p) - 1 /\ 1 \in 1..Len(stack[p])
    BY <2>1, <2>3 DEF Depth
  <2>6. stack[p][1] \in Frame
    BY <2>3, <2>5, ElementOfSeq
  <2>7. stack'[p][1].chain = stack[p][1].chain /\ stack'[p][1].fresh = stack[p][1].fresh
    BY <2>1, <2>5, <2>6, ZenonT(60) DEF Frame
  <2>8. Imported(p)' = Imported(p)
    BY <2>3, <2>4, <2>7 DEF Imported
  <2>9. \A q \in Proc \ {p} : Imported(q)' = Imported(q)
    BY <2>1 DEF Imported
  <2> QED
    BY <1>2, <2>1, <2>8, <2>9 DEF ImportsStep, Stutters, loaded
<1>9. ASSUME pcm' = pcm, stack' = stack PROVE ImportsStep
  BY <1>2, <1>3, <1>9 DEF ImportsStep, Stutters
<1>10. ASSUME NEW p \in Proc, Step(p) \/ LockFails(p) \/ WaitTimesOut(p) \/ BuildCrash(p)
       PROVE  ImportsStep
  BY <1>4, <1>5, <1>7, <1>8, <1>9, <1>10 DEF Step, EndOfTU
<1>11. ASSUME NEW p \in Proc, Crash(p) PROVE ImportsStep
  BY <1>6, <1>11 DEF Crash
<1> QED
  BY <1>9, <1>10, <1>11 DEF Next, Environment, EditHeaders, Terminated, vars

(* A module becomes available in the shared cache only when everything its
   headers import is, and a translation unit that has loaded a module has
   loaded what that module imports: with an empty cache at the start, headers
   nobody edits and temporary files that can be created.  Each of the three is
   needed: an out-of-date file is removed while modules that import it stay,
   and a module written in place is erased when its build fails.            *)
THEOREM ModulesImportedWhole ==
  ASSUME ~MayEdit, "temp" \notin FaultKinds, \A m \in Module : Stale[m] = NoFile
  PROVE  Spec => ImplementsContract
<1>1. Init => Contract!Init /\ GraphInv
  <2> SUFFICES ASSUME Init PROVE Contract!Init /\ GraphInv
    OBVIOUS
  <2>1. \A m \in Module : pcm[m] \notin Content
    BY ConstantsOK DEF Init
  <2>2. \A p \in Proc : Imported(p) = {}
    <3> TAKE p \in Proc
    <3>1. stack[p] = <<NewInstance(TU, 1, TUImports[p], FALSE)>>
      BY DEF Init
    <3>2. Depth(p) = 1
      BY <3>1 DEF Depth
    <3>3. \A x \in Module : stack[p][1].chain[x] = NoFile
      BY <3>2, InitInstances
    <3> QED
      BY <3>3 DEF Imported
  <2> QED
    BY <2>1, <2>2, InitGraph DEF Contract!Init, FilesSound
<1>2. GraphInv /\ [Next]_vars => GraphInv'
  BY NextGraph
<1>3. GraphInv /\ [Next]_vars => [Contract!Next]_Contract!vars
  BY StepImports DEF ImportsStep, Stutters, available, loaded, Needs, Contract!Next,
     Contract!Publish, Contract!Load, Contract!Forget, Contract!vars
<1> QED
  BY <1>1, <1>2, <1>3, PTL DEF Spec, ImplementsContract, Contract!Spec

-----------------------------------------------------------------------------
(* What a compilation without errors has imported                          *)

(* The translation unit of p has imported what is before its current import,
   unless it has an error.                                                  *)
Progress(p, f) == f.err \/ ToSet(TUImports[p]) \subseteq f.imps \cup ToSet(f.todo)
ProgressInv ==
  \A p \in Proc : stack[p] # <<>> =>
    Progress(p, stack[p][1]) /\ (status[p] = "done" => stack[p][1].todo = <<>>)

(* An import an instance is done with has been imported or is an error.    *)
LEMMA TurnsImports ==
  ASSUME NEW f, FrameOK(f), Sound(f), NEW g, Turns(f, g)
  PROVE  /\ f.imps \subseteq g.imps /\ (f.err => g.err)
         /\ \/ g.todo = f.todo
            \/ /\ f.todo # <<>> /\ g.todo = Tail(f.todo)
               /\ g.err \/ Cur(f) \in g.imps \cup {f.mod}
<1>1. /\ (f.err => g.err) /\ f.why # "rebuild"
      /\ (g.todo = f.todo \/ g.todo = Tail(f.todo))
  BY DEF Turns, Steady, Same, Sound, LoadsSound
<1>2. CASE Skips(f, g)
  <2>1. /\ g.imps = f.imps /\ f.todo # <<>>
        /\ f.known[Cur(f)] # "unknown" \/ Cur(f) = f.mod
    BY <1>2 DEF Skips, Holds
  <2>2. Cur(f) \in Module /\ f.known \in [Module -> {"unknown", "ok", "null"}]
    BY <2>1, CurOK DEF FrameOK, Frame
  <2>3. g.err \/ Cur(f) \in g.imps \cup {f.mod}
    BY <1>1, <2>1, <2>2 DEF Sound, AnswersSound
  <2> QED
    BY <1>1, <2>1, <2>3
<1>3. CASE GivesUp(f, g)
  BY <1>1, <1>3 DEF GivesUp, Holds, Drops
<1>4. CASE Passes(f, g) \/ Accepts(f, g)
  <2>1. PICK m, r : Finishes(f, g, m, r)
    BY <1>4 DEF Passes, Accepts
  <2>2. f.todo # <<>>
    BY <1>4 DEF Passes, Accepts, FrameOK
  <2> QED
    BY <1>1, <2>1, <2>2 DEF Finishes
<1>5. CASE Moves(f, g) \/ Rejects(f, g) \/ Opens(f, g)
  BY <1>1, <1>5 DEF Moves, Rejects, Opens, Holds, Drops
<1> QED
  BY <1>2, <1>3, <1>4, <1>5 DEF Turns

(* So the instance of a translation unit keeps Progress.                   *)
LEMMA TurnsProgress ==
  ASSUME NEW p \in Proc, NEW f, FrameOK(f), Sound(f), f.mod = TU, Progress(p, f),
         NEW g, Turns(f, g)
  PROVE  Progress(p, g)
<1>1. /\ f.imps \subseteq g.imps /\ (f.err => g.err)
      /\ \/ g.todo = f.todo
         \/ /\ f.todo # <<>> /\ g.todo = Tail(f.todo)
            /\ g.err \/ Cur(f) \in g.imps \cup {f.mod}
  BY TurnsImports
<1>2. CASE g.todo = f.todo
  BY <1>1, <1>2 DEF Progress
<1>3. CASE f.todo # <<>> /\ g.todo = Tail(f.todo)
           /\ (g.err \/ Cur(f) \in g.imps \cup {f.mod})
  <2>1. ToSet(f.todo) = ToSet(g.todo) \cup {Cur(f)} /\ Cur(f) # f.mod
    BY <1>3, CurSet, CurOK, ConstantsOK
  <2> QED
    BY <1>1, <1>3, <2>1 DEF Progress
<1> QED
  BY <1>1, <1>2, <1>3

(* A process becomes done at the end of its translation unit.              *)
LEMMA EveryDone ==
  ASSUME Typed, [Next]_vars, NEW q \in Proc, status'[q] = "done", status[q] # "done"
  PROVE  EndOfTU(q)
<1>1. status \in [Proc -> {"running", "done", "crashed"}]
  BY DEF Typed, TypeOK
<1>2. status' # status
  OBVIOUS
<1>3. ASSUME NEW p \in Proc PROVE ~Crashed(p)
  BY <1>1, <1>3 DEF Crashed
<1>4. ASSUME NEW p \in Proc, Step(p) \/ LockFails(p) \/ WaitTimesOut(p) \/ BuildCrash(p)
      PROVE  EndOfTU(p)
  <2>1. ~LockOwned(p) /\ ~Unlock(p)
    BY <1>2, <1>3, LockOwnedCases DEF Unlock
  <2> QED
    BY <1>2, <1>4, <2>1, LocalTurns DEF Step
<1>5. ASSUME NEW p \in Proc, EndOfTU(p) PROVE p = q
  BY <1>1, <1>5 DEF EndOfTU
<1>6. ~(\E p \in Proc : Crash(p)) /\ ~(\E m \in Module : EditHeaders(m))
  BY <1>2, <1>3 DEF Crash, EditHeaders
<1>7. PICK p \in Proc : Step(p) \/ LockFails(p) \/ WaitTimesOut(p) \/ BuildCrash(p)
  BY <1>2, <1>6 DEF Next, Environment, Terminated, vars
<1> QED
  BY <1>4, <1>5, <1>7

(* ProgressInv holds at the start,                                          *)
LEMMA InitProgress == Init => ProgressInv
<1> SUFFICES ASSUME Init, NEW p \in Proc
             PROVE  /\ Progress(p, stack[p][1])
                    /\ status[p] # "done"
  BY DEF ProgressInv
<1> DEFINE g == NewInstance(TU, 1, TUImports[p], FALSE)
<1>1. stack[p] = <<g>> /\ status[p] = "running"
  BY DEF Init
<1>2. g.todo = TUImports[p]
  BY DEF NewInstance
<1> HIDE DEF g
<1>3. stack[p][1] = g /\ status[p] # "done"
  BY <1>1
<1> QED
  BY <1>2, <1>3 DEF Progress

(* and every step keeps it while no header is edited.                      *)
LEMMA NextProgress ==
  ASSUME GraphInv, ProgressInv, [Next]_vars
  PROVE  ProgressInv'
<1>1. Typed /\ SoundInv /\ ReadingInv /\ InstancesStep /\ Typed'
  BY EveryInstance, NextTyped DEF GraphInv, SoundInv
<1> SUFFICES ASSUME NEW q \in Proc, stack'[q] # <<>>
             PROVE  /\ Progress(q, stack'[q][1])
                    /\ status'[q] = "done" => stack'[q][1].todo = <<>>
  BY DEF ProgressInv
<1> DEFINE f == stack[q][1]
           g == stack'[q][1]
<1>2. 1 \in 1..Depth(q)' /\ stack[q] \in Seq(Frame) /\ Depth(q) \in Nat
  BY <1>1, EmptySeq DEF Typed, TypeOK, Depth
<1>3. CASE 1 \in 1..Depth(q) /\ g = f
  <2>1. stack[q] # <<>>
    BY <1>2, <1>3, EmptySeq DEF Depth
  <2>2. CASE status[q] = "done" \/ status'[q] # "done"
    BY <1>3, <2>1, <2>2 DEF ProgressInv
  <2>3. CASE status[q] # "done" /\ status'[q] = "done"
    <3>1. f.todo = <<>>
      BY <1>1, <2>3, EveryDone DEF EndOfTU, Top
    <3> QED
      BY <1>3, <2>1, <3>1 DEF ProgressInv
  <2> QED
    BY <2>2, <2>3
<1>4. CASE 1 \in 1..Depth(q) /\ status[q] = "running" /\ Turns(f, g)
  <2>1. stack[q] # <<>> /\ FrameOK(f) /\ f.mod = TU /\ Sound(f)
    BY <1>1, <1>2, <1>4, EmptySeq DEF Depth, Typed, StackOK, SoundInv
  <2>2. Progress(q, g)
    BY <1>4, <2>1, TurnsProgress DEF ProgressInv
  <2>3. ASSUME status'[q] = "done" PROVE g.todo = <<>>
    <3>1. EndOfTU(q)
      BY <1>1, <1>4, <2>3, EveryDone
    <3> QED
      BY <3>1 DEF EndOfTU, At, Top
  <2> QED
    BY <2>2, <2>3
<1>5. CASE 1 = Depth(q) + 1 /\ Begins(q, g)
  BY <1>1, <1>2, <1>5, RunningTop DEF Begins
<1> QED
  BY <1>1, <1>2, <1>3, <1>4, <1>5 DEF InstancesStep

(* A compilation that ends without an error has imported all it imports and
   all that needs, with a cache that is up to date when the compilers start
   and headers nobody edits; whatever fails, times out or crashes meanwhile.
   A rebuilt module that is gone again is what loadModule is silent about.  *)
THEOREM SuccessAlwaysMeansImported ==
  ASSUME ~MayEdit
  PROVE  Spec /\ FilesSound => []SuccessMeansImported
<1>1. GraphInv /\ ProgressInv => SuccessMeansImported
  <2> SUFFICES ASSUME GraphInv, ProgressInv, NEW p \in Proc,
                      status[p] = "done", ~stack[p][1].err
               PROVE  /\ ToSet(TUImports[p]) \subseteq Imported(p)
                      /\ \A m \in Imported(p) : Needs(m) \subseteq Imported(p)
    BY DEF SuccessMeansImported, Needs
  <2> DEFINE f == stack[p][1]
  <2>1. stack[p] # <<>> /\ 1 \in 1..Depth(p)
    BY EmptySeq DEF GraphInv, SoundInv, Typed, TypeOK, StackOK, Depth
  <2>2. Reading(f) /\ Complete(f) /\ Progress(p, f) /\ f.todo = <<>>
    BY <2>1 DEF GraphInv, SoundInv, ReadingInv, CompleteInv, ProgressInv
  <2>3. Imported(p) = Loaded(f) \ f.fresh
    BY <2>1, ImportedBase DEF Base
  <2>4. ToSet(TUImports[p]) \subseteq f.imps
    BY <2>2, EmptySet DEF Progress
  <2> QED
    BY <2>2, <2>3, <2>4 DEF Reading, Complete
<1>2. GraphInv /\ ProgressInv /\ [Next]_vars => (GraphInv /\ ProgressInv)'
  BY NextGraph, NextProgress
<1>3. Init /\ FilesSound => GraphInv /\ ProgressInv
  BY InitGraph, InitProgress
<1> QED
  BY <1>1, <1>2, <1>3, PTL DEF Spec

-----------------------------------------------------------------------------
(* Why a compilation without faults reports no error                       *)

(* An instance builds what the instance below it is importing.             *)
Nested ==
  \A p \in Proc : \A i \in 1..Depth(p) :
    i < Depth(p) => Cur(stack[p][i]) = stack[p][i + 1].mod

(* Every step keeps Nested: only innermost instances go on to other imports. *)
LEMMA NextNested == Typed /\ Nested /\ [Next]_vars => Nested'
<1> SUFFICES ASSUME Typed, Nested, [Next]_vars PROVE Nested'
  OBVIOUS
<1>1. ASSUME NEW p \in Proc,
             \/ ImportKnown(p) \/ FindModuleFile(p) \/ LockShared(p)
             \/ WaitForUnlock(p) \/ EndOfModule(p) \/ Recheck(p) \/ OpenAST(p)
             \/ Validate(p) \/ Evict(p) \/ LockFails(p) \/ WaitTimesOut(p) \/ BuildCrash(p)
      PROVE  Nested'
  <2>1. TopTurns(p) /\ status[p] = "running" /\ status' = status
    BY <1>1, LocalTurns
  <2>2. PICK g : SetTop(p, g) /\ Same(Top(p), g)
    BY <2>1 DEF TopTurns, Turns, Steady
  <2>3. /\ \A q \in Proc : Depth(q)' = Depth(q)
        /\ \A q \in Proc : \A i \in 1..Depth(q) :
              IF q = p /\ i = Depth(p) THEN stack'[q][i] = g
              ELSE stack'[q][i] = stack[q][i]
    BY <2>1, <2>2, SetTopFrames
  <2> SUFFICES ASSUME NEW q \in Proc, NEW i \in 1..Depth(q), i < Depth(q)
               PROVE  Cur(stack'[q][i]) = stack'[q][i + 1].mod
    BY <2>3 DEF Nested
  <2>4. Depth(q) \in Nat /\ i + 1 \in 1..Depth(q)
    BY DEF Typed, TypeOK, Depth
  <2>5. stack'[q][i] = stack[q][i]
    BY <2>3, <2>4
  <2>6. stack'[q][i + 1].mod = stack[q][i + 1].mod
    BY <2>2, <2>3, <2>4 DEF Same, Top
  <2> QED
    BY <2>5, <2>6 DEF Nested
<1>2. ASSUME NEW p \in Proc, LockOwned(p) PROVE Nested'
  <2>1. CASE Crashed(p)
    <3>1. Len(stack'[p]) = 0 /\ \A q \in Proc \ {p} : stack'[q] = stack[q]
      BY <2>1, CrashedOK
    <3> QED
      BY <3>1 DEF Nested, Depth
  <2>2. CASE /\ Depth(p)' = Depth(p) + 1
             /\ Begins(p, stack'[p][Depth(p) + 1])
             /\ \A q \in Proc : \A i \in 1..Depth(q) : stack'[q][i] = stack[q][i]
             /\ \A q \in Proc \ {p} : Depth(q)' = Depth(q)
    <3>1. stack'[p][Depth(p) + 1].mod = Cur(Top(p))
      BY <2>2, BeginsFields
    <3> SUFFICES ASSUME NEW q \in Proc, NEW i \in 1..Depth(q)', i < Depth(q)'
                 PROVE  Cur(stack'[q][i]) = stack'[q][i + 1].mod
      BY DEF Nested
    <3>2. Depth(q) \in Nat /\ (q # p => Depth(q)' = Depth(q))
      BY <2>2 DEF Typed, TypeOK, Depth
    <3>3. i \in 1..Depth(q)
      BY <2>2, <3>2
    <3>4. stack'[q][i] = stack[q][i]
      BY <2>2, <3>3
    <3>5. CASE q = p /\ i = Depth(p)
      BY <3>1, <3>4, <3>5 DEF Top
    <3>6. CASE ~(q = p /\ i = Depth(p))
      <4>1. i < Depth(q) /\ i + 1 \in 1..Depth(q)
        BY <2>2, <3>2, <3>3, <3>6
      <4> QED
        BY <2>2, <3>3, <3>4, <4>1 DEF Nested
    <3> QED
      BY <3>5, <3>6
  <2> QED
    BY <1>2, <2>1, <2>2, LockOwnedFrames
<1>3. ASSUME NEW p \in Proc, Unlock(p) PROVE Nested'
  <2>1. /\ Depth(p) > 1 /\ Depth(p)' = Depth(p) - 1 /\ status[p] = "running"
        /\ \A q \in Proc \ {p} : stack'[q] = stack[q]
        /\ \A i \in 1..Depth(p) - 1 :
              stack'[p][i] = IF i = Depth(p) - 1
                             THEN [stack[p][i] EXCEPT !.pc = "after"]
                             ELSE stack[p][i]
    BY <1>3, UnlockFrames DEF Unlock, At
  <2>2. \A q \in Proc \ {p} : Depth(q)' = Depth(q)
    BY <2>1 DEF Depth
  <2>3. Depth(p) \in Nat
    BY <2>1, RunningTop
  <2>4. ASSUME NEW i \in 1..Depth(p) - 1
        PROVE  /\ stack'[p][i].mod = stack[p][i].mod
               /\ i < Depth(p) - 1 => stack'[p][i] = stack[p][i]
    <3>1. i \in 1..Depth(p)
      BY <2>3
    <3>2. [stack[p][i] EXCEPT !.pc = "after"].mod = stack[p][i].mod
      <4>1. stack[p][i] \in Frame
        BY <3>1, TypedFrames DEF FrameOK
      <4> QED
        BY <4>1 DEF Frame
    <3>3. stack'[p][i] = IF i = Depth(p) - 1 THEN [stack[p][i] EXCEPT !.pc = "after"]
                         ELSE stack[p][i]
      BY <2>1
    <3>4. CASE i = Depth(p) - 1
      BY <2>3, <3>2, <3>3, <3>4
    <3>5. CASE i # Depth(p) - 1
      BY <3>3, <3>5
    <3> QED
      BY <3>4, <3>5
  <2>5. ASSUME NEW i \in 1..Depth(p)', i < Depth(p)'
        PROVE  Cur(stack'[p][i]) = stack'[p][i + 1].mod
    <3>1. /\ i \in 1..Depth(p) - 1 /\ i + 1 \in 1..Depth(p) - 1
          /\ i \in 1..Depth(p) /\ i < Depth(p) - 1 /\ i < Depth(p)
      BY <2>1, <2>3, <2>5
    <3> QED
      BY <2>4, <3>1 DEF Nested
  <2> QED
    BY <2>1, <2>2, <2>5 DEF Nested
<1>4. ASSUME NEW p \in Proc, Crash(p) PROVE Nested'
  <2>1. Len(stack'[p]) = 0 /\ \A q \in Proc \ {p} : stack'[q] = stack[q]
    BY <1>4, CrashFrames, CrashedOK
  <2> QED
    BY <2>1 DEF Nested, Depth
<1>5. ASSUME stack' = stack PROVE Nested'
  BY <1>5 DEF Nested, Depth
<1>6. ASSUME NEW p \in Proc, Step(p) PROVE Nested'
  BY <1>1, <1>2, <1>3, <1>5, <1>6 DEF Step, EndOfTU
<1> QED
  BY <1>1, <1>4, <1>5, <1>6 DEF Next, Environment, EditHeaders, Terminated, vars

(* The modules that have a file, and those with a lock file.               *)
Present == {m \in Module : pcm[m] # NoFile}
Taken == {m \in Module : lock[m] # Free}

(* No fault has happened, and none of the modules has anything wrong.      *)
Quiet == faults = 0 /\ Bad = {} /\ NoMap = {}

(* An instance that has no error, and for which whatever it has found, waits
   for, or is about to open is there, or being built.                       *)
CleanFrame(f, P, L) ==
  /\ ~f.err
  /\ \A m \in Module : f.fm[m] # "absent" /\ (f.fm[m] = "seen" => m \in P)
  /\ f.pc \in {"after", "read"} => Cur(f) \in P
  /\ f.pc = "unlock" => f.mod \in P
  /\ f.pc = "wait" => Cur(f) \in P \cup L
  /\ \A k \in 1..Len(f.rd) : f.rd[k].left \subseteq P

CacheClosed == \A m \in Module : pcm[m] \in Content => Needs(m) \subseteq Present
Clean ==
  /\ \A p \in Proc : status[p] # "crashed"
  /\ CacheClosed
  /\ \A p \in Proc : \A i \in 1..Depth(p) : CleanFrame(stack[p][i], Present, Taken)

(* What one instance needs stays true of it when files are only added, and
   locks only released when the file is there.                              *)
LEMMA CleanGrows ==
  ASSUME NEW f, NEW P, NEW L, NEW Q, NEW M, CleanFrame(f, P, L),
         P \subseteq Q, L \subseteq M \cup Q
  PROVE  CleanFrame(f, Q, M)
BY DEF CleanFrame

(* Asking the FileManager finds the files that are there.                  *)
LEMMA StatClean ==
  ASSUME NEW f, FrameOK(f), NEW m \in Module, NEW c \in BOOLEAN, NEW L,
         CleanFrame(f, Present, L), c => m \in Present
  PROVE  LET g == Stat(f, m, c) IN
         /\ CleanFrame(g, Present, L)
         /\ Seen(g, m) <=> m \in Present
         /\ g.fm[m] # "absent" /\ (m \in Present => g.fm[m] = "seen")
<1> DEFINE g == Stat(f, m, c)
<1>1. /\ Holds(f, g) /\ g.todo = f.todo /\ g.pc = f.pc /\ Cur(g) = Cur(f) /\ Same(f, g)
      /\ \A d \in Module \ {m} : g.fm[d] = f.fm[d]
      /\ g.fm[m] = IF Seen(f, m) THEN "seen" ELSE IF c THEN "absent" ELSE f.fm[m]
  BY StatFields
<1>2. g.err = f.err
  BY StatFields
<1> HIDE DEF g
<1>3. f.fm[m] \in {"unseen", "seen"}
  BY DEF FrameOK, Frame, CleanFrame
<1>4. Seen(f, m) <=> m \in Present
  BY <1>3 DEF Seen, Present, CleanFrame
<1>5. g.fm[m] = IF m \in Present THEN "seen" ELSE f.fm[m]
  BY <1>1, <1>4
<1>6. Seen(g, m) <=> m \in Present
  BY <1>3, <1>5 DEF Seen, Present, CleanFrame
<1>7. ~g.err
  BY <1>2, Zenon DEF CleanFrame
<1>8. \A d \in Module : g.fm[d] # "absent" /\ (g.fm[d] = "seen" => d \in Present)
  BY <1>1, <1>5 DEF CleanFrame
<1>9. CleanFrame(g, Present, L)
  BY <1>1, <1>7, <1>8 DEF CleanFrame, Holds, Same
<1> QED
  BY <1>3, <1>5, <1>6, <1>9 DEF g

(* What is known of the innermost instance.                                *)
LEMMA TopClean ==
  ASSUME GraphInv, Quiet, Clean, NEW p \in Proc, status[p] = "running"
  PROVE  /\ Typed /\ FilesSound /\ Kept /\ CacheClosed
         /\ Top(p) \in Frame /\ FrameOK(Top(p)) /\ Reading(Top(p)) /\ Sound(Top(p))
         /\ FileKept(Top(p)) /\ CleanFrame(Top(p), Present, Taken)
<1>1. Typed /\ ReadingInv /\ FilesSound /\ Kept /\ SoundInv
  BY DEF GraphInv, SoundInv, Untorn, Quiet
<1>2. FrameOK(Top(p)) /\ Top(p) \in Frame /\ Depth(p) \in 1..Depth(p)
  BY <1>1, RunningTop
<1> QED
  BY <1>1, <1>2 DEF SoundInv, ReadingInv, Kept, Clean, Top

(* A step of p after which its innermost instance is as it should be.      *)
TopCleans(p) ==
  \E g : Same(Top(p), g) /\ SetTop(p, g) /\ CleanFrame(g, Present, Taken)

(* An answer from KnownModules,                                            *)
LEMMA ImportKnownCleans ==
  ASSUME GraphInv, Quiet, Clean, NEW p \in Proc, ImportKnown(p)
  PROVE  TopCleans(p)
<1> DEFINE f == Top(p)
           k == [f.known EXCEPT ![Cur(f)] = IF @ = "unknown" THEN "ok" ELSE @]
           d == [f EXCEPT !.known = k]
<1>1. /\ status[p] = "running" /\ f.todo # <<>> /\ SetTop(p, NextCall(d))
  BY DEF ImportKnown, Importing, At
<1>2. FrameOK(f) /\ f \in Frame /\ CleanFrame(f, Present, Taken)
  BY <1>1, TopClean
<1>3. k \in [Module -> {"unknown", "ok", "null"}]
  BY <1>1, <1>2, CurOK DEF Frame
<1> HIDE DEF k
<1>4. /\ FrameOK(d) /\ d.mod = f.mod /\ d.todo = f.todo /\ d.rd = f.rd /\ d.fm = f.fm
  BY <1>2, <1>3 DEF FrameOK, Frame, Cur
<1>5. d.err = f.err
  BY <1>2 DEF Frame
<1> HIDE DEF d
<1>6. Alike(d, NextCall(d)) /\ NextCall(d).pc = "import" /\ Same(d, NextCall(d))
  BY <1>1, <1>4, NextCallFields
<1>7. ~NextCall(d).err
  BY <1>2, <1>5, <1>6, Zenon DEF Alike, CleanFrame
<1>8. CleanFrame(NextCall(d), Present, Taken)
  BY <1>2, <1>4, <1>6, <1>7 DEF Alike, Holds, CleanFrame
<1> QED
  BY <1>1, <1>4, <1>6, <1>8 DEF TopCleans, Same

(* the step to a lock that someone else has, and the end of the wait,      *)
LEMMA WaitCleans ==
  ASSUME GraphInv, Quiet, Clean, NEW p \in Proc, LockShared(p) \/ WaitForUnlock(p)
  PROVE  TopCleans(p)
<1> DEFINE f == Top(p)
           m == Cur(f)
<1>1. /\ status[p] = "running" /\ f.pc \in {"lock", "wait"}
      /\ \/ f.pc = "lock" /\ Held(m) /\ SetTop(p, [f EXCEPT !.pc = "wait"])
         \/ f.pc = "wait" /\ ~Held(m) /\ SetTop(p, [f EXCEPT !.pc = "after"])
  BY DEF LockShared, WaitForUnlock, At
<1>2. FrameOK(f) /\ f \in Frame /\ CleanFrame(f, Present, Taken) /\ Typed
  BY <1>1, TopClean
<1>3. m \in Module
  BY <1>1, <1>2, CurOK DEF FrameOK
<1>4. Held(m) <=> m \in Taken
  BY <1>2, <1>3 DEF Held, Taken, Clean, Typed, TypeOK
<1> HIDE DEF f
<1>5. PICK c \in {"wait", "after"} :
        /\ SetTop(p, [f EXCEPT !.pc = c])
        /\ IF c = "wait" THEN m \in Taken ELSE m \in Present
  BY <1>1, <1>2, <1>4 DEF CleanFrame
<1> DEFINE g == [f EXCEPT !.pc = c]
<1>6. /\ g.pc = c /\ g.mod = f.mod /\ g.todo = f.todo /\ g.fm = f.fm /\ g.rd = f.rd
      /\ Cur(g) = m
  BY <1>2 DEF Frame, Cur
<1>7. g.err = f.err
  BY <1>2 DEF Frame
<1>8. g \in Frame
  BY <1>2 DEF Frame
<1>9. FrameOK(g)
  BY <1>1, <1>2, <1>6, <1>8 DEF FrameOK
<1> HIDE DEF g
<1>10. ~g.err
  BY <1>2, <1>7, Zenon DEF CleanFrame
<1>11. CleanFrame(g, Present, Taken)
  BY <1>2, <1>5, <1>6, <1>10 DEF CleanFrame
<1> QED
  BY <1>5, <1>6, <1>9, <1>11 DEF TopCleans, Same, g, f

(* No module under construction is one the headers on top import.          *)
LEMMA NotOnPath ==
  ASSUME NEW CONSTANT R, Acyclic(R), RankInv(R), NEW p \in Proc,
         status[p] = "running", Top(p).todo # <<>>, Cur(Top(p)) # Top(p).mod
  PROVE  Cur(Top(p)) \notin BuildPath(p)
<1> DEFINE f == Top(p)
           m == Cur(f)
           n == Depth(p)
<1>1. Typed /\ FrameOK(f) /\ m \in Module /\ n \in Nat \ {0} /\ n \in 1..n
  BY RunningTop, CurOK DEF RankInv, LockInv
<1>2. SUFFICES ASSUME NEW i \in 1..n, stack[p][i].mod = m PROVE FALSE
  BY DEF BuildPath
<1>3. i # 1
  BY <1>1, <1>2, ConstantsOK DEF Typed, StackOK
<1>4. i \in 2..n /\ n \in 2..n /\ n \in i..n
  BY <1>1, <1>2, <1>3
<1>5. R[f.mod] <= R[m] /\ Below(R, f)
  BY <1>2, <1>4 DEF RankInv, Ranked, Top
<1> DEFINE s == f.todo
<1>6. s \in Seq(Module) /\ s # <<>> /\ m = Head(s)
  BY <1>1 DEF FrameOK, Frame, Cur
<1>7. 1 \in 1..Len(s) /\ s[1] = m
  <2> HIDE DEF s, m
  <2> QED
    BY <1>6, HeadTailProperties, EmptySeq
<1>8. R[m] < R[f.mod]
  BY <1>5, <1>7 DEF Below
<1>9. R[m] \in Nat /\ R[f.mod] \in Nat
  <2>1. f.mod \in Module
    BY <1>1, <1>4, ModOK DEF Top
  <2> QED
    BY <1>1, <2>1 DEF Acyclic
<1> QED
  BY <1>5, <1>8, <1>9

(* the search for the module file,                                         *)
LEMMA FindModuleFileCleans ==
  ASSUME NEW CONSTANT R, Acyclic(R), RankInv(R), GraphInv, Quiet, Clean,
         NEW p \in Proc, FindModuleFile(p)
  PROVE  TopCleans(p)
<1> DEFINE t == Top(p)
           m == Cur(t)
           f == Stat(t, m, FALSE)
<1>1. status[p] = "running" /\ t.todo # <<>> /\ t.pc = "import"
  BY DEF FindModuleFile, Importing, At
<1>2. FrameOK(t) /\ t \in Frame /\ CleanFrame(t, Present, Taken)
  BY <1>1, TopClean
<1>3. m \in Module
  BY <1>1, <1>2, CurOK
<1>4. /\ Same(t, f) /\ FrameOK(f) /\ f \in Frame /\ f.todo = t.todo /\ f.rd = t.rd
      /\ f.pc = t.pc /\ Cur(f) = m /\ f.mod = t.mod
  BY <1>2, <1>3, StatFields DEF Same, Holds, FrameOK
<1>5. CleanFrame(f, Present, Taken) /\ (Seen(f, m) <=> m \in Present)
  <2> DEFINE c == FALSE
  <2>1. c \in BOOLEAN /\ ~c
    OBVIOUS
  <2> HIDE DEF c
  <2>2. LET g == Stat(t, m, c) IN
        CleanFrame(g, Present, Taken) /\ (Seen(g, m) <=> m \in Present)
    BY <1>2, <1>3, <2>1, StatClean
  <2> QED
    BY <2>2 DEF c
<1>6. m # f.mod /\ \/ m \in Present /\ SetTop(p, [f EXCEPT !.pc = "read", !.why = "cached"])
                   \/ m \in NoMap \/ m \in BuildPath(p)
                   \/ SetTop(p, [f EXCEPT !.pc = "lock", !.why = "build"])
  BY <1>4, <1>5 DEF FindModuleFile
<1>7. m \notin NoMap /\ m \notin BuildPath(p)
  BY <1>1, <1>4, <1>6, NotOnPath DEF Quiet
<1>8. PICK c \in {"read", "lock"}, w \in {"cached", "build"} :
        /\ SetTop(p, [f EXCEPT !.pc = c, !.why = w])
        /\ c = "read" => m \in Present
  BY <1>6, <1>7
<1> HIDE DEF t, f
<1> DEFINE g == [f EXCEPT !.pc = c, !.why = w]
<1>9. /\ FrameOK(g) /\ g.mod = f.mod /\ g.todo = f.todo /\ g.pc = c /\ g.fm = f.fm
      /\ g.rd = f.rd /\ Cur(g) = m
  BY <1>1, <1>4, <1>6 DEF FrameOK, Frame, Cur
<1>10. g.err = f.err
  BY <1>4 DEF Frame
<1> HIDE DEF g
<1>11. ~g.err
  BY <1>5, <1>10, Zenon DEF CleanFrame
<1>12. CleanFrame(g, Present, Taken)
  BY <1>5, <1>8, <1>9, <1>11 DEF CleanFrame
<1> QED
  BY <1>4, <1>8, <1>9, <1>12 DEF TopCleans, Same, g, t

(* the second search, after compileModule,                                 *)
LEMMA RecheckCleans ==
  ASSUME GraphInv, Quiet, Clean, NEW p \in Proc, Recheck(p)
  PROVE  TopCleans(p)
<1> DEFINE t == Top(p)
           m == Cur(t)
           f == Stat(t, m, TRUE)
<1>1. status[p] = "running" /\ t.pc = "after"
  BY DEF Recheck, At
<1>2. FrameOK(t) /\ t \in Frame /\ CleanFrame(t, Present, Taken) /\ t.todo # <<>>
  BY <1>1, TopClean DEF FrameOK
<1>3. m \in Module /\ m \in Present /\ m # t.mod
  BY <1>1, <1>2, CurOK DEF CleanFrame, FrameOK
<1>4. /\ Same(t, f) /\ FrameOK(f) /\ f \in Frame /\ f.todo = t.todo /\ f.rd = t.rd
      /\ f.pc = t.pc /\ Cur(f) = m /\ f.mod = t.mod
  BY <1>2, <1>3, StatFields DEF Same, Holds, FrameOK
<1>5. CleanFrame(f, Present, Taken) /\ Seen(f, m)
  BY <1>2, <1>3, StatClean
<1>6. SetTop(p, [f EXCEPT !.pc = "read"])
  BY <1>4, <1>5 DEF Recheck
<1> HIDE DEF t, f
<1> DEFINE g == [f EXCEPT !.pc = "read"]
<1>9. /\ FrameOK(g) /\ g.mod = f.mod /\ g.todo = f.todo /\ g.pc = "read" /\ g.fm = f.fm
      /\ g.rd = f.rd /\ Cur(g) = m
  BY <1>1, <1>2, <1>3, <1>4 DEF FrameOK, Frame, Cur
<1>10. g.err = f.err
  BY <1>4 DEF Frame
<1> HIDE DEF g
<1>11. ~g.err
  BY <1>5, <1>10, Zenon DEF CleanFrame
<1>12. CleanFrame(g, Present, Taken)
  BY <1>3, <1>5, <1>9, <1>11 DEF CleanFrame
<1> QED
  BY <1>4, <1>6, <1>9, <1>12 DEF TopCleans, Same, g, t

(* the end of a file,                                                      *)
LEMMA FileReadCleans ==
  ASSUME NEW f, FrameOK(f), f.todo # <<>>, f.pc = "read", NEW m, NEW P, NEW L,
         CleanFrame(f, P, L)
  PROVE  CleanFrame(FileRead(f, m), P, L) /\ Same(f, FileRead(f, m))
<1> DEFINE g == FileRead(f, m)
<1>1. Finishes(f, g, m, f.rd) /\ Same(f, g) /\ g.fm = f.fm
  BY FileReadFields
<1>2. g.err = f.err
  BY FileReadFields
<1> HIDE DEF g
<1>3. ~g.err
  BY <1>2, Zenon DEF CleanFrame
<1>4. CASE f.rd = <<>>
  <2>1. g.rd = <<>> /\ g.pc = "import" /\ Len(<<>>) = 0
    BY <1>1, <1>4, EmptySeq DEF Finishes
  <2> QED
    BY <1>1, <1>3, <2>1 DEF CleanFrame, g
<1>5. CASE f.rd # <<>>
  <2>1. g.rd = Advance(f.rd, m) /\ g.pc = f.pc /\ g.todo = f.todo
    BY <1>1, <1>5 DEF Finishes
  <2>2. /\ Len(g.rd) = Len(f.rd)
        /\ \A k \in 1..Len(f.rd) : g.rd[k].left \subseteq f.rd[k].left
    BY <1>5, <2>1, FrameRd, AdvanceFields
  <2> QED
    BY <1>1, <1>3, <2>1, <2>2 DEF CleanFrame, Cur, g
<1> QED
  BY <1>4, <1>5

(* What a step makes of the innermost instance, there is only one answer.  *)
LEMMA SetTopUnique ==
  ASSUME Typed, NEW p \in Proc, status[p] = "running", status' = status,
         NEW g, NEW h, SetTop(p, g), SetTop(p, h), Same(Top(p), h)
  PROVE  g = h
<1> DEFINE n == Len(stack[p])
<1>1. stack[p] \in Seq(Frame) /\ n \in 1..n /\ stack \in [Proc -> Seq(Frame)]
  BY RunningTop DEF Depth, Typed, TypeOK
<1>2. stack'[p][n] = h
  BY <1>1, SetTopOK
<1>3. stack'[p][n] = g
  <2> DEFINE s == [stack[p] EXCEPT ![n] = g]
  <2>1. stack' = [stack EXCEPT ![p] = s]
    BY DEF SetTop, Depth
  <2>2. s[n] = g
    BY <1>1
  <2> HIDE DEF s
  <2> QED
    BY <1>1, <2>1, <2>2
<1> QED
  BY <1>2, <1>3

(* the opening of a file,                                                  *)
LEMMA OpenASTCleans ==
  ASSUME GraphInv, Quiet, Clean, NEW p \in Proc, OpenAST(p)
  PROVE  TopCleans(p)
<1> DEFINE t == Top(p)
<1>1. status[p] = "running" /\ t.pc = "read"
  BY DEF OpenAST, AtFile, At
<1>2. /\ FrameOK(t) /\ t \in Frame /\ CleanFrame(t, Present, Taken) /\ t.todo # <<>>
      /\ Typed /\ Kept /\ FilesSound /\ CacheClosed
  BY <1>1, TopClean DEF FrameOK
<1>3. PICK m \in Targets(t) :
        LET f == Stat(t, m, TRUE) IN
        \/ SetTop(p, FileRead(f, m))
        \/ f.fm[m] = "absent" \/ pcm[m] \in {NoFile, Torn}
        \/ /\ pcm[m] \notin {NoFile, Torn}
           /\ SetTop(p, [f EXCEPT !.chain[m] = pcm[m], !.fresh = @ \cup {m},
                                  !.rd = Append(@, [m |-> m, left |-> pcm[m].imps])])
  BY DEF OpenAST
<1>4. m \in Module /\ m \in Present
  <2>1. m \in Module
    BY <1>1, <1>2, TargetsOK
  <2>2. CASE t.rd = <<>>
    BY <1>1, <1>2, <2>1, <2>2 DEF Targets, CleanFrame
  <2>3. CASE t.rd # <<>>
    <3>1. Len(t.rd) \in 1..Len(t.rd)
      BY <1>2, <2>3, FrameRd
    <3> QED
      BY <1>2, <2>1, <2>3, <3>1 DEF Targets, CleanFrame, Last
  <2> QED
    BY <2>1, <2>2, <2>3
<1> DEFINE f == Stat(t, m, TRUE)
<1>5. /\ Same(t, f) /\ FrameOK(f) /\ f \in Frame /\ f.todo = t.todo /\ f.rd = t.rd
      /\ f.pc = t.pc /\ Cur(f) = Cur(t) /\ f.mod = t.mod
  BY <1>2, <1>4, StatFields DEF Same, Holds, FrameOK
<1>6. CleanFrame(f, Present, Taken) /\ f.fm[m] # "absent"
  BY <1>2, <1>4, StatClean
<1>7. pcm[m] \in Content /\ pcm[m] \notin {NoFile, Torn}
  BY <1>2, <1>4 DEF Present, Kept, Typed, TypeOK
<1>8. \/ SetTop(p, FileRead(f, m))
      \/ SetTop(p, [f EXCEPT !.chain[m] = pcm[m], !.fresh = @ \cup {m},
                             !.rd = Append(@, [m |-> m, left |-> pcm[m].imps])])
  BY <1>3, <1>6, <1>7
<1> HIDE DEF t, f
<1>9. CASE SetTop(p, FileRead(f, m))
  BY <1>1, <1>2, <1>5, <1>6, <1>9, FileReadCleans DEF TopCleans, Same, t
<1>10. CASE SetTop(p, [f EXCEPT !.chain[m] = pcm[m], !.fresh = @ \cup {m},
                                !.rd = Append(@, [m |-> m, left |-> pcm[m].imps])])
  <2> DEFINE e == [m |-> m, left |-> pcm[m].imps]
             r == Append(f.rd, e)
             g == [f EXCEPT !.chain[m] = pcm[m], !.fresh = @ \cup {m}, !.rd = r]
  <2>1. SetTop(p, g)
    BY <1>10
  <2>2. e \in Block /\ e.left \subseteq Present
    BY <1>2, <1>4, <1>7 DEF Block, Content, FilesSound, FileOK, CacheClosed
  <2>3. f.rd \in Seq(Block) /\ Len(f.rd) \in Nat
    BY <1>5, FrameRd
  <2> HIDE DEF e
  <2>4. /\ Len(r) = Len(f.rd) + 1 /\ r[Len(f.rd) + 1] = e
        /\ \A k \in 1..Len(f.rd) : r[k] = f.rd[k]
    BY <2>2, <2>3, AppendProperties
  <2>5. \A k \in 1..Len(r) : r[k].left \subseteq Present
    <3> TAKE k \in 1..Len(r)
    <3>1. CASE k = Len(f.rd) + 1
      BY <2>2, <2>4, <3>1
    <3>2. CASE k # Len(f.rd) + 1
      <4>1. k \in 1..Len(f.rd)
        BY <2>3, <2>4, <3>2
      <4> QED
        BY <1>6, <2>4, <4>1 DEF CleanFrame
    <3> QED
      BY <3>1, <3>2
  <2> HIDE DEF r
  <2>6. /\ g.rd = r /\ g.todo = f.todo /\ g.pc = f.pc /\ g.mod = f.mod /\ g.fm = f.fm
        /\ g.err = f.err
    BY <1>5 DEF Frame
  <2> HIDE DEF g
  <2>7. Same(t, g)
    <3>1. TopTurns(p) /\ status' = status
      BY <1>2, LocalTurns
    <3>2. PICK h : Same(t, h) /\ SetTop(p, h)
      BY <3>1 DEF TopTurns, Turns, Steady, t
    <3> QED
      BY <1>1, <1>2, <2>1, <3>1, <3>2, SetTopUnique DEF t
  <2>8. ~g.err
    BY <1>6, <2>6, Zenon DEF CleanFrame
  <2>9. CleanFrame(g, Present, Taken)
    BY <1>6, <2>5, <2>6, <2>8 DEF CleanFrame, Cur
  <2> QED
    BY <2>1, <2>7, <2>9 DEF TopCleans, t
<1> QED
  BY <1>8, <1>9, <1>10

(* and the end of a control block, which is never out of date.             *)
LEMMA ValidateCleans ==
  ASSUME GraphInv, Quiet, Clean, NEW p \in Proc, Validate(p)
  PROVE  TopCleans(p)
<1> DEFINE f == Top(p)
           n == Len(f.rd)
           m == f.rd[n].m
           b == [f EXCEPT !.rd = Front(@)]
<1>1. status[p] = "running" /\ f.pc = "read" /\ f.rd # <<>>
  BY DEF Validate, At
<1>2. /\ FrameOK(f) /\ f \in Frame /\ CleanFrame(f, Present, Taken) /\ f.todo # <<>>
      /\ Sound(f) /\ Reading(f)
  BY <1>1, TopClean DEF FrameOK
<1>3. n \in 1..n /\ n \in Nat
  BY <1>1, <1>2, FrameRd
<1>4. UpToDate(f, m)
  <2>1. m \in Loaded(f)
    BY <1>2, <1>3 DEF Reading
  <2> QED
    BY <1>2, <2>1 DEF Loaded, Sound, LoadsSound, FileOK, UpToDate
<1>5. SetTop(p, FileRead(b, m))
  BY <1>4 DEF Validate, Last
<1>6. /\ FrameOK(b) /\ b.rd = Front(f.rd) /\ b.mod = f.mod /\ b.todo = f.todo
      /\ b.pc = f.pc /\ b.fm = f.fm /\ b.err = f.err
  BY <1>1, <1>2, FrontFrameOK
<1> HIDE DEF b, f
<1>7. ~b.err
  BY <1>2, <1>6, Zenon DEF CleanFrame
<1>8. CleanFrame(b, Present, Taken)
  <2>1. \A k \in 1..Len(b.rd) : k \in 1..n /\ b.rd[k] = f.rd[k]
    BY <1>1, <1>2, <1>3, <1>6, FrontRd
  <2> QED
    BY <1>2, <1>6, <1>7, <2>1 DEF CleanFrame, Cur
<1>9. CleanFrame(FileRead(b, m), Present, Taken) /\ Same(b, FileRead(b, m))
  BY <1>1, <1>2, <1>6, <1>8, FileReadCleans
<1> QED
  BY <1>5, <1>6, <1>9 DEF TopCleans, Same, f

(* A build that is over has written its module file.                       *)
LEMMA EndOfModuleCleans ==
  ASSUME GraphInv, Quiet, Clean, faults' = 0, NEW p \in Proc, EndOfModule(p)
  PROVE  /\ \E g : /\ Same(Top(p), g) /\ SetTop(p, g)
                   /\ CleanFrame(g, Present', Taken)
         /\ CacheClosed' /\ Present \subseteq Present'
<1> DEFINE f == Top(p)
           m == f.mod
           failed == f.err \/ <<f.mod, f.ver>> \in Bad
           g == [f EXCEPT !.pc = "unlock", !.err = failed]
<1>1. /\ status[p] = "running" /\ Depth(p) > 1 /\ At(p, "import") /\ f.todo = <<>>
      /\ SetTop(p, g)
  BY DEF EndOfModule, At
<1>2. /\ FrameOK(f) /\ f \in Frame /\ CleanFrame(f, Present, Taken) /\ Typed /\ Kept
      /\ CacheClosed /\ Reading(f) /\ FileKept(f) /\ SoundInv
  BY <1>1, TopClean DEF GraphInv
<1>3. ~failed /\ ~f.err
  BY <1>2 DEF CleanFrame, Quiet
<1>4. faults' # faults + 1
  BY DEF Quiet
<1>5. pcm' = [pcm EXCEPT ![m] = Output(f)]
  <2> HIDE DEF f
  <2>1. \/ pcm' = [pcm EXCEPT ![f.mod] = IF ~failed THEN Output(f)
                                         ELSE IF f.direct THEN NoFile ELSE @]
        \/ Fault("rename")
    BY DEF EndOfModule, f
  <2>2. ~Fault("rename")
    BY <1>4 DEF Fault
  <2> HIDE DEF failed
  <2> QED
    BY <1>3, <2>1, <2>2
<1>6. /\ m \in Module /\ pcm \in [Module -> Content \cup {NoFile, Torn}]
      /\ Output(f) \in Content
  <2>1. Depth(p) \in 1..Depth(p) /\ Depth(p) # 1
    BY <1>1, <1>2, RunningTop
  <2>2. m # TU
    BY <1>2, <2>1 DEF Typed, StackOK, Top
  <2> QED
    BY <1>2, <2>2, OutputOK DEF Frame, Typed, TypeOK
<1>7. Present' = Present \cup {m}
  BY <1>5, <1>6, ConstantsOK DEF Present
<1>8. f.imps = Needs(m)
  <2>1. Publishes(p, m)
    BY <1>1, <1>3, <1>5, <1>6 DEF Publishes
  <2> QED
    BY <1>2, <1>6, <2>1, PublishedSound
<1>9. Needs(m) \subseteq Present
  BY <1>2, <1>8, ConstantsOK DEF Reading, FileKept, Loaded, Present
<1>10. CacheClosed'
  <2> SUFFICES ASSUME NEW d \in Module, pcm'[d] \in Content PROVE Needs(d) \subseteq Present'
    BY DEF CacheClosed
  <2>1. CASE d = m
    BY <1>7, <1>9, <2>1
  <2>2. CASE d # m
    <3>1. pcm[d] \in Content
      BY <1>5, <1>6, <2>2
    <3> QED
      BY <1>2, <1>7, <3>1 DEF CacheClosed
  <2> QED
    BY <2>1, <2>2
<1>11. Same(f, g)
  <2>1. TopTurns(p) /\ status' = status
    BY <1>2, LocalTurns
  <2>2. PICK h : Same(f, h) /\ SetTop(p, h)
    BY <2>1 DEF TopTurns, Turns, Steady
  <2> HIDE DEF g, f
  <2>3. g = h
    BY <1>1, <1>2, <2>1, <2>2, SetTopUnique DEF f
  <2> QED
    BY <2>2, <2>3
<1>12. CleanFrame(g, Present', Taken)
  <2> HIDE DEF f, failed
  <2>1. failed = FALSE
    BY <1>3, Zenon DEF failed
  <2>2. g.pc = "unlock" /\ g.mod = m /\ g.fm = f.fm /\ g.rd = f.rd
    BY <1>2 DEF Frame
  <2>3. g.err = FALSE
    BY <1>2, <2>1 DEF Frame
  <2> HIDE DEF g
  <2> QED
    BY <1>2, <1>7, <2>2, <2>3 DEF CleanFrame
<1> QED
  BY <1>1, <1>7, <1>10, <1>11, <1>12

(* The instances that are as they were stay clean.                         *)
LEMMA KeepsClean ==
  ASSUME Clean, Present \subseteq Present', Taken \subseteq Taken' \cup Present',
         \A p \in Proc : status'[p] # "crashed", CacheClosed',
         \A q \in Proc : \A i \in 1..Depth(q)' :
           \/ i \in 1..Depth(q) /\ stack'[q][i] = stack[q][i]
           \/ CleanFrame(stack'[q][i], Present', Taken')
  PROVE  Clean'
<1> SUFFICES ASSUME NEW q \in Proc, NEW i \in 1..Depth(q)'
             PROVE  CleanFrame(stack'[q][i], Present', Taken')
  BY DEF Clean
<1>1. CASE i \in 1..Depth(q) /\ stack'[q][i] = stack[q][i]
  BY <1>1, CleanGrows DEF Clean
<1> QED
  BY <1>1

(* A step of an innermost instance that leaves cache and locks alone.      *)
LEMMA TopKeepsClean ==
  ASSUME Typed, Clean, NEW p \in Proc, status[p] = "running", status' = status,
         lock' = lock, Present \subseteq Present', CacheClosed',
         NEW g, Same(Top(p), g), SetTop(p, g), CleanFrame(g, Present', Taken)
  PROVE  Clean'
<1>1. Taken' = Taken
  BY DEF Taken
<1>2. /\ \A q \in Proc : Depth(q)' = Depth(q)
      /\ \A q \in Proc : \A i \in 1..Depth(q) :
            IF q = p /\ i = Depth(p) THEN stack'[q][i] = g
            ELSE stack'[q][i] = stack[q][i]
  BY SetTopFrames
<1>3. \A q \in Proc : \A i \in 1..Depth(q)' :
        \/ i \in 1..Depth(q) /\ stack'[q][i] = stack[q][i]
        \/ CleanFrame(stack'[q][i], Present', Taken')
  BY <1>1, <1>2
<1>4. \A q \in Proc : status'[q] # "crashed"
  BY DEF Clean
<1> QED
  BY <1>1, <1>3, <1>4, KeepsClean

(* A build begins with nothing found and nothing reported.                 *)
LEMMA LockOwnedCleans ==
  ASSUME GraphInv, Quiet, Clean, faults' = 0, NEW p \in Proc, LockOwned(p)
  PROVE  Clean'
<1> DEFINE m == Cur(Top(p))
<1>1. /\ status[p] = "running"
  BY DEF LockOwned, At
<1>2. Typed /\ Kept /\ CacheClosed
  BY <1>1, TopClean
<1>3. faults' # faults + 1 /\ m \notin NoMap
  BY DEF Quiet
<1>4. /\ status' = status /\ pcm' = pcm /\ Depth(p)' = Depth(p) + 1
      /\ Begins(p, stack'[p][Depth(p) + 1])
      /\ \A q \in Proc : \A i \in 1..Depth(q) : stack'[q][i] = stack[q][i]
      /\ \A q \in Proc \ {p} : Depth(q)' = Depth(q)
  BY <1>2, <1>3, LockOwnedFrames
<1>5. Present' = Present /\ CacheClosed'
  BY <1>2, <1>4 DEF Present, CacheClosed
<1>6. Taken \subseteq Taken'
  <2>1. lock' = [lock EXCEPT ![m] = p] /\ m \in Module
    BY <1>4 DEF Begins
  <2>2. lock \in [Module -> Proc \cup {Free}]
    BY <1>2 DEF Typed, TypeOK
  <2> QED
    BY <2>1, <2>2, ConstantsOK DEF Taken
<1>7. CleanFrame(stack'[p][Depth(p) + 1], Present', Taken')
  <2> DEFINE g == stack'[p][Depth(p) + 1]
  <2>1. /\ g.pc = "import" /\ Len(g.rd) = 0 /\ \A x \in Module : g.fm[x] = "unseen"
    BY <1>4, BeginsFields
  <2>2. ~g.err
    BY <1>4, BeginsFields
  <2> HIDE DEF g
  <2>3. CleanFrame(g, Present', Taken')
    BY <2>1, <2>2 DEF CleanFrame
  <2> QED
    BY <2>3 DEF g
<1>8. \A q \in Proc : \A i \in 1..Depth(q)' :
        \/ i \in 1..Depth(q) /\ stack'[q][i] = stack[q][i]
        \/ CleanFrame(stack'[q][i], Present', Taken')
  <2> TAKE q \in Proc
  <2> TAKE i \in 1..Depth(q)'
  <2>1. Depth(q) \in Nat /\ (q # p => Depth(q)' = Depth(q))
    BY <1>2, <1>4 DEF Typed, TypeOK, Depth
  <2>2. CASE q = p /\ i = Depth(p) + 1
    BY <1>7, <2>2
  <2>3. CASE ~(q = p /\ i = Depth(p) + 1)
    <3>1. i \in 1..Depth(q)
      BY <1>4, <2>1, <2>3
    <3> QED
      BY <1>4, <3>1
  <2> QED
    BY <2>2, <2>3
<1>9. \A q \in Proc : status'[q] # "crashed"
  BY <1>4 DEF Clean
<1> QED
  BY <1>5, <1>6, <1>8, <1>9, KeepsClean

(* The lock goes away when the module file is there.                       *)
LEMMA UnlockCleans ==
  ASSUME GraphInv, Quiet, Clean, Nested, NEW p \in Proc, Unlock(p)
  PROVE  Clean'
<1> DEFINE n == Depth(p)
           f == stack[p][n - 1]
           g == [f EXCEPT !.pc = "after"]
<1>1. status[p] = "running"
  BY DEF Unlock, At
<1>2. Typed /\ CleanFrame(Top(p), Present, Taken) /\ CacheClosed /\ n \in Nat
  BY <1>1, TopClean, RunningTop
<1>3. /\ status' = status /\ pcm' = pcm /\ Top(p).pc = "unlock" /\ n > 1
      /\ lock' = [lock EXCEPT ![Top(p).mod] = Free]
      /\ Depth(p)' = n - 1
      /\ \A q \in Proc \ {p} : stack'[q] = stack[q]
      /\ \A i \in 1..n - 1 : stack'[p][i] = IF i = n - 1 THEN g ELSE stack[p][i]
  BY <1>2, UnlockFrames
<1>4. Present' = Present /\ CacheClosed'
  BY <1>2, <1>3 DEF Present, CacheClosed
<1>5. Top(p).mod \in Present
  BY <1>2, <1>3 DEF CleanFrame
<1>6. Taken \subseteq Taken' \cup Present'
  <2>1. \A m \in Module : m # Top(p).mod => lock'[m] = lock[m]
    BY <1>2, <1>3 DEF Typed, TypeOK
  <2> QED
    BY <1>4, <1>5, <2>1 DEF Taken
<1>7. CleanFrame(g, Present', Taken')
  <2>1. n - 1 \in 1..n /\ n - 1 < n /\ n - 1 + 1 = n
    BY <1>2, <1>3
  <2>2. FrameOK(f) /\ f \in Frame /\ CleanFrame(f, Present, Taken)
    BY <1>2, <2>1, TypedFrames DEF Clean, FrameOK
  <2>3. Cur(f) = Top(p).mod
    BY <2>1 DEF Nested, Top
  <2> HIDE DEF f
  <2>4. g.pc = "after" /\ g.mod = f.mod /\ g.fm = f.fm /\ g.rd = f.rd /\ Cur(g) = Cur(f)
    BY <2>2 DEF Frame, Cur
  <2>5. g.err = f.err
    BY <2>2 DEF Frame
  <2> HIDE DEF g
  <2>6. ~g.err
    BY <2>2, <2>5, Zenon DEF CleanFrame
  <2> QED
    BY <1>4, <1>5, <2>2, <2>3, <2>4, <2>6 DEF CleanFrame
<1> HIDE DEF g
<1>8. \A q \in Proc : \A i \in 1..Depth(q)' :
        \/ i \in 1..Depth(q) /\ stack'[q][i] = stack[q][i]
        \/ CleanFrame(stack'[q][i], Present', Taken')
  <2> TAKE q \in Proc
  <2> TAKE i \in 1..Depth(q)'
  <2>1. CASE q = p
    <3>1. i \in 1..n - 1 /\ i \in 1..n
      BY <1>2, <1>3, <2>1
    <3> QED
      BY <1>3, <1>7, <2>1, <3>1
  <2>2. CASE q # p
    BY <1>3, <2>2 DEF Depth
  <2> QED
    BY <2>1, <2>2
<1>9. \A q \in Proc : status'[q] # "crashed"
  BY <1>3 DEF Clean
<1> QED
  BY <1>4, <1>6, <1>8, <1>9, KeepsClean

CauseInv(R) == RankInv(R) /\ GraphInv /\ Nested /\ (Quiet => Clean)

(* Every step keeps a compilation clean, when it is no fault.              *)
LEMMA NextClean ==
  ASSUME NEW CONSTANT R, Acyclic(R)
  PROVE  CauseInv(R) /\ [Next]_vars => (Quiet => Clean)'
<1> SUFFICES ASSUME CauseInv(R), [Next]_vars, Quiet' PROVE Clean'
  OBVIOUS
<1>1. /\ RankInv(R) /\ GraphInv /\ Nested /\ Typed /\ (Quiet => Clean)
  BY DEF CauseInv, GraphInv, SoundInv
<1>2. faults' = 0 /\ faults' # faults + 1 /\ Quiet
  BY <1>1, FaultsGrow DEF Quiet
<1>3. Clean /\ Untorn
  BY <1>1, <1>2 DEF Untorn, Quiet
<1>4. \A k \in FaultKinds : ~Fault(k)
  BY <1>2 DEF Fault
<1>5. ASSUME NEW p \in Proc,
             \/ ImportKnown(p) \/ FindModuleFile(p) \/ LockShared(p) \/ WaitForUnlock(p)
             \/ Recheck(p) \/ OpenAST(p) \/ Validate(p)
      PROVE  Clean'
  <2>1. PICK g : Same(Top(p), g) /\ SetTop(p, g) /\ CleanFrame(g, Present, Taken)
    BY <1>1, <1>2, <1>3, <1>5, ImportKnownCleans, FindModuleFileCleans, WaitCleans,
       RecheckCleans, OpenASTCleans, ValidateCleans DEF TopCleans
  <2>2. /\ pcm' = pcm /\ status[p] = "running" /\ status' = status /\ lock' = lock
    BY <1>1, <1>3, <1>5, CacheKept, LocalTurns, LocalSteps
  <2>3. Present' = Present /\ CacheClosed'
    BY <1>3, <2>2 DEF Present, CacheClosed, Clean
  <2> QED
    BY <1>1, <1>3, <2>1, <2>2, <2>3, TopKeepsClean
<1>6. ASSUME NEW p \in Proc, EndOfModule(p) PROVE Clean'
  <2>1. /\ CacheClosed' /\ Present \subseteq Present'
        /\ \E g : Same(Top(p), g) /\ SetTop(p, g) /\ CleanFrame(g, Present', Taken)
    BY <1>1, <1>2, <1>3, <1>6, EndOfModuleCleans
  <2>2. /\ status[p] = "running" /\ status' = status /\ lock' = lock
    BY <1>1, <1>6, LocalTurns, LocalSteps
  <2> QED
    BY <1>1, <1>3, <2>1, <2>2, TopKeepsClean
<1>7. ASSUME NEW p \in Proc, LockOwned(p) \/ Unlock(p) PROVE Clean'
  BY <1>1, <1>2, <1>3, <1>7, LockOwnedCleans, UnlockCleans
<1>8. ASSUME NEW p \in Proc, LockFails(p) \/ WaitTimesOut(p) \/ BuildCrash(p) \/ Crash(p)
      PROVE  FALSE
  BY <1>2, <1>8 DEF LockFails, WaitTimesOut, BuildCrash, Crash, Fault
<1>9. ASSUME NEW p \in Proc, Evict(p) PROVE FALSE
  <2>1. Sound(Top(p)) /\ Top(p).pc = "evict"
    BY <1>1, <1>2, <1>3, <1>9, TopClean DEF Evict, At
  <2> QED
    BY <2>1 DEF Sound, LoadsSound
<1>10. ASSUME pcm' = pcm, lock' = lock, stack' = stack,
              \A p \in Proc : status'[p] # "crashed"
       PROVE  Clean'
  BY <1>3, <1>10 DEF Clean, CacheClosed, CleanFrame, Present, Taken, Depth
<1>11. ASSUME NEW p \in Proc, EndOfTU(p) PROVE Clean'
  <2>1. /\ pcm' = pcm /\ lock' = lock /\ stack' = stack
        /\ status' = [status EXCEPT ![p] = "done"]
    BY <1>11 DEF EndOfTU
  <2>2. \A q \in Proc : status'[q] # "crashed"
    BY <1>1, <1>3, <2>1 DEF Clean, Typed, TypeOK
  <2> QED
    BY <1>10, <2>1, <2>2
<1>12. ASSUME NEW p \in Proc, Step(p) PROVE Clean'
  BY <1>5, <1>6, <1>7, <1>9, <1>11, <1>12 DEF Step
<1>13. ASSUME UNCHANGED <<pcm, lock, stack, status>> PROVE Clean'
  BY <1>3, <1>10, <1>13 DEF Clean
<1> QED
  BY <1>8, <1>12, <1>13 DEF Next, Environment, EditHeaders, Terminated, vars

(* An instance reports an error only after a fault, or when a module does not
   compile or is described nowhere: however the processes interleave, the file
   that one of them waited for, or found, is there when it is opened.  The
   module graph is acyclic, no header is edited, and the cache at the start is
   up to date and has with each file those it imports: without one of these, a
   cycle, a file that changes between two builds, one that is removed while
   others that import it stay, or one that is missing is reported.          *)
THEOREM ErrorsHaveACause ==
  ASSUME NEW CONSTANT R, Acyclic(R), ~MayEdit
  PROVE  Spec /\ FilesSound /\ CacheClosed => []ErrorHasCause
<1>1. Init /\ FilesSound /\ CacheClosed => CauseInv(R)
  <2> SUFFICES ASSUME Init, FilesSound, CacheClosed PROVE CauseInv(R)
    OBVIOUS
  <2>1. RankInv(R)
    <3>1. \A p \in Proc : Len(stack[p]) = 1
      BY DEF Init
    <3> QED
      BY <3>1, InitLocks DEF RankInv, Ranked, Depth
  <2>2. Nested
    <3>1. \A p \in Proc : Len(stack[p]) = 1
      BY DEF Init
    <3> QED
      BY <3>1 DEF Nested, Depth
  <2>3. ASSUME NEW p \in Proc, NEW i \in 1..Depth(p)
        PROVE  CleanFrame(stack[p][i], Present, Taken)
    BY <2>3, InitInstances DEF CleanFrame
  <2>4. Clean
    BY <2>3 DEF Clean, Init
  <2> QED
    BY <2>1, <2>2, <2>4, InitGraph DEF CauseInv
<1>2. CauseInv(R) /\ [Next]_vars => CauseInv(R)'
  <2> SUFFICES ASSUME CauseInv(R), [Next]_vars PROVE CauseInv(R)'
    OBVIOUS
  <2>1. RankInv(R) /\ GraphInv /\ Nested /\ Typed
    BY DEF CauseInv, GraphInv, SoundInv
  <2>2. RankInv(R)' /\ GraphInv' /\ Nested'
    BY <2>1, NextRanked, NextGraph, NextNested
  <2>3. (Quiet => Clean)'
    BY NextClean
  <2> QED
    BY <2>2, <2>3 DEF CauseInv
<1>3. CauseInv(R) => ErrorHasCause
  <2> SUFFICES ASSUME CauseInv(R), NEW p \in Proc, NEW i \in 1..Depth(p),
                      stack[p][i].err, ~(faults > 0 \/ Bad # {} \/ NoMap # {})
               PROVE  FALSE
    BY DEF ErrorHasCause, Instances, Instance
  <2>1. faults \in Nat
    BY ConstantsOK DEF CauseInv, GraphInv, SoundInv, Typed, TypeOK
  <2>2. Quiet
    BY <2>1 DEF Quiet
  <2> QED
    BY <2>2, Zenon DEF CauseInv, Clean, CleanFrame
<1> QED
  BY <1>1, <1>2, <1>3, PTL DEF Spec
==============================================================================
