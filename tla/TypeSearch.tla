----------------------------- MODULE TypeSearch -----------------------------
(* The SPIR metadata of a module: which optional features its types use.  The
   types of its globals, of the arguments of its functions and of their
   instructions and operands are each searched, twice, for double and for half.

   The search is recursive; its calls are frames on a stack.                *)
EXTENDS Naturals, Sequences, SequencesExt, FiniteSets

CONSTANTS
  TypeGraphs,   \* functions from types to [kind, elems]
  Double, Half, \* two of the types
  Uses,         \* what may be in a module: records [kind, type]
  MaxUses,      \* bound: how much there is in one
  MaxDepth      \* the frames that fit on the stack

Kinds == {"scalar", "sequential", "pointer", "struct", "function"}
UseKinds == {"global", "argument", "result", "FPExt", "operand", "varargOperand"}

ASSUME TypeSearchAssumption ==
  /\ \A g \in TypeGraphs :
       /\ IsFiniteSet(DOMAIN g)
       /\ \A t \in DOMAIN g :
            /\ g[t].kind \in Kinds /\ g[t].elems \in Seq(DOMAIN g)
            /\ g[t].kind = "scalar" => g[t].elems = <<>>
            /\ g[t].kind \in {"sequential", "pointer"} => Len(g[t].elems) = 1
  /\ \A u \in Uses : u.kind \in UseKinds /\ \A g \in TypeGraphs : u.type \in DOMAIN g
  /\ MaxUses \in Nat /\ MaxDepth \in Nat

VARIABLES
  types,        \* the types of the module
  uses,         \* what there is in the module
  at,           \* which of it is looked at now
  forHalf,      \* whether it is half that is searched for: pointers are ignored
  stack,        \* the calls of searchTypeInType
  lists,        \* the typesLists they have, the current one last
  bUseDoubles, fp16

vars == <<types, uses, at, forHalf, stack, lists, bUseDoubles, fp16>>
metadata == <<bUseDoubles, fp16>>

(* A call for a type, and how many of its elements it has gone to.          *)
Frame(ty, list) == [type |-> ty, next |-> 0, list |-> list]

(* A mutant: a search starts with the list that the last one ended with.    *)
MutSearch(ty) == stack' = <<Frame(ty, 1)>> /\ lists' = <<Last(lists)>>

(* The wrapper of three arguments: the list is new.                         *)
Search(ty) == stack' = <<Frame(ty, 1)>> /\ lists' = << {} >>

Init ==
  /\ types \in TypeGraphs
  /\ uses \in UNION {[1..n -> Uses] : n \in 1..MaxUses}
  /\ at = 1 /\ forHalf = FALSE
  /\ stack = <<Frame(uses[1].type, 1)>> /\ lists = << {} >>
  /\ bUseDoubles = FALSE /\ fp16 = FALSE

-----------------------------------------------------------------------------
(* AddSPIRMetadata, FunctionAddSPIRMetadata                                 *)

Target == IF forHalf THEN Half ELSE Double

(* What a float is extended to, and what an argument of printf is promoted
   to, is a double that nobody asked for.                                   *)
Counts(u) == u.kind \notin {"FPExt", "varargOperand"}

(* After a search: that for half, then the next thing.                      *)
Found(yes) ==
  /\ IF forHalf
     THEN /\ fp16' = (fp16 \/ yes)
          /\ at' = at + 1 /\ forHalf' = FALSE
          /\ UNCHANGED bUseDoubles
          /\ IF at = Len(uses) THEN stack' = <<>> /\ lists' = <<>>
                               ELSE Search(uses[at + 1].type)
     ELSE /\ bUseDoubles' = (bUseDoubles \/ (yes /\ Counts(uses[at])))
          /\ forHalf' = TRUE
          /\ UNCHANGED <<at, fp16>>
          /\ Search(uses[at].type)
  /\ UNCHANGED <<types, uses>>

-----------------------------------------------------------------------------
(* searchTypeInType                                                         *)

Top == Last(stack)
TypeOf(ty) == types[ty]
Seen == Last(lists)

Same == UNCHANGED <<types, uses, at, forHalf, metadata>>
Becomes(frame) == stack' = Append(Front(stack), frame) /\ Same

(* A mutant: the list stays that of the call that has returned.             *)
MutListsOf(frames) == lists

ListsOf(frames) == SubSeq(lists, 1, Last(frames).list)

(* False is returned, and the search goes on in the caller.                 *)
ReturnFalse ==
  IF Len(stack) = 1 THEN Found(FALSE)
  ELSE /\ stack' = Front(stack) /\ lists' = ListsOf(Front(stack))
       /\ Same

(* A mutant: what has been seen is followed again.                          *)
MutMayFollow(ty) == ~forHalf

(* A pointer to what is on the list is not followed, nor any for half.      *)
MayFollow(ty) == ~forHalf /\ TypeOf(ty).elems[1] \notin Seen

Passes(ty) ==
  \/ TypeOf(ty).kind = "sequential"
  \/ TypeOf(ty).kind = "pointer" /\ MayFollow(ty)

HasElements(ty) == TypeOf(ty).kind \in {"struct", "function"}

(* True is returned by all the calls there are.                             *)
IsTarget == Top.next = 0 /\ Top.type = Target /\ Found(TRUE)

(* The call is passed on to the one element there is.                       *)
PassOn ==
  /\ Top.next = 0 /\ Top.type # Target /\ Passes(Top.type)
  /\ Becomes(Frame(TypeOf(Top.type).elems[1], Top.list))
  /\ UNCHANGED lists

Open ==
  /\ Top.next = 0 /\ Top.type # Target /\ HasElements(Top.type)
  /\ Becomes([Top EXCEPT !.next = 1])
  /\ lists' = Append(Front(lists), Seen \cup {Top.type})

NotThere ==
  /\ Top.next = 0 /\ Top.type # Target
  /\ ~Passes(Top.type) /\ ~HasElements(Top.type)
  /\ ReturnFalse

(* The elements of a struct are searched with its list, the types of a function
   with a new one each.                                                     *)
SearchElement ==
  LET t == TypeOf(Top.type)
      isNew == t.kind = "function"
  IN /\ Top.next \in 1..Len(t.elems)
     /\ Len(stack) < MaxDepth
     /\ stack' = Front(stack) \o
          <<[Top EXCEPT !.next = @ + 1],
            Frame(t.elems[Top.next], IF isNew THEN Len(lists) + 1 ELSE Top.list)>>
     /\ lists' = IF isNew THEN Append(lists, {}) ELSE lists
     /\ Same

NoMoreElements == Top.next > Len(TypeOf(Top.type).elems) /\ Top.next > 0 /\ ReturnFalse

Next ==
  /\ stack # <<>>
  /\ IsTarget \/ PassOn \/ Open \/ NotThere \/ SearchElement \/ NoMoreElements

Spec == Init /\ [][Next]_vars /\ WF_vars(Next)

-----------------------------------------------------------------------------
(* Properties                                                               *)

(* What a type has in it, through types of these kinds.                     *)
Within(g, ty, kinds) ==
  LET More(s) == s \cup UNION {ToSet(g[t].elems) : t \in {u \in s : g[u].kind \in kinds}}
      reach[n \in 0..Cardinality(DOMAIN g)] ==
        IF n = 0 THEN {ty} ELSE More(reach[n - 1])
  IN reach[Cardinality(DOMAIN g)]

(* The variables are of these types, the list of a call is the current one if
   it is that of the call on top, and what a call is in the midst of is on its
   list (searchTypeInType, whose list is passed by reference).              *)
TypeOK ==
  /\ Len(uses) <= MaxUses /\ at \in 1..Len(uses) + 1
  /\ {forHalf, bUseDoubles, fp16} \subseteq BOOLEAN
  /\ stack # <<>> => Top.list = Len(lists)
  /\ \A i \in DOMAIN stack :
       /\ stack[i].next \in 0..Len(TypeOf(stack[i].type).elems) + 1
       /\ stack[i].next > 0 => stack[i].type \in lists[stack[i].list]
       /\ i > 1 => stack[i].list >= stack[i - 1].list

(* The metadata says that the module uses doubles if and only if there is one
   in the type of something in it, however deep and behind whatever pointers,
   but for what is extended or promoted; and half if there is one that is not
   behind a pointer.  That a search stops at what it has been to hides nothing
   (AddSPIRMetadata, FunctionAddSPIRMetadata, searchTypeInType).            *)
MetadataTellsUse ==
  stack = <<>> =>
    /\ bUseDoubles <=> \E i \in DOMAIN uses :
                         Counts(uses[i]) /\ Double \in Within(types, uses[i].type, Kinds)
    /\ fp16 <=> \E i \in DOMAIN uses :
                  Half \in Within(types, uses[i].type, Kinds \ {"pointer"})

(* The search comes to an end, within the stack there is, for all types that a
   program can have, those that contain pointers to themselves included: what
   the comment in searchTypeInType says the list is for.                    *)
SearchEnds == <>(stack = <<>>)
=============================================================================
