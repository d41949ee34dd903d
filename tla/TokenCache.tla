----------------------------- MODULE TokenCache -----------------------------
(* The preprocessor's cache of tokens, as a parser that peeks, parses
   tentatively, annotates and re-parses uses it: CachingLex, PeekAhead and
   their kin, over the stack of lexers (files, macro expansions and token
   streams).

   A call of Lex is a chain of small steps, because a lexer that is at its end
   and a macro that is expanded both lex again from what is on top of the stack
   by then.  `calls` are the calls that wait for a token, `ret` the token on its
   way to the innermost one.                                                *)
EXTENDS Naturals, Sequences, SequencesExt

CONSTANTS
  Base,          \* the tokens of the text, each with a location of its own
  Macro,         \* names that expand when they are lexed from a file
  Expansion,     \* Expansion[m]: the tokens of m's expansion
  File,          \* what the main file holds
  Streams,       \* what the parser stores to parse later
  MaxPeek,       \* bound: how far the parser looks ahead
  MaxMarks,      \* bound: tentative parses within one another
  MaxText,       \* bound: the length of the text with what is entered
  MaxCached,     \* bound: how full the cache may be when a token is put into it
  StreamsWhileCaching,  \* whether streams are entered in caching mode
  None           \* no token

(* A token stands for the tokens of the text it covers: for one, for several
   when it is an annotation, for none when the parser has invented it.      *)
Token == Seq(Base)
Word == Token \cup Macro

ASSUME TokenCacheAssumption ==
  /\ Macro \cap Token = {} /\ None \notin Word
  /\ Expansion \in [Macro -> Seq(Token)] /\ File \in Seq(Word)
  /\ Streams \subseteq Seq(Token)
  /\ MaxPeek \in Nat /\ MaxMarks \in Nat /\ MaxText \in Nat /\ MaxCached \in Nat
  /\ StreamsWhileCaching \in BOOLEAN

VARIABLES
  lexers,     \* the current lexer, last, on top of IncludeMacroStack
  cached,     \* CachedTokens
  cachedPos,  \* CachedLexPos
  backtrack,  \* BacktrackPositions
  calls,      \* the calls that wait for a token, the innermost last
  ret,        \* the token being returned to the innermost call
  read,       \* what the parser has read; the last one is its Tok
  saved,      \* what it had read at the start of each tentative parse
  peek        \* what the last look ahead said, as long as it should hold

vars == <<lexers, cached, cachedPos, backtrack, calls, ret, read, saved, peek>>

Lexer == [kind : {"file", "stream", "caching"}, words : Seq(Word)]
Call == [fn : {"ConsumeToken", "CachingLex", "PeekAhead"}, left : Nat, slot : Nat]

Init ==
  /\ lexers = <<[kind |-> "file", words |-> File]>>
  /\ cached = <<>> /\ cachedPos = 0 /\ backtrack = <<>>
  /\ calls = <<>> /\ ret = None
  /\ read = <<>> /\ saved = <<>> /\ peek = None

-----------------------------------------------------------------------------
(* Helpers *)

Tok == Last(read)
Idle == calls = <<>>
Waits == calls # <<>> /\ ret = None
Calling(fn) == [fn |-> fn, left |-> 0, slot |-> 0]

InCachingLexMode(l) == Last(l).kind = "caching"

(* A mutant: push without looking.                                          *)
MutEnterCachingLexMode(l) == Append(l, [kind |-> "caching", words |-> <<>>])

EnterCachingLexMode(l) ==
  IF InCachingLexMode(l) THEN l ELSE Append(l, [kind |-> "caching", words |-> <<>>])

(* A mutant: pop without looking.                                           *)
MutExitCachingLexMode(l) == Front(l)

ExitCachingLexMode(l) == IF InCachingLexMode(l) THEN Front(l) ELSE l

(* A mutant: a token is only cached for the outermost tentative parse.      *)
MutIsBacktrackEnabled(b) == Len(b) = 1

isBacktrackEnabled(b) == b # <<>>

(* What is still to be read: from the cache, then from the lexers.          *)
Ahead == SubSeq(cached, cachedPos + 1, Len(cached))
Expand(w) == IF w \in Macro THEN Expansion[w] ELSE <<w>>
Uncached ==
  LET ExpandAll(ws) == FlattenSeq([i \in DOMAIN ws |-> Expand(ws[i])])
  IN FlattenSeq([i \in DOMAIN lexers |-> ExpandAll(Reverse(lexers)[i].words)])
Remaining == Ahead \o Uncached

(* The text as the parser sees it, with the token on its way in its place.   *)
Peeking == ~Idle /\ calls[1].fn = "PeekAhead"
Text ==
  LET c == IF Peeking /\ ret # None THEN [cached EXCEPT ![calls[1].slot] = ret]
           ELSE cached
  IN FlattenSeq(read)
     \o (IF ret = None \/ Peeking THEN <<>> ELSE ret)
     \o FlattenSeq(SubSeq(c, cachedPos + 1, Len(c)) \o Uncached)

(* A mutant: put it behind what is cached.                                  *)
MutEntered(t) == Append(cached, t)

Entered(t) == InsertAt(cached, cachedPos + 1, t)

(* AnnotatePreviousCachedTokens: where the annotation t begins in the first
   pos tokens of c, and c with the tokens it covers replaced by it.         *)
BeginsAt(c, pos, t) == {i \in 1..pos : c[i] # <<>> /\ Head(c[i]) = Head(t)}
LastBegin(c, pos, t) == CHOOSE i \in BeginsAt(c, pos, t) :
                          \A j \in BeginsAt(c, pos, t) : j <= i

(* A mutant: the first token of the annotation stays.                       *)
MutAnnotated(c, i, pos, t) == SubSeq(c, 1, i) \o <<t>> \o SubSeq(c, pos + 1, Len(c))

Annotated(c, i, pos, t) == SubSeq(c, 1, i - 1) \o <<t>> \o SubSeq(c, pos + 1, Len(c))

(* The assertions of AnnotatePreviousCachedTokens.                          *)
AnnotationAsserted(pos, t) ==
  /\ cached[pos] # <<>> /\ Last(cached[pos]) = Last(t)
  /\ BeginsAt(cached, pos, t) # {} => Last(backtrack) < LastBegin(cached, pos, t)

(* AnnotateCachedTokens(t) once the cursor is at pos.                       *)
AnnotateCachedTokens(pos, t) ==
  IF pos # 0 /\ isBacktrackEnabled(backtrack)
  THEN /\ AnnotationAsserted(pos, t)
       /\ LET B == BeginsAt(cached, pos, t)
              i == LastBegin(cached, pos, t)
          IN IF B = {} THEN cached' = cached /\ cachedPos' = pos
             ELSE cached' = Annotated(cached, i, pos, t) /\ cachedPos' = i
  ELSE cached' = cached /\ cachedPos' = pos

-----------------------------------------------------------------------------
(* The parser's calls *)

ConsumeToken ==
  /\ Idle /\ Remaining # <<>>
  /\ calls' = <<Calling("ConsumeToken")>>
  /\ UNCHANGED <<lexers, cached, cachedPos, backtrack, ret, read, saved, peek>>

(* A mutant: one too early.                                                 *)
MutPeeked(n) == cached[IF cachedPos + n = 0 THEN 1 ELSE cachedPos + n]

Peeked(n) == cached[cachedPos + n + 1]

(* LookAhead(n), of a token the parser knows to be there: it has looked at
   those before it, and none is the end of the file.                        *)
LookAhead(n) ==
  /\ Idle /\ read # <<>> /\ n < Len(Remaining)
  /\ IF n < Len(Ahead)
     THEN /\ peek' = [n |-> n, tok |-> Peeked(n)]
          /\ UNCHANGED <<lexers, cached, calls>>
     ELSE (* PeekAhead *)
          /\ calls' = <<[fn |-> "PeekAhead", left |-> n - Len(Ahead),
                         slot |-> Len(cached) + 1]>>
          /\ cached' = Append(cached, <<>>)
          /\ lexers' = ExitCachingLexMode(lexers)
          /\ peek' = [n |-> n, tok |-> None]
  /\ UNCHANGED <<cachedPos, backtrack, ret, read, saved>>

(* TentativeParsingAction and EnableBacktrackAtThisPos.                     *)
EnableBacktrackAtThisPos ==
  /\ Idle /\ read # <<>> /\ Len(backtrack) < MaxMarks
  /\ backtrack' = Append(backtrack, cachedPos)
  /\ saved' = Append(saved, read)
  /\ lexers' = EnterCachingLexMode(lexers)
  /\ UNCHANGED <<cached, cachedPos, calls, ret, read, peek>>

CommitBacktrackedTokens ==
  /\ Idle /\ isBacktrackEnabled(backtrack)
  /\ backtrack' = Front(backtrack) /\ saved' = Front(saved)
  /\ UNCHANGED <<lexers, cached, cachedPos, calls, ret, read, peek>>

Backtrack ==
  /\ Idle /\ isBacktrackEnabled(backtrack)
  /\ cachedPos' = Last(backtrack) /\ backtrack' = Front(backtrack)
  /\ read' = Last(saved) /\ saved' = Front(saved)
  /\ peek' = None
  /\ UNCHANGED <<lexers, cached, calls, ret>>

(* The last j tokens of s are covered by one annotation: a stretch of the
   source, so none of them is there twice.                                  *)
Covered(s, j) == FlattenSeq(SubSeq(s, Len(s) - j + 1, Len(s)))
CanCover(s, j) == /\ j <= Len(s)
                  /\ \A i \in Len(s) - j + 1..Len(s) : s[i] # <<>>
                  /\ IsInjective(Covered(s, j))
Covering(s, j) == Append(SubSeq(s, 1, Len(s) - j), Covered(s, j))

(* A name becomes a type or template-id annotation, in place.               *)
AnnotateName(j) ==
  /\ Idle /\ CanCover(read, j)
  /\ AnnotateCachedTokens(cachedPos, Covered(read, j))
  /\ read' = Covering(read, j)
  /\ UNCHANGED <<lexers, backtrack, calls, ret, saved, peek>>

(* AnnotateScopeToken: Tok is pushed back, or reverted if it is cached, and
   the j tokens before it become a scope annotation, which is a new one or
   (j = 1) the one that was there.                                          *)
AnnotateScopeToken(j, isNew) ==
  /\ Idle /\ Len(read) > 1 /\ Tok # <<>> /\ CanCover(Front(read), j)
  /\ isNew \/ j = 1
  /\ LET annotation == Covered(Front(read), j)
         Annotate(pos) == IF isNew THEN AnnotateCachedTokens(pos, annotation)
                          ELSE cached' = cached /\ cachedPos' = pos
     IN IF isBacktrackEnabled(backtrack)
        THEN /\ cachedPos > Last(backtrack) /\ cached[cachedPos] = Tok
             /\ Annotate(cachedPos - 1)
             /\ UNCHANGED lexers
        ELSE /\ Len(cached) < MaxCached
             /\ cached' = Entered(Tok)
             /\ lexers' = EnterCachingLexMode(lexers)
             /\ UNCHANGED cachedPos
  /\ read' = Covering(Front(read), j)
  /\ peek' = None
  /\ UNCHANGED <<backtrack, calls, ret, saved>>

(* Recovery: Tok goes back, and the parser goes on with a token of its own.  *)
EnterToken ==
  /\ Idle /\ read # <<>> /\ Tok # <<>>
  /\ Len(Text) + Len(Tok) <= MaxText /\ Len(cached) < MaxCached
  /\ lexers' = EnterCachingLexMode(lexers)
  /\ cached' = Entered(Tok)
  /\ read' = Append(read, <<>>)
  /\ peek' = None
  /\ UNCHANGED <<cachedPos, backtrack, calls, ret, saved>>

(* Late parsing: the stored tokens and Tok are entered, and Tok consumed.   *)
EnterTokenStream(s) ==
  /\ Idle /\ read # <<>> /\ Tok # <<>>
  /\ Len(Text) + Len(FlattenSeq(s)) <= MaxText
  /\ StreamsWhileCaching \/ ~InCachingLexMode(lexers)
  /\ lexers' = Append(lexers, [kind |-> "stream", words |-> Append(s, Tok)])
  /\ read' = Front(read)
  /\ calls' = <<Calling("ConsumeToken")>>
  /\ peek' = None
  /\ UNCHANGED <<cached, cachedPos, backtrack, ret, saved>>

-----------------------------------------------------------------------------
(* Lex, from whatever is on top of the stack *)

Top == Last(lexers)
SetTop(l) == lexers' = Append(Front(lexers), l)

CachingLex ==
  /\ Waits /\ InCachingLexMode(lexers)
  /\ IF cachedPos < Len(cached)
     THEN /\ ret' = cached[cachedPos + 1] /\ cachedPos' = cachedPos + 1
          /\ UNCHANGED <<lexers, calls>>
     ELSE /\ lexers' = ExitCachingLexMode(lexers)
          /\ calls' = Append(calls, Calling("CachingLex"))
          /\ UNCHANGED <<ret, cachedPos>>
  /\ UNCHANGED <<cached, backtrack, read, saved, peek>>

Lex ==
  /\ Waits /\ Top.words # <<>> /\ Head(Top.words) \notin Macro
  /\ ret' = Head(Top.words)
  /\ SetTop([Top EXCEPT !.words = Tail(@)])
  /\ UNCHANGED <<cached, cachedPos, backtrack, calls, read, saved, peek>>

(* A macro name (an #include, a pragma) puts a lexer of its own on top; an
   empty expansion only takes the name away.                                *)
EnterMacro ==
  /\ Waits /\ Top.words # <<>> /\ Head(Top.words) \in Macro
  /\ LET under == Append(Front(lexers), [Top EXCEPT !.words = Tail(@)])
         body == Expansion[Head(Top.words)]
     IN lexers' = IF body = <<>> THEN under
                  ELSE Append(under, [kind |-> "stream", words |-> body])
  /\ UNCHANGED <<cached, cachedPos, backtrack, calls, ret, read, saved, peek>>

HandleEndOfTokenLexer ==
  /\ Waits /\ Top.words = <<>> /\ ~InCachingLexMode(lexers) /\ Len(lexers) > 1
  /\ lexers' = Front(lexers)
  /\ UNCHANGED <<cached, cachedPos, backtrack, calls, ret, read, saved, peek>>

-----------------------------------------------------------------------------
(* The calls, when they have their token *)

Returns(fn) == ~Idle /\ ret # None /\ Last(calls).fn = fn

(* The rest of CachingLex: cache the token for a tentative parse, else forget
   the cache when all of it has been consumed; it has been, unless a pragma
   has entered a token meanwhile, which none does here.                     *)
CachingLexReturns ==
  /\ Returns("CachingLex")
  /\ calls' = Front(calls)
  /\ IF isBacktrackEnabled(backtrack)
     THEN /\ cached' = Append(cached, ret) /\ cachedPos' = cachedPos + 1
          /\ lexers' = EnterCachingLexMode(lexers)
     ELSE IF cachedPos < Len(cached)
          THEN lexers' = EnterCachingLexMode(lexers) /\ UNCHANGED <<cached, cachedPos>>
          ELSE cached' = <<>> /\ cachedPos' = 0 /\ UNCHANGED lexers
  /\ UNCHANGED <<backtrack, ret, read, saved, peek>>

ConsumeTokenReturns ==
  /\ Returns("ConsumeToken")
  /\ calls' = Front(calls) /\ ret' = None
  /\ read' = Append(read, ret)
  /\ peek' = IF peek = None THEN None
             ELSE IF peek.n = 0 THEN None ELSE [peek EXCEPT !.n = @ - 1]
  /\ UNCHANGED <<lexers, cached, cachedPos, backtrack, saved>>

PeekAheadReturns ==
  /\ Returns("PeekAhead")
  /\ ret' = None
  /\ LET call == Last(calls)
         stored == [cached EXCEPT ![call.slot] = ret]
     IN IF call.left > 0
        THEN /\ cached' = Append(stored, <<>>)
             /\ calls' = <<[call EXCEPT !.left = @ - 1, !.slot = Len(cached) + 1]>>
             /\ UNCHANGED <<lexers, peek>>
        ELSE /\ cached' = stored
             /\ calls' = Front(calls)
             /\ lexers' = EnterCachingLexMode(lexers)
             /\ peek' = [peek EXCEPT !.tok = Last(stored)]
  /\ UNCHANGED <<cachedPos, backtrack, read, saved>>

(* The parser is through with the file.                                     *)
Finished == Idle /\ Remaining = <<>> /\ backtrack = <<>> /\ UNCHANGED vars

Next ==
  \/ ConsumeToken \/ (\E n \in 0..MaxPeek : LookAhead(n))
  \/ EnableBacktrackAtThisPos \/ CommitBacktrackedTokens \/ Backtrack
  \/ \E j \in 1..Len(read) :
       AnnotateName(j) \/ \E isNew \in BOOLEAN : AnnotateScopeToken(j, isNew)
  \/ EnterToken \/ (\E s \in Streams : EnterTokenStream(s))
  \/ CachingLex \/ Lex \/ EnterMacro \/ HandleEndOfTokenLexer
  \/ CachingLexReturns \/ ConsumeTokenReturns \/ PeekAheadReturns
  \/ Finished

Spec == Init /\ [][Next]_vars

-----------------------------------------------------------------------------
(* Properties *)

(* Every variable has its type.                                             *)
TypeOK ==
  /\ lexers \in Seq(Lexer) /\ lexers # <<>>
  /\ cached \in Seq(Token) /\ cachedPos \in Nat
  /\ backtrack \in Seq(Nat)
  /\ calls \in Seq(Call) /\ ret \in Token \cup {None}
  /\ read \in Seq(Token) /\ saved \in Seq(Seq(Token))
  /\ peek \in [n : Nat, tok : Token \cup {None}] \cup {None}

(* "Corrupted backtrack positions ?": every backtrack position is one the
   cache still has, behind the cursor and behind those that were set later. *)
MarksBehindCursor ==
  /\ cachedPos <= Len(cached)
  /\ \A i \in DOMAIN backtrack :
       backtrack[i] <= IF i < Len(backtrack) THEN backtrack[i + 1] ELSE cachedPos

(* The caching lexer is on top of the stack or not in it: nothing is lexed
   from below it, around the cache.                                         *)
CachingOnTopOnly ==
  \A i \in DOMAIN lexers : lexers[i].kind = "caching" => i = Len(lexers)

(* Outside caching mode nothing is cached, so nothing is passed over when
   tokens come straight from a lexer, and the cache does not grow for ever. *)
NothingCachedOutside ==
  Idle /\ ~InCachingLexMode(lexers) => cached = <<>> /\ cachedPos = 0 /\ backtrack = <<>>

(* "LookAhead(0) returns the next token that would be returned by Lex(),
   LookAhead(1) returns the token after it, etc."                           *)
LookAheadIsNext ==
  [][ConsumeTokenReturns /\ peek # None /\ peek.n = 0 => ret = peek.tok]_vars

(* What the parser sees is one text: each token once and in order, the same
   again after Backtrack, whatever was looked at, annotated, pushed back or
   expanded meanwhile.                                                      *)
Tape == INSTANCE TokenTape
          WITH Source <- FlattenSeq(FlattenSeq([i \in DOMAIN File |-> Expand(File[i])])),
               text <- Text,
               at <- Len(FlattenSeq(read)),
               marks <- [i \in DOMAIN saved |-> Len(FlattenSeq(saved[i]))]
ImplementsTape == Tape!Spec
=============================================================================
