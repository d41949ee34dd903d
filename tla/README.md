# A verification project for SPIR/Clang

The repository is Khronos' SPIR generator: Clang 3.2 with OpenCL-to-SPIR code
generation added to it.  This directory holds TLA+ models of the parts whose
correctness depends on the *order* of things (processes that share a cache,
sequences of calls that must fit together, caches that may be stale), the TLC
configurations that check them on small instances, and proofs, checked by
TLAPS, of the properties that hold for every instance.  `PROJECT.json` lists
the components, the runs, the source lines behind every definition, the
hazards and the theorems.

    tlasany ModuleCache.tla                                    # parse
    tlc -workers 2 -config ModuleCacheCold.cfg MCModuleCache   # model-check
    tlc -workers 2 -config TokenCache.cfg MCTokenCache
    tlc -workers 2 -config FileManager.cfg MCFileManager
    tlc -workers 2 -config RewriteBuffer.cfg MCRewriteBuffer
    tlc -workers 2 -config EditedSource.cfg MCEditedSource
    tlc -workers 2 -config Diagnostics.cfg MCDiagnostics
    tlc -workers 2 -config TypeSearch.cfg MCTypeSearch
    tlapm ModuleCacheProofs.tla                                # proofs
    tlapm DiagnosticsProofs.tla
    tlapm TokenCacheProofs.tla
    tlapm FileManagerProofs.tla
    tlapm DeltaTreeProofs.tla
    tlapm RewriteBufferProofs.tla
    tlapm EditedSourceProofs.tla
    tlapm TypeSearchProofs.tla

## 1. The system

A compilation is a pipeline of libraries in one address space, driven by a
`CompilerInstance`.  Almost all of it is sequential.  Concurrency comes from
outside: many compilers run at once (a parallel build) and share the module
cache on disk; files change while a compiler runs; processes are killed.

| Component | State it keeps | Operations | Talks to | What is hard | What must hold |
|---|---|---|---|---|---|
| **Module cache and import** (`lib/Frontend/CompilerInstance.cpp`, `lib/Serialization/ModuleManager.cpp`) | on disk: `.pcm` files, their lock files, temporary files; in an instance: `KnownModules`, the module build path, the loaded chain, the output files | `loadModule`, `compileModule`, `createOutputFile`, `clearOutputFiles`, `addModule`, `removeModules` | other processes, through the file system; FileManager, ASTReader, nested instances | interleaving, crashes with a lock held, time-outs, stale and half-written files, recursion | one builder per module, no deadlock, no failure passed over, no outdated file used, everybody stops |
| **FileManager** (`lib/Basic/FileManager.cpp`) | positive and negative caches of directories and files, by name and by inode; virtual files | `getFile`, `getDirectory`, `getVirtualFile`, `invalidateCache` | everything that opens a file | a negative entry that outlives its reason; two names of one inode; descriptors handed from a lookup to an entry | one entry per file, whose identity clients may keep; no descriptor leaked; virtual files have directories |
| **Serialization** (`lib/Serialization`) | module files loaded, identifiers, declarations pending | `ReadAST`, `ReadControlBlock`, `getInputFile`; lazy reads | FileManager, ASTContext, Sema | a failed read must leave nothing behind; re-entrancy of lazy reads | a read is all or nothing |
| **Token caching and backtracking** (`lib/Lex/PPCaching.cpp` and the lexer stack) | cached tokens and position, backtrack positions, include/macro stack | `CachingLex`, `PeekAhead`, `EnableBacktrackAtThisPos`, `CommitBacktrackedTokens`, `Backtrack`, `AnnotatePreviousCachedTokens` | the parser's tentative parsing | long legal sequences; a lexer pushed while tokens are cached | the parser sees one token stream, in order, whatever it peeks, replays or annotates |
| **Preprocessor** (`lib/Lex`) | conditional stack, macro table, macro expansion, header search | directives, pragmas, expansion | FileManager, modules | nesting, re-entrancy of macro expansion | balanced conditionals, no macro expanded inside itself |
| **Rewriter** (`lib/Rewrite`) | text rope, tree of offset deltas | `InsertText`, `RemoveText`, `ReplaceText` | ARCMigrate, tooling | offsets of the original after many edits; ranges with insertions at their ends | an edit, given in offsets of the original, hits the text it means |
| **Edit** (`lib/Edit`) | edits accepted, expansions spoken for | `Commit::insert/remove/replace`, `EditedSource::commit` | ARCMigrate, the rewriter | a commit is checked call by call and applied edit by edit; edits that overlap | what was accepted is applied, to the text it was accepted for |
| **SPIR generation** (`lib/CodeGen/CGSPIRMetadataAdder.cpp`) | the types visited by a search | search of a type for another, metadata | CodeGen | recursive types; one list for the branches of a search | the search ends and misses nothing |
| **Driver** (`lib/Driver`) | jobs, result and temporary files | `ExecuteJob`, `ExecuteCommand`, cleanup | child processes | one command of several fails | no result of a failed command survives |
| **Diagnostics** (`lib/Basic/Diagnostic*.cpp`) | state points, push/pop stack, suppression | `Report`, `pushMappings`, `popMappings`, `SetDelayedDiagnostic` | everything | a note follows a suppressed diagnostic; a fatal error suppresses the rest; a diagnostic inside another; late diagnostics | each location gets the mapping in force there, across AST files; no error is lost |
| **SourceManager** (`lib/Basic/SourceManager.cpp`) | location tables, last-lookup caches | `getFileID`, `createExpansionLoc` | everything | a stale lookup cache | the cached answer equals the searched one |
| **libclang, ASTUnit** | preamble, cached completions | reparse, crash recovery | Frontend | stale preamble | |
| **Parser, Sema, AST, CodeGen, Analyzer, Tooling** | syntax trees, scopes, IR, exploded graph | | | size and semantics | |

### How an import runs

`loadModule` asks the FileManager for the module file.  If there is none, it
calls `compileModule`, which takes the module's lock file.  The owner builds the
module in a *nested* `CompilerInstance`, whose headers may import modules and so
call `loadModule` again, one level up, in the same process, with the outer locks
still held.  Everyone else waits for the lock file to go away.  Then `loadModule`
looks for the file again and has the ASTReader read it and, recursively, the
files its IMPORTS records name.  When a control block ends, its input files
are compared with the disk: a file that is out of date is *removed*
(`RemoveFile`, without the lock), the FileManager's entry dropped, and the module
built again, at most once.

## 2. The models

### `ModuleCache.tla`

| State | In the code |
|---|---|
| `pcm[m]` | the module file in the cache directory: absent (`NoFile`), half written in place (`Torn`), or what it records: the version of its own headers (`ver`), the modules it imports (`imps`) and, as a history of the build, the versions of the modules loaded while it was built (`saw`) |
| `lock[m]` | the process named in the lock file beside it |
| `hdr[m]` | the version of the module's headers (size and time of modification, in the code) |
| `stack[p]` | the compiler instances of process `p`: the translation unit, then one module per level of nesting |
| `known`, `fm`, `chain`, `imps`, `err` of an instance | `KnownModules`, the FileManager's entry for each module file, the module files the ASTReader holds, the modules imported, `hasErrorOccurred()` |
| `rd`, `fresh` | the recursion of `ReadASTCore`, and what the running `ReadAST` has added to the chain |
| `pc`, `why`, `todo`, `call`, `direct` | where `loadModule` is; whether it reads a file it found, built or rebuilt; imports left; which of the two calls of an import; whether the output is written in place |

One step is one interaction with the file system (stat, lock, open, rename,
remove); what a process does between two of them touches only its own state.

| Action | Code it is the whole of |
|---|---|
| `ImportKnown` | `loadModule` finds the answer in `KnownModules`, or imports the module being built |
| `FindModuleFile` | `getFile` on the module file, the reports "not found" and "cycle", or on to `compileModule` |
| `LockOwned`, `LockShared`, `LockFails` | the `switch` on the lock file's state in `compileModule`, up to the nested instance's `ExecuteAction` |
| `WaitForUnlock`, `WaitTimesOut` | `Locked.waitForUnlock()` |
| `EndOfModule` | the end of the nested action: `clearOutputFiles` erases the output or renames it into place |
| `BuildCrash` | `CrashRecoveryContext` catches a crash; the output is erased |
| `Unlock` | the destructor of the lock, back in the importing `loadModule` |
| `Recheck` | the second `getFile`, with failures cached |
| `OpenAST` | `ModuleManager::addModule`: loaded already, cannot be opened, or new; the failure path of `ReadAST` |
| `Validate` | the end of a control block and `loadModule`'s `switch` on the result |
| `Evict` | the out-of-date branch: remove the file, forget it, build again |
| `EndOfTU`, `Crash`, `EditHeaders` | end of the compilation; the environment |

Abstractions, all of them named here:

- The headers of a module are read at one moment, when its build starts.
- The order of files within an IMPORTS record is any order (`Targets`).
- Submodules, visibility and the one-element cache of the last import are left
  out; that every import arrives twice, from the preprocessor and the
  parser, is kept (`call`).
- `llvm::LockFileManager` is not in the repository.  It is modelled as
  its callers use it: exclusive, a dead owner's lock does not count, the
  destructor removes the file, waiting may give up.
- A module file is left alone when its process dies: the generating action
  opens it with `RemoveFileOnSignal` false, so a kill leaves it as it is.
- The null dereference of a missing `Module` (a module known to no module map
  that is out of date) is modelled as the death of the process.

### `ModuleImports.tla`, the contract

Two variables: the modules the cache makes available, and what each translation
unit has loaded.  A module becomes available only when all it needs is
(`Publish`), a compilation loads a set of available modules that is closed under
need (`Load`), and a dead process forgets (`Forget`).  `ImplementsContract`
maps `ModuleCache` onto it: available is what has a complete file, loaded is
what the bottom instance's chain holds outside a running read.

### `TokenCache.tla`

| State | In the code |
|---|---|
| `lexers` | `IncludeMacroStack` with the current lexer on top: files, expansions and streams with the words they still hold, and the caching lexer |
| `cached`, `cachedPos` | `CachedTokens`, `CachedLexPos` |
| `backtrack` | `BacktrackPositions` |
| `calls`, `ret` | the calls of `Lex` in progress, and the token on its way back |
| `read` | history: what the parser has read, the last being its `Tok` |
| `saved` | history: `read` when each tentative parse began (the code saves `Tok`) |
| `peek` | history: what the last look ahead said, for as long as it should hold |

A token is the sequence of base tokens it covers: one for a plain token,
several for an annotation, none for one that the parser invents while it
recovers.  Locations are these base tokens.

| Action | Code |
|---|---|
| `ConsumeToken`, `LookAhead(n)` | `Parser::ConsumeToken`, `Preprocessor::LookAhead` up to the first `Lex` of `PeekAhead` |
| `EnableBacktrackAtThisPos`, `CommitBacktrackedTokens`, `Backtrack` | the same, with what `TentativeParsingAction` saves and restores |
| `AnnotateName(j)` | a name, with the scope before it, becomes a type, expression or template-id annotation: `AnnotateCachedTokens` |
| `AnnotateScopeToken(j, isNew)` | `Tok` is reverted (tentative parse) or entered again, and what precedes it becomes a scope annotation |
| `EnterToken`, `EnterTokenStream(s)` | recovery with an invented token; late parsing of stored tokens |
| `CachingLex`, `CachingLexReturns`, `PeekAheadReturns`, `ConsumeTokenReturns` | the two halves of each function around the `Lex` inside it |
| `Lex`, `EnterMacro`, `HandleEndOfTokenLexer` | a lexer gives a token; one goes on top; one is at its end |

The parser is any sequence of these calls that keeps the assertions in the code:
it annotates nothing across a position it may go back to
(`AnnotationAsserted`), commits or reverts tentative parses innermost first,
reverts a token only if it is cached, and does not look past the end.
Annotations cover a stretch of the source, so no base token is in one twice.

Left out: the `import` lexing mode, `TypoCorrectToken`, macro arguments (and with
them `_Pragma` in arguments), pragma handlers that enter tokens.

### `TokenTape.tla`, the contract

One text with a cursor `at` and a stack of marks.  Reading moves the cursor
forward, pushing back moves it back, but not past a mark; `Rewind` returns to a
mark; `Enter` puts tokens in at the cursor.  Nothing else changes the text:
caching, looking ahead, annotating and expanding must not show.  In the
refinement the text is what was read, what is cached and what the lexers
still hold, one after the other.

### `FileManager.tla`

| State | In the code |
|---|---|
| `seenDir`, `seenFile` | `SeenDirEntries`, `SeenFileEntries`: not there (`Unseen`), `NON_EXISTENT` (`Missing`), or an entry |
| `entries` | every `FileEntry` made, in order: its name, the inode it is of (`None` for a virtual one), `UID`, `FD`, and whether it is still alive; the live ones with an inode are `UniqueRealFiles` |
| `nextUID` | `NextFileUID` |
| `opened` | the descriptors of the process and what each is open on |
| `disk`, `dirs` | what names stand for on disk |
| `allowed` | history: names whose absence a caller let be cached |

`GetDirectory`, `GetFile`, `GetVirtualFile`, `GetBufferForFile` and
`InvalidateCache` are the functions of these names; `ChangeFile`, `MakeDir` and
`RemoveDir` are other processes.  A lookup is one step: what others do between
its two system calls could be done before or after it.  `openFile` and
`CacheFailure` are the parameters of the code.  Two constants fence off what the
code's callers do not do or what a finding is about: `InvalidateAliased` (the one
caller of `invalidateCache` gives it a module file, which has one name) and
`VirtualUnderMissing` (finding 4).

### `DeltaTree.tla`, `RewriteBuffer.tla`

`DeltaTree` has the B-tree of offset deltas as operators: `AddDelta` with the
splits of leaves and interior nodes, `GetDeltaAt`, and `VerifyTree`, the check
that the code has under an `#if`.  Nodes hold up to three values here
(`WidthFactor` 2), fifteen in the code (8).  A node has its height, where the code
has a flag for leaves; the code's recursion is a function of the height and of the
nodes that have it (`Nodes`), which the provers can follow.

| State of `RewriteBuffer` | In the code |
|---|---|
| `original` | the file |
| `text` | `Buffer`, each character with the anchor it has in the original (history) |
| `deltas` | `Deltas` |
| `dead` | history: offsets inside what was removed, which a client does not use again |

The actions are `InsertText`, `InsertTextAfterToken`, `RemoveText`, `ReplaceText`
of the `Rewriter`, the last two for a length and for a range with its
`RewriteOptions`, down to what `RewriteBuffer` does to buffer and deltas.
`RewriteRope` is a sequence.  Two uses give text other than the caller's, and are
behind constants: `InsertsAtEnds`, ranges whose options are at odds with what was
inserted at their ends (`RemoveText` reads the text to be removed from the
mapped start *after* insertions, while `getRangeSize` by default measures from
*before* them, `Rewriter.h:219`); and `MovedLines`, a line removed as empty that
earlier edits moved (`Rewriter.cpp:85` records the removal under its offset in
the *buffer*).  Both are listed as hazards; no document says what should happen.

### `AnchoredText.tla`, the contract

A text whose characters know where they come from.  An edit finds its place by
looking at them, so nothing is mapped and nothing can be stale: `Place(t, a)` is the
number of characters of `t` that are anchored up to `a`.

### `EditedSource.tla`

| State | In the code |
|---|---|
| `fileEdits` | `FileEdits`: at each offset, text to insert and how much to remove |
| `written` | `ExpansionToArgMap`, for the one macro there is |
| `edits`, `commitable` | `CachedEdits` and `IsCommitable` of the current `Commit` |
| `committing` | whether `EditedSource::commit` is in its loop |

`Insert`, `InsertFromRange`, `InsertWrap`, `RemoveRange`, `Replace` and
`ReplaceWithInner` are the calls of a `Commit`, with their checks; `NoPlace` is a
location that cannot be edited.  `BeginCommit`, `CommitEdit` (one round of the
loop) and `EndCommit` are `EditedSource::commit`; `Rewrites` is
`applyRewrites`.  A call inserts a character of its own, so that order shows.
`EditedRange`, the loop of `commitInsertFromRange` over the edits, and `Rewrites` run
over all offsets and pass those where there is no edit.

### `EditedText.tla`, the contract

What is removed is removed for good, and each place has the text inserted there,
which goes away when the place is inside what is removed.

### `DiagStates.tla`, `Diagnostics.tla`

| State | In the code |
|---|---|
| `diagStates`, `points`, `pushed` | `DiagStates` (objects, referred to by number), `DiagStatePoints`, `DiagStateOnPushStack` |
| `pos` | history: pragmas passed.  A location is the number of the pragma before it |
| `inPrefix` | whether the text that goes into a precompiled header is still being read |
| `opts` | the options that matter to the level of a diagnostic, and `ErrorLimit` |
| `eng` | `LastDiagLevel`, `FatalErrorOccurred`, `ErrorOccurred`, `NumErrors`, `NumErrorsSuppressed`, `DelayedDiagID`; history: what was shown, whether something that had been delayed was, whether the last diagnostic was, and how many errors were reported |

`PragmaMap`, `PragmaPush` and `PragmaPop` are `PragmaDiagnosticHandler` with
`setDiagnosticGroupMapping`, `pushMappings` and `popMappings`.  `ReadPrefix` writes the
states with `WritePragmaDiagnosticMappings` and reads them with
`ReadPragmaDiagnosticMappings` into an engine that has those of the command line
only, point by point (`WritePoint`) and record by record (`ReadRecord`).
A report is one step, `EmitCurrentDiagnostic` with the delayed one behind it:
`ReportWarning` (at any place passed), `ReportError`, `ReportNote`,
`ReportUnreadable` (a file is gone).  `gone` says whether another file turns out to be
gone, and its error is delayed, while the diagnostic is built (its arguments may need
source) or while the client shows it.  `Suppress` and `SuppressAccess` are what Sema
keeps to itself in a SFINAE context; what was delayed meanwhile stays so until the
next report.

`EmitDiag` ends with `CurDiagID = ~0U`, so after a diagnostic that was shown
`EmitCurrentDiagnostic` takes anything delayed for another one (`Awaited`); and
`ReportDelayed` clears `DelayedDiagID` after the report only.  So a delayed error that
is shown is reported a second time from inside its report, which is not shown, is
counted once more in `NumErrors` and `NumErrorsSuppressed`, and puts the fatal error
into effect at once: the notes of the error that exceeds the limit are not shown below
"too many errors emitted" (`test/Misc/error-limit.c:15`).  `ReportDelayed` has
the two reports one after the other; that there is no third is a lemma (`NoThirdTime`).

### `DiagScopes.tla`, the contract

A list with the mappings after each pragma, and a stack of saved ones.  No
states, no points, no sharing.

### `TypeSearch.tla`

| State | In the code |
|---|---|
| `types` | the types of the module |
| `uses`, `at`, `forHalf` | what `AddSPIRMetadata` and `FunctionAddSPIRMetadata` look at, and how far they are: each thing is searched for double, then for half |
| `stack`, `lists` | the calls of `searchTypeInType` with their position among the elements, and the `typesList` objects they refer to |
| `bUseDoubles`, `fp16` | what goes into the metadata |

`IsTarget`, `PassOn`, `Open`, `SearchElement`, `NoMoreElements` and `NotThere` are the
statements of the recursive function.  Stack and list are explicit because the
property is that they suffice.  `TypeSearchAssumption` says what types are: there are
finitely many, a scalar type has no elements, an array or a pointer has one, and what
is used in a module has one of its types.  `Within(g, ty, kinds)` is the reference: it
follows the elements of the types of those kinds, `Cardinality(DOMAIN g)` times.

## 3. What the runs check

| Run | Instance | Checks | Shows |
|---|---|---|---|
| `cold` | 2 processes, `a` imports `a, b, c`, `b` imports `c`; one translation unit imports `a`, the other `b, a`; empty cache, at most 2 faults of six kinds; about 27,000 states | `TypeOK`, `BuildsUnderLock`, `NoMutualWait`, `SuccessMeansImported`, `PublishedComplete`, `ErrorHasCause`, `ImplementsContract`, `EveryProcessStops` | building from nothing, with two builders colliding at three locks and nested builds three deep |
| `stale` | 2 processes, files of version 1 for `a` and `c`, none for `b`; `c` cannot be rebuilt; headers at 1 or 2 and edited on the way; at most 1 failure of the temporary file; about 97,000 states | `LoadedNotOlder`, `NeverReplacedByOlder` | eviction and rebuilding, with files removed and half written under another process's eyes |
| `dependents` | 1 process, stale files | `DependentsRebuilt`, **violated** | finding 1 |
| `cycle` | 2 processes, `a` and `b` import each other | `NoMutualWait`, **violated** | finding 2 |
| `tokens` | the file `1 two none 4`, where `two` expands to `2 3` and `none` to nothing; a stream of one token; two nested tentative parses, look ahead by 0 and 1; about 600,000 states | `TypeOK`, `MarksBehindCursor`, `CachingOnTopOnly`, `NothingCachedOutside`, `LookAheadIsNext`, `ImplementsTape` | any order of the parser's calls leaves it one text |
| `streams` | the file `1 2`, a stream entered while tokens are cached | `LookAheadIsNext`, **violated** | finding 3 |
| `files` | the names `a/g` and `a/b/c/f`, two inodes, at most 3 entries, a disk that changes in any way; about 2,230,000 states up to the names of the inodes | `TypeOK`, `DescriptorsOwned`, `NamesAgree`, `VirtualAncestors`, `FailuresAllowed`, `EntriesKeepIdentity`, `AnswersKept` | aliases, files replaced, virtual files over real ones and invalidation, in any order |
| `virtuals` | the same, with files made virtual under a directory remembered as missing | `VirtualFileHasDirectory`, **violated** | finding 4 |
| `rewriter` | a text of three lines, any three edits, by strings of no, one and two characters; one of five characters, up to ten insertions and removals, which split the root twice; about 34,000 states | `TypeOK`, `TreeVerified`, `OffsetsMapped`, `RangesRead`, `ImplementsAnchoredText` | edits hit what they mean, whatever was edited before |
| `edits` | three tokens, two of them arguments of one macro; a commit of one call and one of two; about 571,000 states | `TypeOK`, `CheckedStillHolds`, `EditsDisjoint`, `RewritesGiveText`, `ImplementsEditedText` | every pair and triple of calls, overlapping or not |
| `diags` | two warnings, two groups, three command lines, four sets of options; four pragmas and reports in any order, with an AST file or without, and a file gone at any report; about 638,000 states | `TypeOK`, `ErrorsAccounted`, `ImplementsScopes`, `ShownInContext` | mappings by place, and what is shown |
| `types` | the 802 sets of types that C lets two structs, two pointers, an array and a function form; one or two things in the module; about 665,000 states | `TypeOK`, `MetadataTellsUse`, `SearchEnds` | the search ends and is right |

**The properties.**  `BuildsUnderLock`: who builds a module is who its lock file
names.  `NoMutualWait`: two processes never wait for each other.
`SuccessMeansImported`: a compilation that ends without an error has loaded all
that its translation unit imports and all that those modules' headers import, also
where a wait timed out, an owner of a lock died or a `ReadAST` took back what it
had loaded.
`PublishedComplete`: a published file imports all its headers import.
`ErrorHasCause`: without a fault, a broken header or an unmapped module, no
interleaving produces an error.  This is where a cached negative stat would show.
`LoadedNotOlder`: no compilation uses a file older than the headers were
at its start.  `NeverReplacedByOlder`: a slow build never overwrites a newer
file.  `EveryProcessStops`: liveness.

Of `TokenCache`: `MarksBehindCursor`, the positions to go back to are in the cache
and in order.  `CachingOnTopOnly`, no lexer is above the caching lexer, which
would be lexed around the cache.  `NothingCachedOutside`, nothing is cached
when the caching lexer is gone.  `LookAheadIsNext`, each look ahead comes true
unless the parser goes back or enters something.  `ImplementsTape`, the contract.

Of `FileManager`: `DescriptorsOwned`, what is open belongs to one live entry and
is the file that entry is of.  `NamesAgree`, a file has one entry whatever its
names, and the name an entry bears leads to it (`invalidateCache` erases by that
name).  `VirtualAncestors`, a virtual directory is cached with the one above it.
`FailuresAllowed`, a lookup with `CacheFailure` false leaves no negative entry.
`EntriesKeepIdentity`, an entry never changes its name, number or file.
`AnswersKept`, a name's entry is replaced by way of invalidation only.

Of `RewriteBuffer`: `TreeVerified`, the B-tree stays one.  `OffsetsMapped`, each
offset still in use maps to where its character is, or would be.  `RangesRead`,
`getRewrittenText` gives all that became of a range.  `ImplementsAnchoredText`.

Of `EditedSource`: `CheckedStillHolds`, an insertion still has its place when its
turn comes, so that `commit`, which looks at no result, drops none for that
reason.  `EditsDisjoint`, what `applyRewrites` asserts.  `RewritesGiveText`, the
rewrites a receiver gets make the text the edits stand for.
`ImplementsEditedText`: each edit has just the effect of its call.

Of `Diagnostics`: `ImplementsScopes`, at each place the mappings are those of the
pragmas before it.  `ErrorsAccounted`, each error fails the compilation, is counted,
and is shown or kept back by a fatal error that was shown, and the limit is kept.
`ShownInContext`, after a fatal error nothing but its notes, after a delayed one not
even these; no note below what was not shown.

Of `TypeSearch`: `MetadataTellsUse`, the metadata claims a feature if and only if a
type contains it (behind pointers too for double, not for half, and leaving out what
is only promoted); `SearchEnds`.

**Bounds.**  `MaxVersion` (versions of headers), `MaxFaults` (faults).  Two
processes are enough for every pairwise race on a lock or a file; three modules
give a diamond, which has a shared dependency, a nested build and a second
import of a file already in the chain.  Two faults let a crash meet a
time-out or a failed rename.  `SuccessMeansImported`, `PublishedComplete` and
`ImplementsContract` are checked from an empty cache only, and proved for one that is
up to date (the last for an empty one): nothing is rebuilt there, so the silent return
after a failed rebuild (`CompilerInstance.cpp:1006`) is not reached.  With files
that are out of date it breaks them ("Other things met while modelling", below).

Of `TokenCache`: `MaxPeek` (how far to look), `MaxMarks` (nested tentative
parses), `MaxText` (length of the text with what is entered), `MaxCached` (a token
is only pushed back into a cache shorter than this; pushing back and
consuming would make it grow for ever).  Two marks give an inner and an outer
one; looking ahead by one makes `PeekAhead` lex twice, across the end of an
expansion.  `StreamsWhileCaching` is off in `tokens`, because of finding 3: what
else must hold is checked with streams that are entered outside caching mode.

Of `FileManager`: `MaxEntries` (entries made).  Three are a file, its successor
under the same name or a second name of it, and a virtual one.  Three directories,
one within the other, give a virtual directory an ancestor on disk that was cached
without its own.  The two inodes are a symmetry set: nothing tells them apart.

Of `RewriteBuffer`: `MaxEdits` (edits of a text).  Ten values in nodes of three fill a
tree of three levels.  On the longer text each place is edited once, by one
character, so that only the shape of the tree matters.

Of `EditedSource`: `MaxCommits`, `MaxCalls`.  Two commits, because an edit meets what
an earlier commit left and what its own commit did; two calls in the second.
Three tokens are a stretch, what is inside it and what is next to it.

Of `Diagnostics`: `MaxPragmas`, `MaxEvents` (pragmas and reports).  Four pragmas are a
push, a mapping, a pop and a mapping after it, which is where a shared
state would show; four reports are a diagnostic, the one that exceeds the limit,
a fatal one and a note; each may delay an error of its own.

Of `TypeSearch`: `MaxUses` (things in a module), `MaxDepth` (frames).  Two things, so
that a search follows another; no search of these types needs twelve frames,
so the bound is only reached by one that does not end.

**Fairness.**  In `TypeSearch`, weak fairness of the next step: one thread runs one
function.  In `ModuleCache`, weak fairness of each process's own steps: the operating system
schedules every live compiler, and `waitForUnlock` polls, so a wait whose lock
has gone away is over in finite time.  No fairness is assumed of faults,
time-outs, crashes or edits: nobody is rescued by one.

**Finding 1 (`dependents`).**  A module file is compared with its *own* headers
only.  The IMPORTS record names the imported files, and says nothing of what was
in them.  After `b` is rebuilt, `a.pcm`, built against the old `b.pcm`, is
accepted with the new one, while `test/Modules/modify-module.m` says that
dependent modules get rebuilt.

**Finding 2 (`cycle`).**  `compileModule` takes or waits for the lock before
any search for a cycle, and the build path that the search uses is that of one
process.  Two compilers that enter a cycle from both ends wait for each other
(until `waitForUnlock` gives up), and no cycle is reported.

**Finding 3 (`streams`).**  `EnterTokenStream` puts its stream on top of the
caching lexer, also when tokens are cached ahead of the cursor.  `LookAhead`
then answers from the cache, which holds what comes *after* the stream, while `Lex`
reads the stream; `Preprocessor.h:736` promises that they agree.
`ParseCXXAmbiguousParenExpression` does it: on `(T())()` it looks at the token
after `(` and then enters the tokens of the parentheses again.

**Finding 4 (`virtuals`).**  `getVirtualFile` caches the directories of a virtual file
with `addAncestorsAsVirtualDirs`, which stops at any cached one, also at one that
is cached as missing.  After `getDirectory("a")` has failed, `getVirtualFile("a/g")`
finds no directory, although `FileManager.cpp:438` says that it is guaranteed to and
line 443 asserts it.

**Other things met while modelling.**  `FileManager.cpp:266` says of a directory in the
cache that "its ancestors must also already be in the cache".  That is so of virtual
ones only: `getDirectory("a/b")` caches a directory on disk without `a`, and
`addAncestorsAsVirtualDirs` stops there.  `VirtualAncestors` says what is left.

For the others no document says what should happen; they are listed as hazards, with
the line where each bites.  A compilation can succeed without a module it imports: it
rebuilds one that is out of date, another process removes the file, taking it for the
old one, before the first looks for it, and `loadModule` returns null without a
diagnostic (`CompilerInstance.cpp:1006`).  TLC finds this as a violation of
`SuccessMeansImported` on the instance of `stale`.  An insertion into a
second argument of a macro is dropped by the editor while the rest of its commit is
applied, because the check in `Commit` asks with a location that is no longer in
the macro (`Commit.cpp:242`).  `clearRewrites` does not forget which arguments were
written.  `getBuffer` reports an unsupported byte order mark while a diagnostic
is in flight.  Each import of a module appends the pragma mappings of all module
files again, behind those of the importing file.  `searchTypeInType` follows a pointer
to a function with a new list, so that a struct holding a pointer to a function that
takes a pointer to the struct would be searched for ever; OpenCL C has no such types
(TLC finds the loop if one is added to `FormedGraphs`).

## 4. What is proved

`ModuleCacheProofs.tla`, for all constants that satisfy `ModuleCacheAssumption`:
any number of processes, modules, versions and faults.

| Theorem | Says |
|---|---|
| `TypeCorrect` | `Spec => []TypeOK` |
| `LockProtectsBuild` | `Spec => []BuildsUnderLock` |
| `NoMutualWaitIfAcyclic` | if the modules can be ranked so that a module outranks what it imports (itself excepted), `Spec => []NoMutualWait` |

The argument is a tower of three inductive invariants.

1. `Typed` = `TypeOK` and the shape of each stack: translation unit at the bottom
   and only there, every instance but the innermost in `compileModule`, an
   instance that is not between imports has a current one, which is not itself,
   control blocks under the innermost wait for a file.  `TypeOK` alone is
   not inductive: `Unlock` needs an instance below it, `Cur` a non-empty list.
2. `LockInv` = `Typed`, and `BuildsUnderLock` (as `Owned`), and: each instance
   above another is building that one's current import (`Locked`), and no
   process builds one module twice (`Distinct`).  Without `Distinct`, `Unlock`
   would free the lock of a build further down the stack.
3. `RankInv(R)` = `LockInv`, and the imports left in an instance that builds a
   module rank below it (`Ranked`).  So ranks fall along a stack.  If `p` waits
   for a lock of `q` and `q` for one of `p`, each awaited module is below all
   that the waiter builds and among those that the other one builds: its rank is
   below itself.  Run `cycle` shows that the assumption cannot be dropped.

Each step lemma (`NextTyped`, `NextLocks`, `NextRanked`) has one case for every
action.

The rest of the module goes on from `LockInv` and `RankInv`, with the same constants.

| Theorem | Says | Hypotheses |
|---|---|---|
| `FilesNotReplacedByOlder` | `Spec => NeverReplacedByOlder` | none |
| `NothingStaleLoaded` | `Spec => LoadedNotOlder` | none |
| `SuccessAlwaysMeansImported` | `[]SuccessMeansImported` | no edits, the cache is up to date at the start |
| `PublishedFilesComplete` | `[]PublishedComplete` | the same |
| `ModulesImportedWhole` | `Spec => ImplementsContract` | no edits, an empty cache at the start, no fault `"temp"` |
| `ErrorsHaveACause` | `[]ErrorHasCause` | acyclic modules, no edits, a cache up to date and closed under imports at the start |

It first says what a step may do to an instance, whichever
action it is: nothing, finish, begin, or `Turn` in place, with what each may do
to the fields (`InstancesStep`), and what it may do to a module file: publish,
erase, evict (`FilesStep`).  The invariants rest on these two and look at an
action only where they must.

4. `OrderInv` = `LockInv`, and: no file is newer than the headers, and one that
   is there while its module is being built is no newer than the build.  The
   second needs the lock: a second build that began earlier could end later.
   `NeverReplacedByOlder` is a property of steps, and follows in the state before.
5. `AtLeast(m, v)` = the headers of `m` have reached version `v`, and every file
   of `m` that counts as loaded or as validated is that new.  It holds from any
   state where `hdr[m] >= v` on, for each `v`: that is `LoadedNotOlder`.
   It needs `ReadingInv`, which says what an instance in the middle of `ReadAST`
   has validated already and what it is still to validate.
6. `SoundInv` = `ReadingInv`, the files and what is loaded are up to date (so that
   nothing is rebuilt), `KnownModules` says null only with an error, and an
   instance that builds a module and has no error has imported all that stands
   before its current import.  Both hypotheses are needed because a module that
   was removed as out of date, and then is not there, is passed over without a
   word (`loadModule`).  `ProgressInv` says of the instances of translation units
   what the last part says of modules; with `CompleteInv` (7) it gives
   `SuccessMeansImported`, because a process is done when nothing is left to import.
7. `GraphInv` = `SoundInv`; what an instance has loaded is closed under imports
   but for what it is about to load (`CompleteInv`); and, as long as a file cannot
   be torn, what is loaded stays on disk (`Kept`).  `StepImports` maps every step
   to `Publish`, `Load` or `Forget` of the contract, or to a stutter.  `Kept` is
   where `"temp"` matters: a module written in place is erased when its build
   fails, although others may have loaded it.  The empty cache is the contract's
   `Init`, where nothing is available.
8. `CauseInv(R)` = `RankInv(R)`, `GraphInv`, each instance is building the current
   import of the one below (`Nested`), and, as long as there is no cause, no
   instance has an error and whatever one of them has found, waits for or is about
   to open is there or being built (`Clean`).  Without ranks, a cycle is an error
   with no fault (run `cycle`); a file that is missing under one that imports it
   is one too, hence `CacheClosed`.

The drafts of 4 to 8 were checked as invariants of `cold` and of an instance with
stale files before they were proved.
Model-checked only: liveness (`EveryProcessStops`), which is beyond the prover.

`DiagnosticsProofs.tla`, for all constants that satisfy `DiagStatesAssumption` and
`DiagnosticsAssumption`: any warnings, groups, command lines, options and limit of
errors, and any number of pragmas and reports.

| Theorem | Says |
|---|---|
| `NoErrorIsLost` | `Spec => []ErrorsAccounted` |
| `NothingOutOfContext` | `Spec => ShownInContext` |
| `DiagnosticsTyped` | `Spec => []TypeOK` |
| `PragmasScoped` | `Spec => ImplementsScopes` |

The first two do not depend on which level a pragma gives a warning: their lemmas hold
for any level at all.  The account of an engine is
`Sound` if errors are counted (`ErrorsCounted`), exactly one fatal error was shown
if the engine is silenced and every error was shown if it is not (`OneFatal`), and
a diagnostic that may have notes was shown (`NotesHaveContext`).  That is what
`ProcessDiag` keeps.  `Complete` says that all errors were shown, and the diagnostic
that notes would belong to, where no fatal error was; in the middle of a report it does
not hold, since the error over the limit is kept back before the one that stands for it
is shown.  Between reports both hold (`Ready`), and nothing is delayed unless Sema kept
the last diagnostic to itself or the engine is silenced: the inductive invariant
`Settled`.  It is kept because what is delayed is fatal and is reported, twice if it is
shown, at the end of every report that it could outlast (`EmitSettled`,
`ReportDelayedSettles`); the one report that it outlasts is of the same diagnostic, not
shown, in a silenced engine.  This is why `DiagnosticsAssumption` keeps the identities
of warnings and of delayed diagnostics apart.  The second report finds the engine
silenced by the first, so that there is no third (`NoThirdTime`).  `ErrorsAccounted` alone is not inductive: it does not say that
a silenced engine has shown its fatal error.
`ProcessDiag` is first described field by field, with the three ends a diagnostic
may come to (`Processed`); the rest of the argument uses that description only.

The other two are about the mappings.  The inductive invariant is `StatesHold`: the
points are in order, the first is the command line's, and none is past the last pragma
(`Passed`); what is pushed has been active; what a pragma said is as
`makeMappingInfo` makes it (`FromPragmas`); and a state has, when it becomes active for
the first time, all that no pragma said from the state that was active before it
(`FromCurrent`).  The last two are what the AST file rests on: a state is written
with what pragmas said only, and the reader takes the rest from what is current where
it reads.  They are kept because a state that is changed where it is active is the
newest, and no point but the last refers to it: a group's first diagnostic, at a
location past the last point, makes a copy of its own (`FirstOfGroup`), and the others
go into that (`RestOfGroup`).  The mappings at the places before are untouched by
this (`ForceChanges`, `ForceGoesOn`), which is the heart of `ImplementsScopes`.
The reader follows the writer record by record (`ReaderFollows`): after each, its
states are those that the writer numbered, under those numbers (`SameStates`), and its
points are the writer's (`SamePoints`); so each place finds the same mappings
(`PrefixHolds`).  The three recursions of the model, over a group, over the points
and over the records, are shown to be defined and followed with the well-foundedness
of `<` (`Recursion`). `DiagStatesAssumption` says that no mapping of the command line
is marked as a pragma's: `ProcessWarningOptions` passes no location, and `IsPragma` is
set where there is one (`makeMappingInfo`).

`TokenCacheProofs.tla`, for all constants that satisfy `TokenCacheAssumption` and
`~StreamsWhileCaching`: any text, macros, streams, depth of tentative parses and
distance to look ahead, and a cache of any size.

| Theorem | Says |
|---|---|
| `CacheTyped` | `Spec => []TypeOK` |
| `MarksNeverCorrupted` | `Spec => []MarksBehindCursor` |
| `CachingStaysOnTop` | `Spec => []CachingOnTopOnly` |
| `NothingPassedOver` | `Spec => []NothingCachedOutside` |
| `LookAheadTellsNext` | `Spec => LookAheadIsNext` |
| `TokensAreOneTape` | `Spec => ImplementsTape`, the refinement of `TokenTape` |

The inductive invariant `IInv` adds three things to them.  `Stack`: a caching lexer
is on top or not there, has no words of its own and never lies alone, so that
`ExitCachingLexMode` always leaves a lexer and an expansion or a stream is pushed on
one that does not cache.  `Paired`: there is one reading of the parser to go back to
for each mark.  `Modes`: which calls can wait for a token, and what holds of the
cache then.  `NothingCachedOutside` speaks of the moments between calls only; a
`Lex` that has left caching mode has a full cache behind the cursor, not an empty
one, and `CachingLexReturns` may forget that cache only because the cursor is at its
end; a look ahead has an unfilled slot at the end of the cache, which nothing else
may be appended behind.  `Modes` says so for each of the three.
The marks are kept by annotation because of the assertion in
`AnnotatePreviousCachedTokens` that an annotation begins behind the last mark: it is
a guard of the model, so the proof shows what the assertion is worth, not that the
parser never fails it.  The run `streams` shows that `~StreamsWhileCaching` cannot
be dropped.
`TypeOK` needs the type of `FlattenSeq`, a recursive function of the library: it is
defined and typed at every length, or there were a least length where it is not
(`FlattenTyped`, from the well-foundedness of `<`).

`LookAheadTellsNext` and `TokensAreOneTape` are about what comes next, `Upcoming`: the
token on its way, the cache from the cursor on, then all that is on the stack of lexers,
expanded; a look ahead puts the token on its way behind the cache instead.  Every step
is shown to leave it, but for those that read its first token, put tokens before it or
go back (`LexUpcoming`, `CachingLexReturnsUpcoming`, `BacktrackUpcoming` and so on, one
lemma for each action).  `PeekHolds` then says that what was looked at is the n-th of
what comes next, as long as it counts, and that an unfinished look ahead has as many
tokens to go as lie between the cursor, the cache's end and its goal.

The refinement maps the tape's text to what has been read and what comes next
(`TextIs`); with the lemmas above every action but one is a step of the tape or shows
nothing.  The one is `Backtrack`: the tape goes back to the text it had, so the tokens
between the mark and the cursor must be, put together, just what has been read since
the mark, although annotations have replaced tokens in the cache and in what the parser
holds, and not always the same ones.  `MarksMatch` says so of every mark: what had been
read at the mark, followed by the cache from there to the cursor, is what has been read
(`Matches`), and every end of a token that the parser holds after the mark is the end of
a cached token, the cache being the finer of the two.  The second half is what makes the
first inductive: an annotation that covers what the parser has read covers whole cached
tokens, so that the one that `AnnotatePreviousCachedTokens` finds by the location of its
first token ends where it should (`AnnotatedText`, for which it matters that no location
is there twice in an annotation).  The same must hold between any two marks
(`FewerMarksMatch`).  `SlotEmpty` says that the slot that a look ahead is to fill adds
nothing to the text yet.  That a token is not pushed back beyond the innermost mark
(`FloorIsBelow`) follows from `MarksMatch` too.

`FileManagerProofs.tla`, for all constants that satisfy `FileManagerAssumption`: any
names and directories of any depth, any inodes, any number of entries and a number
of descriptors greater than that.

| Theorem | Says | Hypotheses |
|---|---|---|
| `FilesTyped` | `Spec => []TypeOK` | none |
| `DescriptorsNeverLeaked` | `Spec => []DescriptorsOwned` | none |
| `FailuresOnlyAsAllowed` | `Spec => []FailuresAllowed` | none |
| `EntriesKept` | `Spec => EntriesKeepIdentity` | none |
| `AnswersStay` | `Spec => AnswersKept` | none |
| `OneEntryPerFile` | `Spec => []NamesAgree` | `~InvalidateAliased` |
| `VirtualDirectoriesHang` | `Spec => []VirtualAncestors` | `~VirtualUnderMissing` |
| `VirtualFilesHaveDirectory` | `Spec => VirtualFileHasDirectory` | `~VirtualUnderMissing` |

The calls are first brought to what they may do to the names, the entries and the
descriptors (`Step`: find, make, close, invalidate) and to the directories
(`DirsStep`).  The inductive invariant `Base` is `TypeOK`, `DescriptorsOwned`, the
bound on the entries, and that an entry with a descriptor has a file on disk
(`RealOnly`).  Without `RealOnly` a virtual entry could hold the number of a
descriptor that is free, and share it with the next file opened.  `TypeOK` is no
smaller a matter: that there is a free descriptor (`FreeExists`) follows from
`DescriptorsOwned` by the pigeonhole principle.  `NamesAgree` needs that what is
invalidated has one name, or the others are left with an entry that was destroyed.
The last two theorems are the other side of finding 4: the run `virtuals` violates
`VirtualFileHasDirectory` without the hypothesis, and it is the only thing it needs.

`DeltaTreeProofs.tla`, for nodes of any width and trees of any height.

| Theorem | Says |
|---|---|
| `DeltaAdded` | `AddDelta` leaves a verified tree verified, its locations are those there were and the new one, and `GetDeltaAt` finds the delta behind the location and nowhere else |

The notion that goes through the recursion is `Sound`: the parts of a tree fit, each
node is no wider than it may be and has the sum of what is below it.  What a tree
*counts* before a place is what `GetDeltaAt` answers; `SoundParts` says that it is
what its values and its children count, although the code adds up the sums of the
children on the left and stops early where it finds the place itself.  Every piece of
the insertion is then shown to leave sound parts that count what there was and the
delta behind its location: a value that is added to (`AddedHereGrows`), a leaf with
room (`IntoLeafGrows`), a split (`SplitIs`), what comes up from a child
(`PercolatedSound`), and what comes up into a full node, where it has its place in one of
the halves and that half alone adds it to its sum (`HalfPercolates`, `SideGrows`,
`SplitInteriorDone`).  `AddDeltaAdds` is the induction on the height.  It is done
without a theorem on induction: the heights for which it holds are a set that has 0 in it
and with each number the next (`AllNumbers`, from the well-foundedness of `<`).

`RewriteBufferProofs.tla`, for all constants that satisfy `RewriteBufferAssumption` and
`DeltaTreeAssumption`: any texts and strings, the empty one included, and any number of
edits.  All theorems have the hypotheses `~InsertsAtEnds` and `~MovedLines`: no range is
edited whose options are at odds with what was inserted at its ends, and no empty line is
removed that earlier edits moved.  TLC refutes `OffsetsMapped` without either.

| Theorem | Says |
|---|---|
| `BufferTyped` | `Spec => []TypeOK` |
| `TreeStaysVerified` | `Spec => []TreeVerified` |
| `OffsetsStayMapped` | `Spec => []OffsetsMapped` |
| `RangesAreRead` | `Spec => []RangesRead` |
| `EditsHitTheirText` | `Spec => ImplementsAnchoredText`, the refinement |

`OffsetsMapped` alone is not inductive: it says where the tree maps an offset, but not
why a cut or an insertion moves the others by just what the tree counts.  The inductive
invariant, `BufferKept`, has three parts.  `Kept`: the anchors are in order; a character
of the original is alone at its anchor, and neither its offset nor the next is dead (so
that it begins and ends at places still in use); what is dead is none of the start.
`Mapped`: each offset in use divides the text where the tree says, before and after what was
inserted there.  `Tree`: the tree is verified and its locations are anchors of the original.
Of a text two things can happen to it.  A stretch between two anchors is cut out, the
offsets inside become dead, and the tree counts the cut behind the first anchor
(`CutMapped`); or a string is put where its anchor belongs, and the tree counts it behind
the anchor (`PutMapped`).  `DeltaAdded` is what makes the tree count just that.  So it is
left to show of each edit that it cuts and puts in this way.  For a length this is so
because nothing was done to what is in it (`IntactSpans`, over the length); for a range,
because its options agree with what is at its ends, one case for each pair of options
(`RangeSpans`); for an empty line, because it lies in the buffer where it was in the
original (`InPlace`), which is why its offset in the buffer, that `RemoveText` records,
does no harm (`LineBegins`, `LineCut`).  The refinement needs no more: a place found by
the mapping is that found by counting anchors (`PlaceCounted`), and a cut between two
places is what the contract leaves out (`CutApart`).

`EditedSourceProofs.tla`, for all constants that satisfy `EditedSourceAssumption`: a
file of any length, any macro arguments, and any number of commits and calls.

| Theorem | Says |
|---|---|
| `EditsTyped` | `Spec => []TypeOK` |
| `EditsApart` | `Spec => []EditsDisjoint` |
| `AcceptedPlacesStay` | `Spec => []CheckedStillHolds` |
| `TextEdited` | `Spec => ImplementsEditedText` |
| `RewritesMakeText` | `Spec => []RewritesGiveText` |

The inductive invariant `IInv` is the first three with full types: `FileEdits` (each
edit of the file has text, and a stretch within the file), `Disjoint` and `Collected`
(each edit of the commit is one of three kinds, and what the commit has checked of it
still holds).  None of the three is inductive without the others: an insertion keeps
the edits apart only because its place is not inside a stretch, which is what the
commit has checked, and a removal leaves the places of those that follow only
because the commit has checked them against it too.
All that is hard in `commitRemove` is in one lemma (`RemoveStretches`): whatever
the stretch meets, either an edit removes it all already, or some edits go and one
gets a stretch (`Stretch`) that lies behind all that is before it, before all that is
behind it, and removes nothing besides that was not removed.  That the edits stay
apart (`StretchKeeps`) and what happens to the text (`RemoveMeans`) follow from it.
For `TextEdited` the steps `Insert`, `InsertFromRange` and `Remove` of a commit are
mapped to those of `EditedText`.  The hard one is the copy of a range.  `RangeText`
shows that the loop, which skips and copies stretches, gives the same text as the
contract, which goes character by character: at each offset, what has been put
together, with the source from where it is to be copied next, is the text so far,
and that place lies behind the offset just when the offset is removed.  Both
recursions, that of the model and that of `FlattenSeq`, are shown to be defined and
followed with the well-foundedness of `<` (`Recursion`, `Reaches`, `FlattenSteps`).
`IInv` was checked as an invariant of the run `edits` before it was proved.
`RewritesMakeText` needs no more of the state than that the edits are typed and apart.
Both `Rewrites` and `Rewritten` go through what they are given in order; `Reach` says how
the two keep together, offset by offset: the rewrites made so far (`PutAll`) make the
text that passing the same edits one by one makes (`AllPassed`, which is `RangeText` for
the whole file, with what is inserted at its end), they are apart, the text has not been
passed beyond an edit that is still to come (`ReachBelow`), and the end that
`applyRewrites` remembers of the last one is where the text has been passed to, *unless it
lies behind the offset*.  That last case is what joining leaves: the end is not moved on,
so that of three adjacent edits the third is a rewrite of its own.  An edit that is joined
(`ReachJoin`) begins where the text has been passed to, so that no source lies between
the texts that are put together.

`TypeSearchProofs.tla`, for all constants that satisfy `TypeSearchAssumption`: any finite
type graphs, cyclic in any way, any number of things in a module, and a stack of any
depth.

| Theorem | Says |
|---|---|
| `SearchTyped` | `Spec => []TypeOK` |
| `MetadataRight` | `Spec => []MetadataTellsUse` |

It is partial correctness: that a search ends (`SearchEnds`) is liveness, is false of
some graphs (a struct with a pointer to a function that takes a pointer to the struct),
and stays with TLC.  What is proved is that a search that ends has the right
answer, which is in doubt because it passes over what is on the list without knowing
whether that has been searched to its end.

The inductive invariant has three parts.  `Told`: the metadata tells of everything
before `at` (and, once half is searched for, of double in the thing at `at`).  `Shaped`:
a call has the list of its caller or the next one, the last list is that of the last
call.  `Explored`: for each list there is a set `D` of types that have it behind them, in
which the root of the search is; its members are within the root, everything on the list
and every type of a call is among them, each one leads to members only *or is the type
of a call with that list*, the elements that a call has gone through are members too,
and what is searched for is not, unless the last call has just begun with it.  The
`or` is what makes it inductive: a pointer may be passed over to a type that has not been
searched, since it is on the list, but that one is then the type of a call which has it
to search still, or leads to members only.  `D` is no variable of the code (its list
has only structs and functions, and not those of lists that are gone): when a
call with a list of its own returns, the set of that list goes into the caller's
(`SearchReturns`).  When the first call returns, no exception is left, so that `D` is
closed and `WithinLeast` puts all that is within the root in it (`SearchFails`).  That a
positive answer is right follows from `WithinClosed`: the recursion of `Within` stops
growing before it has been through as many steps as there are types, or the sets would
have more members than that.

## 5. Plan

Done: `ModuleCache`, `TokenCache`, `FileManager`, `RewriteBuffer` with `DeltaTree`,
`EditedSource`, `Diagnostics` with `DiagStates`, `TypeSearch`, each with its contract
where it has one; the proofs of every invariant, refinement and property of steps that a
passing run checks.  With TLC stay `EveryProcessStops` and `SearchEnds`, which are
liveness, and the properties that the other runs refute.  To come, in this order:

1. `TokenCache`: macro arguments with `_Pragma`, the `import` mode.
2. `SourceManager`: the last-lookup cache of `getFileID` against the search.
3. `Driver`: jobs, failures and the removal of result files.
4. Macro expansion: disabled macros and the arguments that are expanded first.

## 6. Not modelled, and why

Of the modelled components, what is left out is named above and in
`PROJECT.json`, component by component.  Not modelled at all: macro expansion, the
driver's jobs and the SourceManager, for want of time; they are in the plan.

Parsing, semantic analysis, IR generation and the analyzer's transfer functions
are defined by the C, C++, Objective-C and OpenCL languages rather than by a
protocol: their states are unbounded trees, and the lit tests fit them better.
Argument parsing, tool chains, formatting and printing are string work.  LLVM
itself is external.  Lazy deserialization is mostly data layout and is left for
last.
