---------------------------- MODULE ModuleCache ----------------------------
(* The on-disk module cache that several compiler processes share, and the
   import of a module through it: CompilerInstance::loadModule and
   compileModule, the output files of a nested CompilerInstance, and the part
   of FileManager, ASTReader and ModuleManager an import runs through.

   A process is a stack of compiler instances: the bottom one compiles its
   translation unit, each one above builds a module for the one below it and
   has caches of its own.  Every step is one interaction with the file system
   (a stat, a lock, an open, a rename, a remove); everything between two of
   them is local to the process.  The lock is llvm::LockFileManager, which is
   not part of the repository and is modelled from its use.                 *)
EXTENDS Naturals, Sequences, SequencesExt, FiniteSets

CONSTANTS
  Proc,          \* compiler processes that share the module cache
  Module,        \* top-level modules
  Imports,       \* Imports[m]: what the headers of m import, in order
  TUImports,     \* TUImports[p]: what the translation unit of p imports
  NoMap,         \* modules no module map describes: loadable, not buildable
  Bad,           \* <<m, v>> when version v of m's headers does not compile
  Stale,         \* the cache files present at the start, by module
  MaxVersion,    \* bound: the last version of a module's headers
  FaultKinds,    \* the environment faults that may happen, and
  MaxFaults,     \* bound: how many of them
  MayEdit,       \* whether headers are edited while compilers run
  NoFile,        \* no module file at that path
  Torn,          \* a file that is still being written
  Free,          \* no lock file
  TU             \* the translation unit, in the place of a module

Version == 1..MaxVersion

(* What a module file holds: the version of the module's own headers, the
   modules it imports directly, and the header version of every module that
   was loaded while it was built (0: not loaded).                          *)
Content == [ver : Version, imps : SUBSET Module, saw : [Module -> 0..MaxVersion]]

AllFaults == {"lock", "timeout", "map", "temp", "rename", "crash", "recovered"}

ASSUME ModuleCacheAssumption ==
  /\ MaxVersion \in Nat \ {0} /\ MaxFaults \in Nat
  /\ Imports \in [Module -> Seq(Module)] /\ TUImports \in [Proc -> Seq(Module)]
  /\ NoMap \subseteq Module /\ Bad \subseteq Module \X Version
  /\ FaultKinds \subseteq AllFaults /\ MayEdit \in BOOLEAN
  /\ Stale \in [Module -> Content \cup {NoFile}]
  /\ Module \cap {NoFile, Torn, TU} = {} /\ Free \notin Proc
  /\ NoFile \notin Content /\ Torn \notin Content /\ Torn # NoFile

VARIABLES
  pcm,     \* the module file of each module
  lock,    \* the process named in each module's lock file
  hdr,     \* the version of each module's headers on disk
  stack,   \* each process's compiler instances, the innermost last
  status,  \* whether a process runs, is done or has crashed
  faults   \* how many faults have happened

vars == <<pcm, lock, hdr, stack, status, faults>>

(* A CompilerInstance.  `known` is KnownModules, `fm` what its FileManager
   has cached about each module file, `chain` the module files its ASTReader
   has loaded, `rd` the control blocks being read, outermost first, `fresh`
   what the running ReadAST has added to chain, `imps` the modules
   imported directly, `err` hasErrorOccurred().  *)
Frame == [mod : Module \cup {TU}, ver : Version, direct : BOOLEAN,
          pc : {"import", "lock", "wait", "after", "read", "evict", "unlock"},
          why : {"cached", "build", "rebuild"},
          todo : Seq(Module), call : {1, 2},
          known : [Module -> {"unknown", "ok", "null"}],
          fm : [Module -> {"unseen", "seen", "absent"}],
          chain : [Module -> Content \cup {NoFile}], imps : SUBSET Module,
          rd : Seq([m : Module, left : SUBSET Module]), fresh : SUBSET Module,
          err : BOOLEAN]

NewInstance(m, v, imports, direct) ==
  [mod |-> m, ver |-> v, direct |-> direct, pc |-> "import", why |-> "cached",
   todo |-> imports, call |-> 1, known |-> [d \in Module |-> "unknown"],
   fm |-> [d \in Module |-> "unseen"], chain |-> [d \in Module |-> NoFile],
   imps |-> {}, rd |-> <<>>, fresh |-> {}, err |-> FALSE]

Init ==
  /\ pcm = Stale
  /\ lock = [m \in Module |-> Free]
  /\ hdr \in [Module -> Version]
  /\ \A m \in Module : Stale[m] # NoFile => Stale[m].ver <= hdr[m]
  /\ stack = [p \in Proc |-> <<NewInstance(TU, 1, TUImports[p], FALSE)>>]
  /\ status = [p \in Proc |-> "running"]
  /\ faults = 0

-----------------------------------------------------------------------------
(* Helpers *)

Depth(p) == Len(stack[p])
Top(p) == stack[p][Depth(p)]
Cur(f) == Head(f.todo)

(* The innermost instance of a running process is about to do `pc`.        *)
At(p, pc) == status[p] = "running" /\ Top(p).pc = pc
Importing(p) == At(p, "import") /\ Top(p).todo # <<>>

SetTop(p, f) == stack' = [stack EXCEPT ![p] = [stack[p] EXCEPT ![Depth(p)] = f]]

(* A mutant: the second call does not consume the import declaration.       *)
MutNextCall(f) == [f EXCEPT !.call = @ + 1, !.pc = "import"]

(* An import declaration reaches loadModule twice, from the preprocessor and
   from the parser.                                                         *)
NextCall(f) == IF f.call = 1 THEN [f EXCEPT !.call = 2, !.pc = "import"]
               ELSE [f EXCEPT !.call = 1, !.pc = "import", !.todo = Tail(f.todo)]

(* A mutant: an import that fails is not an error of this instance.        *)
MutFailed(f, null, report) ==
  NextCall([f EXCEPT !.known[Cur(f)] = IF null THEN "null" ELSE @])

(* Give up on the current import; `null` says whether KnownModules says so. *)
Failed(f, null, report) ==
  NextCall([f EXCEPT !.known[Cur(f)] = IF null THEN "null" ELSE @,
                     !.err = @ \/ report])

(* FileManager::getFile on a module file: what it answers, what it keeps.  *)
Seen(f, m) == f.fm[m] = "seen" \/ (f.fm[m] = "unseen" /\ pcm[m] # NoFile)
(* A mutant: every failure is cached, that before the build too.            *)
MutStat(f, m, cacheFailure) ==
  [f EXCEPT !.fm[m] = IF Seen(f, m) THEN "seen" ELSE "absent"]
Stat(f, m, cacheFailure) ==
  [f EXCEPT !.fm[m] = IF Seen(f, m) THEN "seen"
                      ELSE IF cacheFailure THEN "absent" ELSE @]

BuildPath(p) == {stack[p][i].mod : i \in 1..Depth(p)}

(* A mutant: the lock file is ignored.                                      *)
MutHeld(m) == FALSE

(* A lock whose owner is dead does not count: LockFileManager removes it.  *)
Held(m) == lock[m] # Free /\ status[lock[m]] # "crashed"

(* A mutant: the lock file stays.                                           *)
MutReleased(m) == lock

Released(m) == [lock EXCEPT ![m] = Free]

(* A mutant: a module file is never out of date.                           *)
MutUpToDate(f, m) == TRUE

(* getInputFile: the headers have the size and time the file recorded.     *)
UpToDate(f, m) == f.chain[m].ver = hdr[m]

Fault(kind) == kind \in FaultKinds /\ faults < MaxFaults /\ faults' = faults + 1

-----------------------------------------------------------------------------
(* loadModule up to the first ReadAST *)

(* KnownModules has the answer, or the module is the one being built.      *)
ImportKnown(p) ==
  /\ Importing(p)
  /\ LET f == Top(p) IN
     /\ f.known[Cur(f)] # "unknown" \/ Cur(f) = f.mod
     /\ SetTop(p, NextCall([f EXCEPT !.known[Cur(f)] =
                                       IF @ = "unknown" THEN "ok" ELSE @]))
  /\ UNCHANGED <<pcm, lock, hdr, status, faults>>

(* Ask the FileManager for the module file; without one, report a module
   that cannot be built or that is being built below, else build it.       *)
FindModuleFile(p) ==
  /\ Importing(p)
  /\ LET f == Stat(Top(p), Cur(Top(p)), FALSE)
         m == Cur(f)
     IN
     /\ f.known[m] = "unknown" /\ m # f.mod
     /\ \/ Seen(f, m) /\ SetTop(p, [f EXCEPT !.pc = "read", !.why = "cached"])
        \/ /\ ~Seen(f, m) /\ (m \in NoMap \/ m \in BuildPath(p))
           /\ SetTop(p, Failed(f, FALSE, TRUE))
        \/ /\ ~Seen(f, m) /\ m \notin NoMap \cup BuildPath(p)
           /\ SetTop(p, [f EXCEPT !.pc = "lock", !.why = "build"])
  /\ UNCHANGED <<pcm, lock, hdr, status, faults>>

-----------------------------------------------------------------------------
(* compileModule *)

Crashed(p) == /\ status' = [status EXCEPT ![p] = "crashed"]
              /\ stack' = [stack EXCEPT ![p] = <<>>]

(* The lock is ours: build the module in an instance of its own.  Its output
   is a temporary file, or the module file itself when no temporary can be
   created.  There is no Module to build from when no module map has it.   *)
LockOwned(p) ==
  /\ At(p, "lock")
  /\ LET m == Cur(Top(p))
         Build(direct) == Append(stack[p], NewInstance(m, hdr[m], Imports[m], direct))
     IN
     /\ ~Held(m)
     /\ lock' = [lock EXCEPT ![m] = p]
     /\ \/ /\ m \in NoMap /\ Crashed(p)
           /\ UNCHANGED <<pcm, faults>>
        \/ /\ m \notin NoMap /\ stack' = [stack EXCEPT ![p] = Build(FALSE)]
           /\ UNCHANGED <<pcm, status, faults>>
        \/ /\ m \notin NoMap /\ Fault("temp")
           /\ stack' = [stack EXCEPT ![p] = Build(TRUE)]
           /\ pcm' = [pcm EXCEPT ![m] = Torn]
           /\ UNCHANGED status
  /\ UNCHANGED hdr

(* Someone else builds the module: wait for the lock to go away.           *)
LockShared(p) ==
  /\ At(p, "lock") /\ Held(Cur(Top(p)))
  /\ SetTop(p, [Top(p) EXCEPT !.pc = "wait"])
  /\ UNCHANGED <<pcm, lock, hdr, status, faults>>

(* compileModule returns at once: the lock file cannot be created, or the
   temporary module map cannot (which is reported, and frees the lock).    *)
LockFails(p) ==
  /\ At(p, "lock")
  /\ \/ Fault("lock") /\ SetTop(p, [Top(p) EXCEPT !.pc = "after"])
     \/ /\ Fault("map") /\ ~Held(Cur(Top(p))) /\ Cur(Top(p)) \notin NoMap
        /\ SetTop(p, [Top(p) EXCEPT !.pc = "after", !.err = TRUE])
  /\ UNCHANGED <<pcm, lock, hdr, status>>

(* waitForUnlock comes back: the lock is gone, or it gives up.             *)
WaitForUnlock(p) ==
  /\ At(p, "wait") /\ ~Held(Cur(Top(p)))
  /\ SetTop(p, [Top(p) EXCEPT !.pc = "after"])
  /\ UNCHANGED <<pcm, lock, hdr, status, faults>>

WaitTimesOut(p) ==
  /\ At(p, "wait") /\ Fault("timeout")
  /\ SetTop(p, [Top(p) EXCEPT !.pc = "after"])
  /\ UNCHANGED <<pcm, lock, hdr, status>>

(* The nested instance has read its whole input.  With an error its output
   is erased, otherwise written and renamed into place; a rename that fails
   removes the temporary file.                                              *)
Output(f) ==
  [ver |-> f.ver,
   imps |-> f.imps,
   saw |-> [d \in Module |-> IF f.chain[d] = NoFile THEN 0 ELSE f.chain[d].ver]]

EndOfModule(p) ==
  /\ At(p, "import") /\ Top(p).todo = <<>> /\ Depth(p) > 1
  /\ LET f == Top(p)
         failed == f.err \/ <<f.mod, f.ver>> \in Bad
     IN
     /\ \/ /\ pcm' = [pcm EXCEPT ![f.mod] = IF ~failed THEN Output(f)
                                            ELSE IF f.direct THEN NoFile ELSE @]
           /\ UNCHANGED faults
        \/ /\ ~failed /\ ~f.direct /\ Fault("rename")
           /\ UNCHANGED pcm
     /\ SetTop(p, [f EXCEPT !.pc = "unlock", !.err = failed])
  /\ UNCHANGED <<lock, hdr, status>>

(* The build crashes inside its CrashRecoveryContext: erase its output.    *)
BuildCrash(p) ==
  /\ status[p] = "running" /\ Depth(p) > 1 /\ Top(p).pc # "unlock"
  /\ Fault("recovered")
  /\ pcm' = [pcm EXCEPT ![Top(p).mod] = IF Top(p).direct THEN NoFile ELSE @]
  /\ SetTop(p, [Top(p) EXCEPT !.pc = "unlock"])
  /\ UNCHANGED <<lock, hdr, status>>

(* ~LockFileManager, then back in loadModule of the importing instance.    *)
Unlock(p) ==
  /\ At(p, "unlock")
  /\ lock' = Released(Top(p).mod)
  /\ LET below == Front(stack[p])
         importer == [Last(below) EXCEPT !.pc = "after"]
     IN stack' = [stack EXCEPT ![p] = [below EXCEPT ![Len(below)] = importer]]
  /\ UNCHANGED <<pcm, hdr, status, faults>>

-----------------------------------------------------------------------------
(* loadModule after compileModule, and ASTReader::ReadAST *)

(* Look for the module file again, this time caching that it is absent.
   After a rebuild an absent file is not reported.                         *)
Recheck(p) ==
  /\ At(p, "after")
  /\ LET f == Stat(Top(p), Cur(Top(p)), TRUE)
         rebuilt == f.why = "rebuild"
     IN IF Seen(f, Cur(f)) THEN SetTop(p, [f EXCEPT !.pc = "read"])
                           ELSE SetTop(p, Failed(f, rebuilt, ~rebuilt))
  /\ UNCHANGED <<pcm, lock, hdr, status, faults>>

(* The file ReadASTCore opens next: the imported module itself, then the
   files named in the IMPORTS records of the control blocks being read.  An
   IMPORTS record lists them as they came to be loaded when it was written,
   which is abstracted to any order.                                        *)
AtFile(p) == At(p, "read") /\ (Top(p).rd # <<>> => Last(Top(p).rd).left # {})
Targets(f) == IF f.rd = <<>> THEN {Cur(f)} ELSE Last(f.rd).left

Advance(rd, m) ==
  [rd EXCEPT ![Len(rd)] = [m |-> Last(rd).m, left |-> Last(rd).left \ {m}]]

(* ReadASTCore is through with m; with the outermost file ReadAST ends.     *)
FileRead(f, m) ==
  IF f.rd = <<>>
  THEN NextCall([f EXCEPT !.known[Cur(f)] = "ok", !.fresh = {},
                          !.imps = @ \cup {Cur(f)}])
  ELSE [f EXCEPT !.rd = Advance(f.rd, m)]

(* A ReadAST that fails removes every module file it has added.            *)
Dropped(f) == [f EXCEPT !.rd = <<>>, !.fresh = {},
                        !.chain = [d \in Module |-> IF d \in f.fresh THEN NoFile
                                                    ELSE f.chain[d]]]

(* ModuleManager::addModule on a file that is loaded already, on one that
   cannot be opened or is no AST file, and on a new one.                   *)
OpenAST(p) ==
  /\ AtFile(p)
  /\ \E m \in Targets(Top(p)) :
       LET f == Stat(Top(p), m, TRUE) IN
       \/ f.chain[m] # NoFile /\ SetTop(p, FileRead(f, m))
       \/ /\ f.chain[m] = NoFile
          /\ f.fm[m] = "absent" \/ pcm[m] \in {NoFile, Torn}
          /\ SetTop(p, Failed(Dropped(f), TRUE, TRUE))
       \/ /\ f.chain[m] = NoFile
          /\ f.fm[m] = "seen" /\ pcm[m] \notin {NoFile, Torn}
          /\ SetTop(p, [f EXCEPT !.chain[m] = pcm[m], !.fresh = @ \cup {m},
                                 !.rd = Append(@, [m |-> m, left |-> pcm[m].imps])])
  /\ UNCHANGED <<pcm, lock, hdr, status, faults>>

(* The end of a control block, its imports loaded: compare the module's own
   headers with the disk.  loadModule rebuilds a module that is out of date,
   once; a second time it gives up.                                        *)
Validate(p) ==
  /\ At(p, "read") /\ Top(p).rd # <<>> /\ Last(Top(p).rd).left = {}
  /\ LET f == Top(p)
         m == Last(f.rd).m
     IN \/ /\ UpToDate(f, m)
           /\ SetTop(p, FileRead([f EXCEPT !.rd = Front(@)], m))
        \/ /\ ~UpToDate(f, m) /\ f.why # "rebuild"
           /\ SetTop(p, [Dropped(f) EXCEPT !.pc = "evict",
                                           !.err = @ \/ Cur(f) \in NoMap])
        \/ /\ ~UpToDate(f, m) /\ f.why = "rebuild"
           /\ SetTop(p, Failed(Dropped(f), TRUE, TRUE))
  /\ UNCHANGED <<pcm, lock, hdr, status, faults>>

(* Remove the out-of-date file, whatever it is by now, and build it again.  *)
Evict(p) ==
  /\ At(p, "evict")
  /\ pcm' = [pcm EXCEPT ![Cur(Top(p))] = NoFile]
  /\ SetTop(p, [Top(p) EXCEPT !.fm[Cur(Top(p))] = "unseen",
                              !.why = "rebuild", !.pc = "lock"])
  /\ UNCHANGED <<lock, hdr, status, faults>>

-----------------------------------------------------------------------------
(* The process and its environment *)

EndOfTU(p) ==
  /\ At(p, "import") /\ Top(p).todo = <<>> /\ Depth(p) = 1
  /\ status' = [status EXCEPT ![p] = "done"]
  /\ UNCHANGED <<pcm, lock, hdr, stack, faults>>

(* The process dies, with its lock files left behind.                      *)
Crash(p) ==
  /\ status[p] = "running" /\ Fault("crash") /\ Crashed(p)
  /\ UNCHANGED <<pcm, lock, hdr>>

(* Somebody edits the headers of a module.                                 *)
EditHeaders(m) ==
  /\ MayEdit /\ hdr[m] < MaxVersion
  /\ hdr' = [hdr EXCEPT ![m] = @ + 1]
  /\ UNCHANGED <<pcm, lock, stack, status, faults>>

Step(p) == \/ ImportKnown(p) \/ FindModuleFile(p)
           \/ LockOwned(p) \/ LockShared(p) \/ WaitForUnlock(p)
           \/ EndOfModule(p) \/ Unlock(p) \/ Recheck(p)
           \/ OpenAST(p) \/ Validate(p) \/ Evict(p) \/ EndOfTU(p)

Environment == \/ \E p \in Proc : \/ LockFails(p) \/ WaitTimesOut(p)
                                  \/ BuildCrash(p) \/ Crash(p)
               \/ \E m \in Module : EditHeaders(m)

Terminated == (\A p \in Proc : status[p] # "running") /\ UNCHANGED vars

Next == (\E p \in Proc : Step(p)) \/ Environment \/ Terminated

Spec == Init /\ [][Next]_vars
FairSpec == Spec /\ \A p \in Proc : WF_vars(Step(p))

-----------------------------------------------------------------------------
(* Properties *)

Instances == UNION {{p} \X (1..Depth(p)) : p \in Proc}
Instance(x) == stack[x[1]][x[2]]

(* Every variable has its type.                                            *)
TypeOK ==
  /\ pcm \in [Module -> Content \cup {NoFile, Torn}]
  /\ lock \in [Module -> Proc \cup {Free}]
  /\ hdr \in [Module -> Version]
  /\ stack \in [Proc -> Seq(Frame)]
  /\ status \in [Proc -> {"running", "done", "crashed"}]
  /\ faults \in 0..MaxFaults

(* compileModule builds under the lock: whoever is building a module is the
   process its lock file names, so no two live processes build one module. *)
BuildsUnderLock ==
  \A x \in Instances : Instance(x).mod # TU => lock[Instance(x).mod] = x[1]

(* Two processes never wait for each other's locks: loadModule looks for
   cycles in the module graph before it builds.                            *)
Waiting(p) == At(p, "wait")
NoMutualWait ==
  \A p, q \in Proc :
    ~ /\ Waiting(p) /\ Waiting(q)
      /\ lock[Cur(Top(p))] = q /\ lock[Cur(Top(q))] = p

(* A module file in the cache imports everything its headers import.       *)
PublishedComplete ==
  \A m \in Module :
    pcm[m] \in Content => pcm[m].imps = ToSet(Imports[m]) \ {m}

(* With headers that compile, modules that are described and no fault, no
   instance reports an error: however the processes interleave, the file a
   process waited for, or found before, is there when it is opened.        *)
ErrorHasCause ==
  \A x \in Instances :
    Instance(x).err => faults > 0 \/ Bad # {} \/ NoMap # {}

(* A compilation never uses a module file that is older than the headers
   were when it started, however stale the cache is.                       *)
LoadedAtLeast(m, v) ==
  \A x \in Instances :
    Instance(x).chain[m] # NoFile /\ m \notin Instance(x).fresh =>
      Instance(x).chain[m].ver >= v
LoadedNotOlder ==
  \A m \in Module, v \in Version : hdr[m] >= v => []LoadedAtLeast(m, v)

(* A module file is never replaced by one built from older headers, however
   long a build takes: the lock keeps other builds away until it is done.  *)
NeverReplacedByOlder ==
  [][\A m \in Module :
       pcm[m] \in Content /\ pcm'[m] \in Content => pcm'[m].ver >= pcm[m].ver]_vars

(* When the headers of a module are modified, "that module and dependent
   modules get rebuilt": a loaded module was built against the version of
   every module below it that is loaded with it.                           *)
DependentsRebuilt ==
  \A x \in Instances : Instance(x).rd = <<>> =>
    \A m, d \in Module :
      /\ Instance(x).chain[m] # NoFile /\ Instance(x).chain[d] # NoFile
      /\ Instance(x).chain[m].saw[d] # 0
      => Instance(x).chain[m].saw[d] = Instance(x).chain[d].ver

(* The contract this implements: what is available, and what the translation
   unit of each process has loaded.                                         *)
Imported(p) == IF stack[p] = <<>> THEN {}
               ELSE {m \in Module : stack[p][1].chain[m] # NoFile} \ stack[p][1].fresh

(* A compilation that ends without an error has loaded every module that its
   translation unit imports, and all that their headers import: a build that
   failed, a wait that timed out or ended at a lock whose owner died, and the
   loads a failing ReadAST took back are never mistaken for an import.      *)
SuccessMeansImported ==
  \A p \in Proc :
    status[p] = "done" /\ ~stack[p][1].err =>
      /\ ToSet(TUImports[p]) \subseteq Imported(p)
      /\ \A m \in Imported(p) : ToSet(Imports[m]) \ {m} \subseteq Imported(p)

Contract == INSTANCE ModuleImports
              WITH Needs <- [m \in Module |-> ToSet(Imports[m]) \ {m}],
                   available <- {m \in Module : pcm[m] \in Content},
                   loaded <- [p \in Proc |-> Imported(p)]
ImplementsContract == Contract!Spec

(* Every compilation comes to an end, whoever holds, loses or dies with a
   lock.                                                                   *)
EveryProcessStops == \A p \in Proc : <>(status[p] # "running")
=============================================================================
