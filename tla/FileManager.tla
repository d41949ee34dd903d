---------------------------- MODULE FileManager ----------------------------
(* The compiler's cache of files and directories: what it remembers of every
   name it was asked for, the entries it hands out, one for all the names of
   a file, and the descriptors they own, over a disk that changes under it.

   A lookup is one step here: what other processes do between its two system
   calls could as well be done before or after it.  Sizes and times are left
   out, and so are files without a directory in their name.                 *)
EXTENDS Naturals, Sequences, FiniteSets

CONSTANTS
  File,          \* names of files
  Dir,           \* names of directories
  Above,         \* Above[n]: the directories on n's path, the nearest first
  Object,        \* what a name can stand for on disk: an inode
  Descriptor,    \* file descriptors
  MaxEntries,    \* bound: entries made
  None, Unseen, Missing,
  VirtualUnderMissing,  \* whether a file is made virtual under a directory
                        \* that the cache remembers as missing
  InvalidateAliased     \* whether an entry with two names is invalidated

ASSUME FileManagerAssumption ==
  /\ Above \in [File \cup Dir -> Seq(Dir)]
  /\ \A f \in File : Above[f] # <<>>
  /\ \A n \in File \cup Dir : \A i \in DOMAIN Above[n] :
       Above[Above[n][i]] = SubSeq(Above[n], i + 1, Len(Above[n]))
  /\ IsFiniteSet(Descriptor) /\ Cardinality(Descriptor) > MaxEntries
  /\ None \notin Object \cup Descriptor /\ Unseen # Missing
  /\ {Unseen, Missing} \cap (Nat \cup {"real", "virtual"}) = {}
  /\ MaxEntries \in Nat
  /\ VirtualUnderMissing \in BOOLEAN /\ InvalidateAliased \in BOOLEAN

VARIABLES
  disk,      \* what each name stands for on disk, or None
  dirs,      \* the directories on disk
  seenDir,   \* SeenDirEntries
  seenFile,  \* SeenFileEntries
  entries,   \* every FileEntry made, in order; seenFile holds indices
  nextUID,   \* NextFileUID
  opened,    \* what each descriptor is open on, or None
  allowed    \* the names whose absence a caller has allowed to be remembered

vars == <<disk, dirs, seenDir, seenFile, entries, nextUID, opened, allowed>>
cache == <<seenDir, seenFile, entries, nextUID, opened, allowed>>
theDisk == <<disk, dirs>>

Ids == 1..Len(entries)
Entry == [name : File, of : Object \cup {None}, uid : Nat,
          fd : Descriptor \cup {None}, live : BOOLEAN]

Init ==
  /\ dirs \in {{}, Dir}
  /\ disk = [f \in File |-> None]
  /\ seenDir = [d \in Dir |-> Unseen]
  /\ seenFile = [f \in File |-> Unseen]
  /\ entries = <<>> /\ nextUID = 0
  /\ opened = [d \in Descriptor |-> None]
  /\ allowed = {}

-----------------------------------------------------------------------------
(* Helpers *)

Parent(f) == Above[f][1]
Present(d) == seenDir'[d] \in {"real", "virtual"}

(* getDirectory: the cache of directories after d was looked up.            *)
LookedUp(sd, d, cacheFailure) ==
  [sd EXCEPT ![d] = IF @ # Unseen THEN @
                    ELSE IF d \in dirs THEN "real"
                    ELSE IF cacheFailure THEN Missing ELSE @]

(* A mutant: the nearest directory only.                                    *)
MutWithAncestors(sd, path) ==
  [sd EXCEPT ![path[1]] = IF @ = Unseen THEN "virtual" ELSE @]

(* addAncestorsAsVirtualDirs: up the path as long as nothing is cached.     *)
WithAncestors(sd, path) ==
  LET new == {path[i] : i \in {j \in DOMAIN path :
                               \A k \in 1..j : sd[path[k]] = Unseen}}
  IN [d \in Dir |-> IF d \in new THEN "virtual" ELSE sd[d]]

(* The entry in UniqueRealFiles for what is on disk as o, if there is one.  *)
UniqueReal(o) == {i \in Ids : entries[i].live /\ entries[i].of = o}
TheEntry(o) == CHOOSE i \in UniqueReal(o) : TRUE

FreeDescriptor == CHOOSE d \in Descriptor : opened[d] = None
Open(o) == [opened EXCEPT ![FreeDescriptor] = o]

(* A mutant: left to the entry, which has a descriptor of its own or none.  *)
MutClose(od, d) == od

Close(od, d) == IF d = None THEN od ELSE [od EXCEPT ![d] = None]

(* A mutant: the name gets the entry after.                                 *)
MutNewEntry(f, o, fd) ==
  /\ Len(entries) < MaxEntries
  /\ entries' = Append(entries, [name |-> f, of |-> o, uid |-> nextUID,
                                 fd |-> fd, live |-> TRUE])
  /\ nextUID' = nextUID + 1
  /\ seenFile' = [seenFile EXCEPT ![f] = Len(entries) + 2]

(* A name gets its entry; a new one takes the next number.                  *)
NewEntry(f, o, fd) ==
  /\ Len(entries) < MaxEntries
  /\ entries' = Append(entries, [name |-> f, of |-> o, uid |-> nextUID,
                                 fd |-> fd, live |-> TRUE])
  /\ nextUID' = nextUID + 1
  /\ seenFile' = [seenFile EXCEPT ![f] = Len(entries) + 1]

(* A mutant: the entry becomes that of the name now asked for.              *)
MutKnownEntry(f, i, fd) ==
  /\ entries' = [entries EXCEPT ![i].fd = fd, ![i].name = f, ![i].uid = nextUID]
  /\ nextUID' = nextUID + 1
  /\ seenFile' = [seenFile EXCEPT ![f] = i]

KnownEntry(f, i, fd) ==
  /\ entries' = [entries EXCEPT ![i].fd = fd]
  /\ seenFile' = [seenFile EXCEPT ![f] = i]
  /\ UNCHANGED nextUID

(* A failure stays in the cache only if the caller allows it.               *)
NotFound(f, cacheFailure) ==
  /\ seenFile' = IF cacheFailure THEN [seenFile EXCEPT ![f] = Missing] ELSE seenFile
  /\ UNCHANGED <<entries, nextUID, opened>>

-----------------------------------------------------------------------------
(* The cache's operations *)

GetDirectory(d, cacheFailure) ==
  /\ seenDir' = LookedUp(seenDir, d, cacheFailure)
  /\ allowed' = IF cacheFailure THEN allowed \cup {d} ELSE allowed
  /\ UNCHANGED <<seenFile, entries, nextUID, opened, theDisk>>

(* A mutant: the failed lookup of the directory always stays.               *)
MutDirectoryOfFile(f, cacheFailure) == LookedUp(seenDir, Parent(f), TRUE)

DirectoryOfFile(f, cacheFailure) == LookedUp(seenDir, Parent(f), cacheFailure)

(* A file is looked up by opening it; the descriptor is closed again unless
   the caller wants it and the entry is new.                                *)
GetFile(f, openFile, cacheFailure) ==
  /\ allowed' = IF cacheFailure THEN allowed \cup {f, Parent(f)} ELSE allowed
  /\ UNCHANGED theDisk
  /\ IF seenFile[f] # Unseen
     THEN UNCHANGED <<seenDir, seenFile, entries, nextUID, opened>>
     ELSE /\ seenDir' = DirectoryOfFile(f, cacheFailure)
          /\ IF ~Present(Parent(f)) \/ disk[f] = None
             THEN NotFound(f, cacheFailure)
             ELSE LET fd == FreeDescriptor
                      kept == IF openFile THEN fd ELSE None
                      od == IF openFile THEN Open(disk[f])
                            ELSE Close(Open(disk[f]), fd)
                  IN IF UniqueReal(disk[f]) # {}
                     THEN LET i == TheEntry(disk[f]) IN
                          /\ opened' = Close(od, kept)
                          /\ KnownEntry(f, i, entries[i].fd)
                     ELSE opened' = od /\ NewEntry(f, disk[f], kept)

(* A mutant: what is known is not looked at.                                *)
MutNeedsVirtual(f) == TRUE

NeedsVirtual(f) == seenFile[f] \in {Unseen, Missing}

(* A file whose contents the caller supplies.  If there is such a file on
   disk its entry is taken, and any descriptor of it closed.                *)
GetVirtualFile(f) ==
  /\ NeedsVirtual(f)
  /\ VirtualUnderMissing \/ \A i \in DOMAIN Above[f] : seenDir[Above[f][i]] # Missing
  /\ seenDir' = LookedUp(WithAncestors(seenDir, Above[f]), Parent(f), TRUE)
  /\ IF disk[f] = None
     THEN opened' = opened /\ NewEntry(f, None, None)
     ELSE LET od == Close(Open(disk[f]), FreeDescriptor) IN
          IF UniqueReal(disk[f]) # {}
          THEN LET i == TheEntry(disk[f]) IN
               /\ opened' = Close(od, entries[i].fd)
               /\ KnownEntry(f, i, None)
          ELSE opened' = od /\ NewEntry(f, disk[f], None)
  /\ UNCHANGED <<theDisk, allowed>>

(* The contents are read through the entry's descriptor, once; without one
   the file is opened by name, and closed.                                  *)
GetBufferForFile(i) ==
  /\ entries[i].live /\ entries[i].fd # None
  /\ opened' = Close(opened, entries[i].fd)
  /\ entries' = [entries EXCEPT ![i].fd = None]
  /\ UNCHANGED <<theDisk, seenDir, seenFile, nextUID, allowed>>

(* A mutant: the names are left alone.                                      *)
MutErased(i) == seenFile

Erased(i) == [seenFile EXCEPT ![entries[i].name] = Unseen]

(* The entry's own name is forgotten, and a real entry destroyed, with the
   descriptor it owns; a virtual one stays until the end.                   *)
InvalidateCache(i) ==
  /\ \E f \in File : seenFile[f] = i
  /\ InvalidateAliased \/ \A f \in File : seenFile[f] = i => f = entries[i].name
  /\ seenFile' = Erased(i)
  /\ IF entries[i].of = None THEN UNCHANGED <<entries, opened>>
     ELSE /\ entries' = [entries EXCEPT ![i].live = FALSE, ![i].fd = None]
          /\ opened' = Close(opened, entries[i].fd)
  /\ UNCHANGED <<theDisk, seenDir, nextUID, allowed>>

-----------------------------------------------------------------------------
(* Other processes: files are made, removed, linked and replaced.           *)

ChangeFile(f, o) ==
  /\ Parent(f) \in dirs /\ o # disk[f]
  /\ disk' = [disk EXCEPT ![f] = o]
  /\ UNCHANGED <<dirs, cache>>

MakeDir(d) ==
  /\ d \notin dirs /\ \A i \in DOMAIN Above[d] : Above[d][i] \in dirs
  /\ dirs' = dirs \cup {d}
  /\ UNCHANGED <<disk, cache>>

RemoveDir(d) ==
  /\ d \in dirs /\ \A e \in dirs : \A i \in DOMAIN Above[e] : Above[e][i] # d
  /\ \A f \in File : Parent(f) = d => disk[f] = None
  /\ dirs' = dirs \ {d}
  /\ UNCHANGED <<disk, cache>>

Next ==
  \/ \E d \in Dir, c \in BOOLEAN : GetDirectory(d, c)
  \/ \E f \in File, o, c \in BOOLEAN : GetFile(f, o, c)
  \/ \E f \in File : GetVirtualFile(f)
  \/ \E i \in Ids : GetBufferForFile(i)
  \/ \E i \in Ids : InvalidateCache(i)
  \/ \E f \in File, o \in Object \cup {None} : ChangeFile(f, o)
  \/ \E d \in Dir : MakeDir(d) \/ RemoveDir(d)

Spec == Init /\ [][Next]_vars

-----------------------------------------------------------------------------
(* Properties *)

(* The cache's tables hold what their types in FileManager.h say.           *)
TypeOK ==
  /\ disk \in [File -> Object \cup {None}] /\ dirs \subseteq Dir
  /\ seenDir \in [Dir -> {Unseen, Missing, "real", "virtual"}]
  /\ seenFile \in [File -> {Unseen, Missing} \cup Ids]
  /\ entries \in Seq(Entry) /\ nextUID \in Nat
  /\ opened \in [Descriptor -> Object \cup {None}]
  /\ allowed \subseteq File \cup Dir

(* No descriptor is leaked or closed twice, across aliases, virtual files and
   invalidation: what is open belongs to one live entry, and is the file the
   entry is for, whatever its name stands for by now.                       *)
DescriptorsOwned ==
  /\ \A d \in Descriptor : opened[d] # None =>
       \E i \in Ids : entries[i].fd = d /\ \A j \in Ids \ {i} : entries[j].fd # d
  /\ \A i \in Ids : entries[i].fd # None =>
       entries[i].live /\ opened[entries[i].fd] = entries[i].of

(* A file with two names is treated as a single file: there is one entry of
   a file at a time, no name leads to one that was destroyed, and the name an
   entry bears leads to it, which is what invalidateCache erases by.        *)
NamesAgree ==
  /\ \A f \in File : seenFile[f] \in Ids => entries[seenFile[f]].live
  /\ \A i \in Ids : entries[i].live /\ entries[i].of # None =>
       UniqueReal(entries[i].of) = {i} /\ seenFile[entries[i].name] = i

(* A virtual directory is cached with the one above it, and so with all of its
   ancestors up to the nearest that is on disk.  Above that one nothing need
   be cached, although the comment in addAncestorsAsVirtualDirs says that the
   ancestors of a directory in the cache are there as well.                 *)
VirtualAncestors ==
  \A d \in Dir : seenDir[d] = "virtual" /\ Above[d] # <<>> =>
    seenDir[Above[d][1]] \in {"real", "virtual"}

(* A lookup that was not to be remembered leaves no trace, so that a module
   or a directory another process makes later is found.                     *)
FailuresAllowed ==
  /\ \A f \in File : seenFile[f] = Missing => f \in allowed
  /\ \A d \in Dir : seenDir[d] = Missing => d \in allowed

(* The clients keep entries: none changes its name, its number or its file,
   whatever is asked under other names of the file.                         *)
EntriesKeepIdentity ==
  [][\A i \in Ids : /\ entries'[i].name = entries[i].name
                    /\ entries'[i].uid = entries[i].uid
                    /\ entries'[i].of = entries[i].of]_vars

(* A name's answer only changes by way of invalidation.                     *)
AnswersKept ==
  [][\A f \in File : seenFile[f] \in Ids => seenFile'[f] \in {seenFile[f], Unseen}]_vars

(* The assertion in getVirtualFile: the directory of a virtual file is in the
   cache, whatever was looked up before.                                    *)
VirtualFileHasDirectory ==
  [][\A f \in File :
       NeedsVirtual(f) /\ seenFile'[f] \in 1..Len(entries')
         => Present(Parent(f))]_vars
=============================================================================
