------------------------- MODULE FileManagerProofs -------------------------
(* Theorems about FileManager, for any names, paths and inodes, any number of
   descriptors that is larger than that of the entries made, and a disk that
   changes in any way.                                                      *)
EXTENDS FileManager, TLAPS, FiniteSetTheorems, SequenceTheorems

(* No more entries are made than the bound says, and an entry that has no
   file on disk has no descriptor.                                          *)
Bounded == Len(entries) <= MaxEntries
RealOnly == \A i \in Ids : entries[i].fd # None => entries[i].of # None

Base == TypeOK /\ Bounded /\ DescriptorsOwned /\ RealOnly

(* What the constants are.                                                  *)
LEMMA ConstantsOK ==
  /\ Above \in [File \cup Dir -> Seq(Dir)]
  /\ \A f \in File : Above[f] # <<>>
  /\ IsFiniteSet(Descriptor) /\ Cardinality(Descriptor) > MaxEntries
  /\ None \notin Object /\ None \notin Descriptor /\ Unseen # Missing
  /\ Unseen \notin Nat /\ Missing \notin Nat
  /\ Unseen \notin {"real", "virtual"} /\ Missing \notin {"real", "virtual"}
  /\ MaxEntries \in Nat
BY FileManagerAssumption

(* Every file has a directory.                                              *)
LEMMA ParentOK ==
  ASSUME NEW f \in File
  PROVE  Parent(f) \in Dir /\ 1 \in DOMAIN Above[f]
<1>1. Above[f] \in Seq(Dir) /\ Above[f] # <<>>
  BY ConstantsOK
<1>2. Len(Above[f]) \in Nat \ {0} /\ DOMAIN Above[f] = 1..Len(Above[f])
  BY <1>1, EmptySeq, LenProperties
<1>3. 1 \in DOMAIN Above[f]
  BY <1>2
<1> QED
  BY <1>1, <1>3, ElementOfSeq, <1>2 DEF Parent

(* There is a descriptor to open a file with: each one that is open belongs to
   an entry of its own, and there are more of them than entries.            *)
LEMMA FreeExists ==
  ASSUME TypeOK, Bounded, DescriptorsOwned
  PROVE  FreeDescriptor \in Descriptor /\ opened[FreeDescriptor] = None
<1> DEFINE O == {d \in Descriptor : opened[d] # None}
           g == [d \in O |-> CHOOSE i \in Ids : entries[i].fd = d]
<1>1. Len(entries) \in Nat /\ Len(entries) <= MaxEntries /\ MaxEntries \in Nat
  BY LenProperties, ConstantsOK DEF TypeOK, Bounded
<1>2. IsFiniteSet(Ids) /\ Cardinality(Ids) = Len(entries)
  <2> DEFINE n == Len(entries)
  <2>1. n \in Int /\ 1 \in Int /\ n \in Nat
    BY <1>1
  <2> HIDE DEF n
  <2>2. IsFiniteSet(1..n) /\ Cardinality(1..n) = IF 1 > n THEN 0 ELSE n - 1 + 1
    BY ONLY <2>1, FS_Interval
  <2> QED
    BY <2>1, <2>2 DEF Ids, n
<1>3. IsFiniteSet(O) /\ Cardinality(O) \in Nat
  BY ConstantsOK, FS_Subset, FS_CardinalityType
<1>4. \A d \in O : g[d] \in Ids /\ entries[g[d]].fd = d
  BY DEF DescriptorsOwned
<1>5. g \in [O -> Ids]
  BY <1>4
<1> HIDE DEF g
<1>6. ~(\E x, y \in O : x # y /\ g[x] = g[y])
  BY <1>4
<1>7. ~(Cardinality(Ids) < Cardinality(O))
  BY <1>2, <1>3, <1>5, <1>6, FS_PigeonHole
<1>8. Cardinality(O) <= MaxEntries
  BY <1>1, <1>2, <1>3, <1>7
<1>9. Cardinality(Descriptor) \in Nat /\ Cardinality(Descriptor) > MaxEntries
  BY ConstantsOK, FS_CardinalityType
<1> HIDE DEF O
<1>10. O # Descriptor
  BY <1>1, <1>3, <1>8, <1>9
<1>11. \E d \in Descriptor : opened[d] = None
  BY <1>10 DEF O
<1> QED
  BY <1>11 DEF FreeDescriptor

-----------------------------------------------------------------------------
(* What a call may do to the entries and the descriptors                    *)

(* A name gets an entry that is there: nothing else changes, but that the
   descriptor of the entry may be closed.                                   *)
Keeps == UNCHANGED <<entries, nextUID, opened>>
Closes(i, alive) ==
  /\ nextUID' = nextUID
  /\ entries' = [entries EXCEPT ![i] = [@ EXCEPT !.fd = None, !.live = alive]]
  /\ opened' = Close(opened, entries[i].fd)
Makes(f, o, fd) ==
  /\ NewEntry(f, o, fd)
  /\ o \in Object \cup {None}
  /\ UniqueReal(o) = {} \/ o = None
  /\ \/ fd = None /\ opened' = opened
     \/ /\ fd \in Descriptor /\ opened[fd] = None /\ o # None
        /\ opened' = [opened EXCEPT ![fd] = o]

(* A name that was not known is found, or the failure is kept.              *)
Finds(f, i) ==
  /\ seenFile[f] \in {Unseen, Missing} /\ seenFile' = [seenFile EXCEPT ![f] = i]
  /\ disk[f] # None /\ i \in UniqueReal(disk[f])

(* A descriptor that is opened and closed at once is as it was.             *)
LEMMA OpenAndClose ==
  ASSUME Base, NEW o
  PROVE  /\ Close(Open(o), FreeDescriptor) = opened
         /\ Close(opened, None) = opened
         /\ FreeDescriptor # None
<1>1. /\ FreeDescriptor \in Descriptor /\ opened[FreeDescriptor] = None
      /\ FreeDescriptor # None
  BY FreeExists, ConstantsOK DEF Base
<1>2. opened \in [Descriptor -> Object \cup {None}]
  BY DEF Base, TypeOK
<1> QED
  BY <1>1, <1>2 DEF Close, Open

(* Setting the descriptor of an entry to what it is changes nothing.        *)
LEMMA SameDescriptor ==
  ASSUME TypeOK, NEW i \in Ids
  PROVE  [entries EXCEPT ![i].fd = entries[i].fd] = entries
<1>1. entries \in Seq(Entry) /\ DOMAIN entries = Ids
  BY LenProperties DEF TypeOK, Ids
<1>2. entries[i] \in Entry
  BY <1>1, ElementOfSeq DEF Ids
<1>3. [entries[i] EXCEPT !.fd = entries[i].fd] = entries[i]
  BY <1>2 DEF Entry
<1>4. entries \in [Ids -> Entry]
  BY <1>1, LenProperties DEF Ids
<1> QED
  BY <1>1, <1>3, <1>4

(* getFile: the name was known, is not found, gets the entry of the file, or
   a new one.                                                               *)
LEMMA GetFileOutcome ==
  ASSUME Base, NEW f \in File, NEW o \in BOOLEAN, NEW c \in BOOLEAN, GetFile(f, o, c)
  PROVE  \/ Keeps /\ seenFile' = seenFile
         \/ /\ Keeps /\ c /\ seenFile[f] = Unseen
            /\ seenFile' = [seenFile EXCEPT ![f] = Missing]
         \/ seenFile[f] = Unseen /\ Keeps /\ \E i \in Ids : Finds(f, i)
         \/ seenFile[f] = Unseen /\ \E d \in Descriptor \cup {None} : Makes(f, disk[f], d)
<1> DEFINE fd == FreeDescriptor
           kept == IF o THEN fd ELSE None
           od == IF o THEN Open(disk[f]) ELSE Close(Open(disk[f]), fd)
<1>1. TypeOK /\ disk[f] \in Object \cup {None} /\ opened \in [Descriptor -> Object \cup {None}]
  BY DEF Base, TypeOK
<1>2. /\ fd \in Descriptor /\ opened[fd] = None /\ fd # None
      /\ Close(Open(disk[f]), fd) = opened /\ Close(opened, None) = opened
  BY OpenAndClose, FreeExists DEF Base
<1>3. CASE seenFile[f] # Unseen
  BY <1>3 DEF GetFile, Keeps
<1>4. CASE seenFile[f] = Unseen /\ (~Present(Parent(f)) \/ disk[f] = None)
  BY <1>4 DEF GetFile, Keeps, NotFound
<1>5. CASE seenFile[f] = Unseen /\ Present(Parent(f)) /\ disk[f] # None /\ UniqueReal(disk[f]) # {}
  <2> DEFINE i == TheEntry(disk[f])
  <2>1. i \in UniqueReal(disk[f]) /\ i \in Ids
    BY <1>5 DEF TheEntry, UniqueReal
  <2>2. opened' = Close(od, kept) /\ KnownEntry(f, i, entries[i].fd)
    BY <1>5 DEF GetFile
  <2>3. Close(od, kept) = opened
    BY <1>2 DEF od, kept
  <2>4. entries' = entries
    BY <1>1, <2>1, <2>2, SameDescriptor DEF KnownEntry
  <2> HIDE DEF i, od, kept
  <2> QED
    BY <1>5, <2>1, <2>2, <2>3, <2>4 DEF Keeps, KnownEntry, Finds
<1>6. CASE seenFile[f] = Unseen /\ Present(Parent(f)) /\ disk[f] # None /\ UniqueReal(disk[f]) = {}
  <2>1. opened' = od /\ NewEntry(f, disk[f], kept)
    BY <1>6 DEF GetFile
  <2>2. CASE o
    <3>1. opened' = [opened EXCEPT ![fd] = disk[f]] /\ NewEntry(f, disk[f], fd)
      BY <2>1, <2>2 DEF Open
    <3> QED
      BY <1>1, <1>2, <1>6, <3>1 DEF Makes
  <2>3. CASE ~o
    <3>1. opened' = opened /\ NewEntry(f, disk[f], None)
      BY <2>1, <2>3, <1>2
    <3> QED
      BY <1>1, <1>6, <3>1 DEF Makes
  <2> QED
    BY <2>2, <2>3
<1> QED
  BY <1>3, <1>4, <1>5, <1>6

(* Closing the descriptor of a live entry, and destroying an entry.         *)
LEMMA CloseEntry ==
  ASSUME TypeOK, NEW i \in Ids
  PROVE  /\ entries[i].live =>
              [entries EXCEPT ![i].fd = None] =
              [entries EXCEPT ![i] = [@ EXCEPT !.fd = None, !.live = TRUE]]
         /\ [entries EXCEPT ![i].live = FALSE, ![i].fd = None] =
            [entries EXCEPT ![i] = [@ EXCEPT !.fd = None, !.live = FALSE]]
<1> DEFINE e == entries[i]
<1>1. e \in Entry
  BY ElementOfSeq DEF TypeOK, Ids
<1>2. entries \in [Ids -> Entry]
  BY LenProperties DEF TypeOK, Ids
<1>3. e.live => [e EXCEPT !.fd = None] = [e EXCEPT !.fd = None, !.live = TRUE]
  <2>1. SUFFICES ASSUME e.live
                 PROVE  [e EXCEPT !.fd = None] = [e EXCEPT !.fd = None, !.live = TRUE]
    OBVIOUS
  <2>2. e.live = TRUE
    BY <1>1, <2>1 DEF Entry
  <2> QED
    BY <1>1, <2>2 DEF Entry
<1>4. [e EXCEPT !.live = FALSE, !.fd = None] = [e EXCEPT !.fd = None, !.live = FALSE]
  BY <1>1 DEF Entry
<1>5. [entries EXCEPT ![i].live = FALSE, ![i].fd = None] =
      [entries EXCEPT ![i] = [e EXCEPT !.live = FALSE, !.fd = None]]
  BY <1>1, <1>2 DEF Entry
<1>6. [entries EXCEPT ![i].fd = None] = [entries EXCEPT ![i] = [e EXCEPT !.fd = None]]
  BY <1>1, <1>2
<1> QED
  BY <1>3, <1>4, <1>5, <1>6

(* getVirtualFile: a name that was not known gets the entry of the file that
   is on disk, its descriptor closed, or a new entry without one.           *)
LEMMA GetVirtualFileOutcome ==
  ASSUME Base, NEW f \in File, GetVirtualFile(f)
  PROVE  /\ seenFile[f] \in {Unseen, Missing}
         /\ \/ \E i \in Ids : Finds(f, i) /\ Closes(i, TRUE)
            \/ Makes(f, disk[f], None)
<1>1. TypeOK /\ disk[f] \in Object \cup {None}
  BY DEF Base, TypeOK
<1>2. Close(Open(disk[f]), FreeDescriptor) = opened /\ Close(opened, None) = opened
  BY OpenAndClose DEF Base
<1>3. seenFile[f] \in {Unseen, Missing}
  BY DEF GetVirtualFile, NeedsVirtual
<1>4. CASE disk[f] = None
  BY <1>1, <1>3, <1>4 DEF GetVirtualFile, Makes
<1>5. CASE disk[f] # None /\ UniqueReal(disk[f]) # {}
  <2> DEFINE i == TheEntry(disk[f])
  <2>1. i \in UniqueReal(disk[f]) /\ i \in Ids /\ entries[i].live
    BY <1>5 DEF TheEntry, UniqueReal
  <2>2. opened' = Close(opened, entries[i].fd) /\ KnownEntry(f, i, None)
    BY <1>2, <1>5 DEF GetVirtualFile
  <2> HIDE DEF i
  <2>3. Closes(i, TRUE)
    BY <1>1, <2>1, <2>2, CloseEntry DEF KnownEntry, Closes
  <2> QED
    BY <1>3, <1>5, <2>1, <2>2, <2>3 DEF KnownEntry, Finds
<1>6. CASE disk[f] # None /\ UniqueReal(disk[f]) = {}
  BY <1>1, <1>2, <1>3, <1>6 DEF GetVirtualFile, Makes
<1> QED
  BY <1>3, <1>4, <1>5, <1>6

(* invalidateCache: the entry's own name is forgotten; one that is for a file
   on disk is destroyed.                                                    *)
Invalidates(i) ==
  /\ seenFile' = [seenFile EXCEPT ![entries[i].name] = Unseen]
  /\ \E f \in File : seenFile[f] = i
  /\ InvalidateAliased \/ \A f \in File : seenFile[f] = i => f = entries[i].name
  /\ \/ entries[i].of = None /\ Keeps
     \/ entries[i].of # None /\ Closes(i, FALSE)

(* Destroying an entry and closing its descriptor are one.                  *)
LEMMA InvalidateCacheOutcome ==
  ASSUME TypeOK, NEW i \in Ids, InvalidateCache(i)
  PROVE  Invalidates(i)
<1>1. CASE entries[i].of = None
  BY <1>1 DEF InvalidateCache, Invalidates, Erased, Keeps
<1>2. CASE entries[i].of # None
  BY <1>2, CloseEntry DEF InvalidateCache, Invalidates, Erased, Closes
<1> QED
  BY <1>1, <1>2

(* All that a step may do to the names, the entries and the descriptors.    *)
Step ==
  \/ Keeps /\ seenFile' = seenFile
  \/ \E f \in File : /\ Keeps /\ seenFile[f] = Unseen /\ f \in allowed'
                     /\ seenFile' = [seenFile EXCEPT ![f] = Missing]
  \/ \E f \in File, i \in Ids : Finds(f, i) /\ (Keeps \/ Closes(i, TRUE))
  \/ \E f \in File, o \in Object \cup {None}, fd \in Descriptor \cup {None} :
       seenFile[f] \in {Unseen, Missing} /\ Makes(f, o, fd)
  \/ \E i \in Ids : entries[i].live /\ Closes(i, TRUE) /\ seenFile' = seenFile
  \/ \E i \in Ids : Invalidates(i)

(* Every step is one of these.                                             *)
LEMMA EveryStep == Base /\ [Next]_vars => Step
<1> SUFFICES ASSUME Base, [Next]_vars PROVE Step
  OBVIOUS
<1>1. ASSUME NEW d \in Dir, NEW c \in BOOLEAN, GetDirectory(d, c) PROVE Step
  BY <1>1 DEF GetDirectory, Step, Keeps
<1>2. ASSUME NEW f \in File PROVE disk[f] \in Object \cup {None}
  BY <1>2 DEF Base, TypeOK
<1>3. ASSUME NEW f \in File, NEW o \in BOOLEAN, NEW c \in BOOLEAN, GetFile(f, o, c)
      PROVE  Step
  <2>1. CASE Keeps /\ seenFile' = seenFile
    BY <2>1 DEF Step
  <2>3. CASE /\ Keeps /\ c /\ seenFile[f] = Unseen
             /\ seenFile' = [seenFile EXCEPT ![f] = Missing]
    BY <1>3, <2>3 DEF Step, GetFile
  <2>4. CASE Keeps /\ \E i \in Ids : Finds(f, i)
    BY <2>4 DEF Step
  <2>2. CASE \E d \in Descriptor \cup {None} :
               seenFile[f] = Unseen /\ Makes(f, disk[f], d)
    <3>1. PICK d \in Descriptor \cup {None} : seenFile[f] = Unseen /\ Makes(f, disk[f], d)
      BY <2>2
    <3> QED
      BY <1>2, <3>1 DEF Step
  <2> QED
    BY <1>3, <2>1, <2>2, <2>3, <2>4, GetFileOutcome
<1>9. ASSUME NEW f \in File, GetVirtualFile(f) PROVE Step
  <2>1. CASE \E i \in Ids : Finds(f, i) /\ Closes(i, TRUE)
    BY <2>1 DEF Step
  <2>2. CASE seenFile[f] \in {Unseen, Missing} /\ Makes(f, disk[f], None)
    BY <1>2, <2>2 DEF Step
  <2> QED
    BY <1>9, <2>1, <2>2, GetVirtualFileOutcome
<1>4. ASSUME NEW i \in Ids, GetBufferForFile(i) PROVE Step
  BY <1>4, CloseEntry DEF GetBufferForFile, Step, Closes, Base
<1>5. ASSUME NEW i \in Ids, InvalidateCache(i) PROVE Step
  BY <1>5, InvalidateCacheOutcome DEF Step, Base
<1>6. ASSUME NEW f \in File, NEW o, ChangeFile(f, o) PROVE Step
  BY <1>6 DEF ChangeFile, cache, Step, Keeps
<1>7. ASSUME NEW d \in Dir, MakeDir(d) \/ RemoveDir(d) PROVE Step
  BY <1>7 DEF MakeDir, RemoveDir, cache, Step, Keeps
<1>8. ASSUME UNCHANGED vars PROVE Step
  BY <1>8 DEF vars, Step, Keeps
<1> QED
  BY <1>1, <1>3, <1>4, <1>5, <1>6, <1>7, <1>8, <1>9 DEF Next

-----------------------------------------------------------------------------
(* The invariant                                                            *)

(* What a new entry adds to the list.                                       *)
LEMMA MakesFields ==
  ASSUME Base, NEW f \in File, NEW o \in Object \cup {None},
         NEW fd \in Descriptor \cup {None}, Makes(f, o, fd)
  PROVE  LET n == Len(entries) + 1 IN
         /\ n \in Nat /\ n \notin Ids /\ Ids' = Ids \cup {n}
         /\ Len(entries') = n /\ n <= MaxEntries
         /\ \A i \in Ids : entries'[i] = entries[i]
         /\ entries'[n] = [name |-> f, of |-> o, uid |-> nextUID, fd |-> fd, live |-> TRUE]
         /\ entries'[n] \in Entry /\ entries' \in Seq(Entry)
         /\ nextUID' = nextUID + 1
         /\ seenFile' = [seenFile EXCEPT ![f] = n]
<1> DEFINE e == [name |-> f, of |-> o, uid |-> nextUID, fd |-> fd, live |-> TRUE]
           n == Len(entries) + 1
<1>1. entries \in Seq(Entry) /\ Len(entries) \in Nat /\ nextUID \in Nat /\ MaxEntries \in Nat
  BY LenProperties, ConstantsOK DEF Base, TypeOK
<1>2. e \in Entry
  BY <1>1 DEF Entry
<1>3. /\ Len(entries) < MaxEntries /\ entries' = Append(entries, e)
      /\ nextUID' = nextUID + 1 /\ seenFile' = [seenFile EXCEPT ![f] = n]
  BY DEF Makes, NewEntry
<1> HIDE DEF e
<1>4. /\ Append(entries, e) \in Seq(Entry) /\ Len(Append(entries, e)) = n
      /\ \A i \in 1..Len(entries) : Append(entries, e)[i] = entries[i]
      /\ Append(entries, e)[n] = e
  BY <1>1, <1>2, AppendProperties
<1>5. n \in Nat /\ n \notin Ids /\ Ids' = Ids \cup {n} /\ n <= MaxEntries
  BY <1>1, <1>3, <1>4 DEF Ids
<1> QED
  BY <1>2, <1>3, <1>4, <1>5 DEF e, Ids

(* What is left of the list when a descriptor is closed.                    *)
LEMMA ClosesFields ==
  ASSUME Base, NEW i \in Ids, NEW alive \in BOOLEAN, Closes(i, alive)
  PROVE  /\ Ids' = Ids /\ Len(entries') = Len(entries) /\ entries' \in Seq(Entry)
         /\ \A j \in Ids \ {i} : entries'[j] = entries[j]
         /\ entries'[i].name = entries[i].name /\ entries'[i].of = entries[i].of
         /\ entries'[i].uid = entries[i].uid
         /\ entries'[i].fd = None /\ entries'[i].live = alive
         /\ nextUID' = nextUID
         /\ opened' = Close(opened, entries[i].fd)
<1> DEFINE e == [entries[i] EXCEPT !.fd = None, !.live = alive]
<1>1. entries \in Seq(Entry) /\ entries[i] \in Entry /\ i \in 1..Len(entries)
  BY ElementOfSeq DEF Base, TypeOK, Ids
<1>2. e \in Entry
  BY <1>1 DEF Entry
<1>3. entries' = [entries EXCEPT ![i] = e]
  BY DEF Closes
<1>4. /\ e.name = entries[i].name /\ e.of = entries[i].of /\ e.uid = entries[i].uid
      /\ e.fd = None /\ e.live = alive
  BY <1>1 DEF Entry
<1> HIDE DEF e
<1>5. /\ entries' \in Seq(Entry) /\ Len(entries') = Len(entries) /\ entries'[i] = e
      /\ \A j \in 1..Len(entries) : j # i => entries'[j] = entries[j]
  BY <1>1, <1>2, <1>3, ExceptSeq
<1> QED
  BY <1>4, <1>5 DEF Ids, Closes

(* The names of the cache have answers that are there.                      *)
LEMMA NamesTyped ==
  ASSUME Base, Step
  PROVE  /\ seenFile' \in [File -> {Unseen, Missing} \cup Ids']
         /\ entries' \in Seq(Entry) /\ nextUID' \in Nat
         /\ opened' \in [Descriptor -> Object \cup {None}]
         /\ Bounded'
<1>1. /\ seenFile \in [File -> {Unseen, Missing} \cup Ids]
      /\ entries \in Seq(Entry) /\ nextUID \in Nat
      /\ opened \in [Descriptor -> Object \cup {None}]
      /\ Len(entries) \in Nat /\ Len(entries) <= MaxEntries
      /\ \A i \in Ids : entries[i].name \in File /\ entries[i].fd \in Descriptor \cup {None}
  <2>1. ASSUME NEW i \in Ids PROVE entries[i] \in Entry
    BY <2>1, ElementOfSeq DEF Base, TypeOK, Ids
  <2> QED
    BY <2>1, LenProperties DEF Base, TypeOK, Bounded, Entry
<1>2. Keeps => /\ Ids' = Ids /\ Bounded' /\ entries' \in Seq(Entry) /\ nextUID' \in Nat
               /\ opened' \in [Descriptor -> Object \cup {None}]
  BY <1>1 DEF Keeps, Ids, Bounded
<1>3. ASSUME NEW i \in Ids, NEW alive \in BOOLEAN, Closes(i, alive)
      PROVE  /\ Ids' = Ids /\ Bounded' /\ entries' \in Seq(Entry) /\ nextUID' \in Nat
             /\ opened' \in [Descriptor -> Object \cup {None}]
  BY <1>1, <1>3, ClosesFields DEF Close, Bounded
<1>4. ASSUME NEW f \in File, NEW a \in {Unseen, Missing} \cup Ids,
             seenFile' = [seenFile EXCEPT ![f] = a]
      PROVE  seenFile' \in [File -> {Unseen, Missing} \cup Ids]
  BY <1>1, <1>4
<1>5. CASE Keeps /\ seenFile' = seenFile
  BY <1>1, <1>2, <1>5
<1>6. CASE \E f \in File : /\ Keeps /\ seenFile[f] = Unseen
                           /\ seenFile' = [seenFile EXCEPT ![f] = Missing]
  BY <1>2, <1>4, <1>6
<1>7. CASE \E f \in File, i \in Ids : Finds(f, i) /\ (Keeps \/ Closes(i, TRUE))
  <2>1. PICK f \in File, i \in Ids : Finds(f, i) /\ (Keeps \/ Closes(i, TRUE))
    BY <1>7
  <2>2. seenFile' \in [File -> {Unseen, Missing} \cup Ids]
    BY <1>4, <2>1 DEF Finds
  <2> QED
    BY <1>2, <1>3, <2>1, <2>2
<1>8. CASE \E f \in File, o \in Object \cup {None}, d \in Descriptor \cup {None} :
             seenFile[f] \in {Unseen, Missing} /\ Makes(f, o, d)
  <2>1. PICK f \in File, o \in Object \cup {None}, d \in Descriptor \cup {None} : Makes(f, o, d)
    BY <1>8
  <2>2. PICK n \in Nat : /\ Ids' = Ids \cup {n} /\ Len(entries') = n /\ n <= MaxEntries
                         /\ entries' \in Seq(Entry) /\ nextUID' = nextUID + 1
                         /\ seenFile' = [seenFile EXCEPT ![f] = n]
    BY <2>1, MakesFields
  <2>3. opened' \in [Descriptor -> Object \cup {None}]
    BY <1>1, <2>1 DEF Makes
  <2> QED
    BY <1>1, <2>2, <2>3 DEF Bounded
<1>9. CASE \E i \in Ids : entries[i].live /\ Closes(i, TRUE) /\ seenFile' = seenFile
  BY <1>1, <1>3, <1>9
<1>10. CASE \E i \in Ids : Invalidates(i)
  <2>1. PICK i \in Ids : Invalidates(i)
    BY <1>10
  <2>2. seenFile' \in [File -> {Unseen, Missing} \cup Ids]
    BY <1>1, <1>4, <2>1 DEF Invalidates
  <2> QED
    BY <1>2, <1>3, <2>1, <2>2 DEF Invalidates
<1> QED
  BY <1>5, <1>6, <1>7, <1>8, <1>9, <1>10 DEF Step

(* An open descriptor belongs to one entry only.                            *)
LEMMA OneOwner ==
  ASSUME Base, NEW i \in Ids, NEW j \in Ids, entries[i].fd # None, entries[j].fd = entries[i].fd
  PROVE  i = j
<1>1. entries[i] \in Entry
  BY ElementOfSeq DEF Base, TypeOK, Ids
<1>2. entries[i].fd \in Descriptor /\ opened[entries[i].fd] # None
  BY <1>1 DEF Base, DescriptorsOwned, RealOnly, Entry
<1> QED
  BY <1>2 DEF Base, DescriptorsOwned

(* Closing the descriptor that an entry owns leaves the others theirs.      *)
LEMMA ClosesOwned ==
  ASSUME Base, NEW i \in Ids, NEW alive \in BOOLEAN, Closes(i, alive)
  PROVE  DescriptorsOwned' /\ RealOnly'
<1>1. /\ Ids' = Ids
      /\ \A j \in Ids \ {i} : entries'[j] = entries[j]
      /\ entries'[i].fd = None
      /\ opened' = Close(opened, entries[i].fd)
  BY ClosesFields
<1>2. /\ opened \in [Descriptor -> Object \cup {None}]
      /\ \A j \in Ids : entries[j].fd \in Descriptor \cup {None}
  <2>1. ASSUME NEW j \in Ids PROVE entries[j] \in Entry
    BY <2>1, ElementOfSeq DEF Base, TypeOK, Ids
  <2> QED
    BY <2>1 DEF Base, TypeOK, Entry
<1>3. ASSUME NEW d \in Descriptor
      PROVE  opened'[d] = IF d = entries[i].fd THEN None ELSE opened[d]
  BY <1>1, <1>2, <1>3, ConstantsOK DEF Close
<1>4. ASSUME NEW d \in Descriptor, opened'[d] # None
      PROVE  \E j \in Ids' : entries'[j].fd = d /\ \A k \in Ids' \ {j} : entries'[k].fd # d
  <2>1. opened[d] # None /\ d # entries[i].fd
    BY <1>3, <1>4
  <2>2. PICK j \in Ids : entries[j].fd = d /\ \A k \in Ids \ {j} : entries[k].fd # d
    BY <2>1 DEF Base, DescriptorsOwned
  <2>3. j # i /\ d # None
    BY <2>1, <2>2, ConstantsOK
  <2> QED
    BY <1>1, <2>2, <2>3
<1>5. ASSUME NEW j \in Ids', entries'[j].fd # None
      PROVE  entries'[j].live /\ opened'[entries'[j].fd] = entries'[j].of /\ entries'[j].of # None
  <2>1. j \in Ids \ {i} /\ entries'[j] = entries[j] /\ entries[j].fd \in Descriptor
    BY <1>1, <1>2, <1>5
  <2>2. entries[j].fd # entries[i].fd
    BY <2>1, <1>1, <1>5, OneOwner
  <2> QED
    BY <1>3, <1>5, <2>1, <2>2 DEF Base, DescriptorsOwned, RealOnly
<1> QED
  BY <1>4, <1>5 DEF DescriptorsOwned, RealOnly

(* A new entry owns the descriptor that was opened for it, if any.          *)
LEMMA MakesOwned ==
  ASSUME Base, NEW f \in File, NEW o \in Object \cup {None},
         NEW fd \in Descriptor \cup {None}, Makes(f, o, fd)
  PROVE  DescriptorsOwned' /\ RealOnly'
<1>1. PICK n \in Nat :
         /\ n \notin Ids /\ Ids' = Ids \cup {n}
         /\ \A i \in Ids : entries'[i] = entries[i]
         /\ entries'[n] = [name |-> f, of |-> o, uid |-> nextUID, fd |-> fd, live |-> TRUE]
  BY MakesFields
<1>2. entries'[n].fd = fd /\ entries'[n].of = o /\ entries'[n].live
  BY <1>1
<1>3. /\ opened \in [Descriptor -> Object \cup {None}] /\ None \notin Descriptor
      /\ \A j \in Ids : entries[j].fd \in Descriptor \cup {None}
  <2>1. ASSUME NEW j \in Ids PROVE entries[j] \in Entry
    BY <2>1, ElementOfSeq DEF Base, TypeOK, Ids
  <2> QED
    BY <2>1, ConstantsOK DEF Base, TypeOK, Entry
<1>4. /\ fd # None => fd \in Descriptor /\ opened[fd] = None /\ o # None
      /\ \A d \in Descriptor : opened'[d] = IF d = fd THEN o ELSE opened[d]
  BY <1>3 DEF Makes
<1>5. ASSUME NEW j \in Ids, entries[j].fd # None PROVE entries[j].fd # fd
  BY <1>3, <1>4, <1>5 DEF Base, DescriptorsOwned, RealOnly
<1>6. ASSUME NEW d \in Descriptor, opened'[d] # None
      PROVE  \E j \in Ids' : entries'[j].fd = d /\ \A k \in Ids' \ {j} : entries'[k].fd # d
  <2>1. CASE d = fd
    BY <1>1, <1>2, <1>3, <1>5, <2>1
  <2>2. CASE d # fd
    <3>1. opened[d] # None
      BY <1>4, <1>6, <2>2
    <3>2. PICK j \in Ids : entries[j].fd = d /\ \A k \in Ids \ {j} : entries[k].fd # d
      BY <3>1 DEF Base, DescriptorsOwned
    <3> QED
      BY <1>1, <1>2, <2>2, <3>2
  <2> QED
    BY <2>1, <2>2
<1>7. ASSUME NEW j \in Ids', entries'[j].fd # None
      PROVE  entries'[j].live /\ opened'[entries'[j].fd] = entries'[j].of /\ entries'[j].of # None
  <2>1. CASE j = n
    BY <1>2, <1>4, <1>7, <2>1
  <2>2. CASE j \in Ids
    BY <1>1, <1>3, <1>4, <1>5, <1>7, <2>2 DEF Base, DescriptorsOwned, RealOnly
  <2> QED
    BY <1>1, <2>1, <2>2
<1> QED
  BY <1>6, <1>7 DEF DescriptorsOwned, RealOnly

(* Every step leaves each open descriptor with one owner.                   *)
LEMMA StepOwned == Base /\ Step => DescriptorsOwned' /\ RealOnly'
<1> SUFFICES ASSUME Base, Step PROVE DescriptorsOwned' /\ RealOnly'
  OBVIOUS
<1>1. CASE Keeps
  BY <1>1 DEF Base, Keeps, DescriptorsOwned, RealOnly, Ids
<1>2. CASE \E i \in Ids, alive \in BOOLEAN : Closes(i, alive)
  BY <1>2, ClosesOwned
<1>3. CASE \E f \in File, o \in Object \cup {None}, d \in Descriptor \cup {None} : Makes(f, o, d)
  BY <1>3, MakesOwned
<1> QED
  BY <1>1, <1>2, <1>3 DEF Step, Invalidates

-----------------------------------------------------------------------------
(* The directories                                                          *)

(* Asking for a directory leaves the others alone, and one that is known.   *)
LEMMA LookedUpFields ==
  ASSUME NEW sd \in [Dir -> {Unseen, Missing, "real", "virtual"}], NEW d \in Dir,
         NEW c \in BOOLEAN
  PROVE  LET r == LookedUp(sd, d, c) IN
         /\ r \in [Dir -> {Unseen, Missing, "real", "virtual"}]
         /\ \A e \in Dir : \/ r[e] = sd[e]
                           \/ /\ e = d /\ sd[e] = Unseen
                              /\ r[e] = "real" \/ (r[e] = Missing /\ c)
BY DEF LookedUp

(* What becomes a virtual directory was unknown, and so were those below it
   on the path.                                                             *)
LEMMA WithAncestorsFields ==
  ASSUME NEW sd \in [Dir -> {Unseen, Missing, "real", "virtual"}], NEW f \in File
  PROVE  LET r == WithAncestors(sd, Above[f]) IN
         /\ r \in [Dir -> {Unseen, Missing, "real", "virtual"}]
         /\ r[Parent(f)] # Unseen
         /\ \A d \in Dir :
              \/ r[d] = sd[d]
              \/ /\ sd[d] = Unseen /\ r[d] = "virtual"
                 /\ \E i \in DOMAIN Above[f] :
                      /\ d = Above[f][i]
                      /\ \A k \in 1..i : sd[Above[f][k]] = Unseen
         /\ \A i \in DOMAIN Above[f] :
              (\A k \in 1..i : sd[Above[f][k]] = Unseen) => r[Above[f][i]] = "virtual"
<1> DEFINE path == Above[f]
           new == {path[i] : i \in {j \in DOMAIN path : \A k \in 1..j : sd[path[k]] = Unseen}}
           r == WithAncestors(sd, path)
<1>1. r = [d \in Dir |-> IF d \in new THEN "virtual" ELSE sd[d]]
  BY DEF WithAncestors
<1>2. path \in Seq(Dir) /\ 1 \in DOMAIN path /\ Parent(f) = path[1] /\ Parent(f) \in Dir
      /\ \A i \in DOMAIN path : i \in Nat /\ i >= 1 /\ path[i] \in Dir
  <2>1. path \in Seq(Dir)
    BY ConstantsOK
  <2>2. DOMAIN path = 1..Len(path) /\ Len(path) \in Nat /\ \A i \in 1..Len(path) : path[i] \in Dir
    BY <2>1, LenProperties, ElementOfSeq
  <2> QED
    BY <2>1, <2>2, ParentOK DEF Parent
<1> HIDE DEF path, r
<1>3. \A i \in DOMAIN path : (\A k \in 1..i : sd[path[k]] = Unseen) <=> path[i] \in new /\ (\A k \in 1..i : sd[path[k]] = Unseen)
  OBVIOUS
<1>4. \A d \in new : sd[d] = Unseen
  BY <1>2
<1>5. r[path[1]] # Unseen
  <2>1. CASE sd[path[1]] = Unseen
    <3>1. \A k \in 1..1 : sd[path[k]] = Unseen
      BY <2>1
    <3>2. path[1] \in new
      BY <1>2, <3>1
    <3> QED
      BY <1>1, <1>2, <3>2, ConstantsOK
  <2>2. CASE sd[path[1]] # Unseen
    BY <1>1, <1>2, <2>2, ConstantsOK
  <2> QED
    BY <2>1, <2>2
<1> QED
  BY <1>1, <1>2, <1>3, <1>4, <1>5 DEF path, r

(* A step may add to what is known of the directories, and to what may be
   remembered as missing.                                                   *)
DirsStep ==
  /\ disk' \in [File -> Object \cup {None}] /\ dirs' \subseteq Dir
  /\ seenDir' \in [Dir -> {Unseen, Missing, "real", "virtual"}]
  /\ allowed' \subseteq File \cup Dir /\ allowed \subseteq allowed'
  /\ \A d \in Dir :
       \/ seenDir'[d] = seenDir[d]
       \/ seenDir[d] = Unseen /\ seenDir'[d] \in {"real", "virtual"}
       \/ seenDir[d] = Unseen /\ seenDir'[d] = Missing /\ d \in allowed'

(* getVirtualFile looks for a directory that addAncestorsAsVirtualDirs has made
   sure of.                                                                 *)
LEMMA GetVirtualFileDirs ==
  ASSUME TypeOK, NEW f \in File, GetVirtualFile(f)
  PROVE  seenDir' = WithAncestors(seenDir, Above[f])
<1> DEFINE r == WithAncestors(seenDir, Above[f])
<1>1. seenDir \in [Dir -> {Unseen, Missing, "real", "virtual"}]
  BY DEF TypeOK
<1>2. r \in [Dir -> {Unseen, Missing, "real", "virtual"}] /\ r[Parent(f)] # Unseen
  BY <1>1, WithAncestorsFields
<1>3. seenDir' = LookedUp(r, Parent(f), TRUE)
  BY DEF GetVirtualFile
<1> HIDE DEF r
<1>4. LookedUp(r, Parent(f), TRUE) = r
  BY <1>2, ParentOK DEF LookedUp
<1> QED
  BY <1>3, <1>4 DEF r

(* Every step is one of these.                                             *)
LEMMA EveryDir == TypeOK /\ [Next]_vars => DirsStep
<1> SUFFICES ASSUME TypeOK, [Next]_vars PROVE DirsStep
  OBVIOUS
<1>1. /\ disk \in [File -> Object \cup {None}] /\ dirs \subseteq Dir
      /\ seenDir \in [Dir -> {Unseen, Missing, "real", "virtual"}]
      /\ allowed \subseteq File \cup Dir
  BY DEF TypeOK
<1>2. ASSUME NEW d \in Dir, NEW c \in BOOLEAN, seenDir' = LookedUp(seenDir, d, c)
      PROVE  /\ seenDir' \in [Dir -> {Unseen, Missing, "real", "virtual"}]
             /\ \A e \in Dir :
                  \/ seenDir'[e] = seenDir[e]
                  \/ seenDir[e] = Unseen /\ seenDir'[e] \in {"real", "virtual"}
                  \/ seenDir[e] = Unseen /\ seenDir'[e] = Missing /\ e = d /\ c
  BY <1>1, <1>2, LookedUpFields
<1>3. ASSUME NEW d \in Dir, NEW c \in BOOLEAN, GetDirectory(d, c) PROVE DirsStep
  BY <1>1, <1>2, <1>3 DEF GetDirectory, DirsStep, theDisk
<1>4. ASSUME NEW f \in File, NEW o \in BOOLEAN, NEW c \in BOOLEAN, GetFile(f, o, c)
      PROVE  DirsStep
  <2>1. /\ disk' = disk /\ dirs' = dirs
        /\ allowed' = IF c THEN allowed \cup {f, Parent(f)} ELSE allowed
    BY <1>4 DEF GetFile, theDisk
  <2>2. seenDir' = seenDir \/ seenDir' = LookedUp(seenDir, Parent(f), c)
    BY <1>4 DEF GetFile, DirectoryOfFile
  <2> QED
    BY <1>1, <1>2, <2>1, <2>2, ParentOK DEF DirsStep
<1>5. ASSUME NEW f \in File, GetVirtualFile(f) PROVE DirsStep
  <2>1. disk' = disk /\ dirs' = dirs /\ allowed' = allowed
    BY <1>5 DEF GetVirtualFile, theDisk
  <2>2. seenDir' = WithAncestors(seenDir, Above[f])
    BY <1>5, GetVirtualFileDirs
  <2>3. /\ seenDir' \in [Dir -> {Unseen, Missing, "real", "virtual"}]
        /\ \A d \in Dir : \/ seenDir'[d] = seenDir[d]
                          \/ seenDir[d] = Unseen /\ seenDir'[d] = "virtual"
    BY <1>1, <2>2, WithAncestorsFields
  <2> QED
    BY <1>1, <2>1, <2>3 DEF DirsStep
<1>6. ASSUME UNCHANGED <<seenDir, allowed>>,
             disk' \in [File -> Object \cup {None}], dirs' \subseteq Dir
      PROVE  DirsStep
  BY <1>1, <1>6 DEF DirsStep
<1>7. ASSUME NEW i \in Ids, GetBufferForFile(i) \/ InvalidateCache(i) PROVE DirsStep
  BY <1>1, <1>6, <1>7 DEF GetBufferForFile, InvalidateCache, theDisk
<1>8. ASSUME NEW f \in File, NEW o \in Object \cup {None}, ChangeFile(f, o) PROVE DirsStep
  BY <1>1, <1>6, <1>8 DEF ChangeFile, cache
<1>9. ASSUME NEW d \in Dir, MakeDir(d) \/ RemoveDir(d) PROVE DirsStep
  BY <1>1, <1>6, <1>9 DEF MakeDir, RemoveDir, cache
<1>10. ASSUME UNCHANGED vars PROVE DirsStep
  BY <1>1, <1>6, <1>10 DEF vars
<1> QED
  BY <1>3, <1>4, <1>5, <1>7, <1>8, <1>9, <1>10 DEF Next

-----------------------------------------------------------------------------
(* The theorems                                                             *)

(* Base is inductive.                                                       *)
LEMMA InitBase == Init => Base
<1> SUFFICES ASSUME Init PROVE Base
  OBVIOUS
<1>1. entries = <<>> /\ entries \in Seq(Entry) /\ Len(entries) = 0 /\ Ids = {}
  BY EmptySeq DEF Init, Ids
<1> QED
  BY <1>1, ConstantsOK DEF Init, Base, TypeOK, Bounded, DescriptorsOwned, RealOnly

(* Every step keeps Base.                                                   *)
LEMMA NextBase == Base /\ [Next]_vars => Base'
BY EveryStep, EveryDir, NamesTyped, StepOwned DEF Base, DirsStep, TypeOK

(* The cache's tables hold what their types say, and a descriptor is left for
   every file that is opened.                                               *)
THEOREM FilesTyped == Spec => []TypeOK
<1>1. Base => TypeOK
  BY DEF Base
<1> QED
  BY <1>1, InitBase, NextBase, PTL DEF Spec

(* No descriptor is leaked, or closed by one entry while another one has it,
   by aliases, virtual files and invalidation in any order.                 *)
THEOREM DescriptorsNeverLeaked == Spec => []DescriptorsOwned
<1>1. Base => DescriptorsOwned
  BY DEF Base
<1> QED
  BY <1>1, InitBase, NextBase, PTL DEF Spec

(* Every step keeps a file from being found under an entry of its past, when
   only entries with one name are invalidated.                              *)
LEMMA NextNames ==
  ASSUME ~InvalidateAliased
  PROVE  Base /\ NamesAgree /\ [Next]_vars => NamesAgree'
<1> SUFFICES ASSUME Base, NamesAgree, [Next]_vars PROVE NamesAgree'
  OBVIOUS
<1>1. /\ seenFile \in [File -> {Unseen, Missing} \cup Ids]
      /\ Unseen \notin Ids /\ Missing \notin Ids
      /\ \A i \in Ids : entries[i].name \in File /\ entries[i].live \in BOOLEAN
  <2>1. ASSUME NEW i \in Ids PROVE entries[i] \in Entry
    BY <2>1, ElementOfSeq DEF Base, TypeOK, Ids
  <2>2. Ids \subseteq Nat
    BY DEF Ids
  <2> QED
    BY <2>1, <2>2, ConstantsOK DEF Base, TypeOK, Entry
<1>2. /\ \A f \in File : seenFile[f] \in Ids => entries[seenFile[f]].live
      /\ \A i \in Ids : entries[i].live /\ entries[i].of # None =>
           /\ seenFile[entries[i].name] = i
           /\ \A j \in Ids : entries[j].live /\ entries[j].of = entries[i].of => j = i
  BY DEF NamesAgree, UniqueReal
<1>3. SUFFICES /\ \A f \in File : seenFile'[f] \in Ids' => entries'[seenFile'[f]].live
               /\ \A i \in Ids' : entries'[i].live /\ entries'[i].of # None =>
                    /\ seenFile'[entries'[i].name] = i
                    /\ \A j \in Ids' : entries'[j].live /\ entries'[j].of = entries'[i].of => j = i
  BY DEF NamesAgree, UniqueReal
<1>4. Keeps => entries' = entries /\ Ids' = Ids
  BY DEF Keeps, Ids
<1>5. ASSUME NEW i \in Ids, NEW alive \in BOOLEAN, Closes(i, alive)
      PROVE  /\ Ids' = Ids
             /\ \A j \in Ids : /\ entries'[j].name = entries[j].name
                               /\ entries'[j].of = entries[j].of
                               /\ entries'[j].live = IF j = i THEN alive ELSE entries[j].live
  BY <1>5, ClosesFields
<1>6. CASE Keeps /\ seenFile' = seenFile
  BY <1>2, <1>4, <1>6
<1>7. CASE \E f \in File : /\ Keeps /\ seenFile[f] = Unseen
                           /\ seenFile' = [seenFile EXCEPT ![f] = Missing]
  BY <1>1, <1>2, <1>4, <1>7
<1>8. CASE \E f \in File, i \in Ids : Finds(f, i) /\ (Keeps \/ Closes(i, TRUE))
  <2>1. PICK f \in File, i \in Ids : Finds(f, i) /\ (Keeps \/ Closes(i, TRUE))
    BY <1>8
  <2>2. entries[i].live /\ seenFile[f] \notin Ids /\ seenFile' = [seenFile EXCEPT ![f] = i]
    BY <1>1, <2>1 DEF Finds, UniqueReal
  <2>3. /\ Ids' = Ids
        /\ \A j \in Ids : /\ entries'[j].name = entries[j].name
                          /\ entries'[j].of = entries[j].of
                          /\ entries'[j].live <=> entries[j].live
    BY <1>4, <1>5, <2>1, <2>2
  <2> QED
    BY <1>1, <1>2, <2>2, <2>3
<1>9. CASE \E f \in File, o \in Object \cup {None}, d \in Descriptor \cup {None} :
             seenFile[f] \in {Unseen, Missing} /\ Makes(f, o, d)
  <2>1. PICK f \in File, o \in Object \cup {None}, d \in Descriptor \cup {None} :
               seenFile[f] \in {Unseen, Missing} /\ Makes(f, o, d)
    BY <1>9
  <2>2. PICK n \in Nat :
          /\ n \notin Ids /\ Ids' = Ids \cup {n}
          /\ \A i \in Ids : entries'[i] = entries[i]
          /\ entries'[n] = [name |-> f, of |-> o, uid |-> nextUID, fd |-> d, live |-> TRUE]
          /\ seenFile' = [seenFile EXCEPT ![f] = n]
    BY <2>1, MakesFields
  <2>3. entries'[n].name = f /\ entries'[n].of = o /\ entries'[n].live
    BY <2>2
  <2>4. o # None => \A i \in Ids : entries[i].live => entries[i].of # o
    BY <2>1 DEF Makes, UniqueReal
  <2>5. seenFile[f] \notin Ids /\ \A g \in File : seenFile[g] # n
    BY <1>1, <2>1, <2>2, ConstantsOK
  <2> QED
    BY <1>1, <1>2, <2>2, <2>3, <2>4, <2>5
<1>10. CASE \E i \in Ids : entries[i].live /\ Closes(i, TRUE) /\ seenFile' = seenFile
  <2>1. PICK i \in Ids : entries[i].live /\ Closes(i, TRUE) /\ seenFile' = seenFile
    BY <1>10
  <2>2. /\ Ids' = Ids
        /\ \A j \in Ids : /\ entries'[j].name = entries[j].name
                          /\ entries'[j].of = entries[j].of
                          /\ entries'[j].live <=> entries[j].live
    BY <1>5, <2>1
  <2> QED
    BY <1>1, <1>2, <2>1, <2>2
<1>11. CASE \E i \in Ids : Invalidates(i)
  <2>1. PICK i \in Ids : Invalidates(i)
    BY <1>11
  <2>2. /\ seenFile' = [seenFile EXCEPT ![entries[i].name] = Unseen]
        /\ \A f \in File : seenFile[f] = i => f = entries[i].name
        /\ seenFile[entries[i].name] = i
    BY <2>1 DEF Invalidates
  <2>3. CASE entries[i].of = None /\ Keeps
    BY <1>1, <1>2, <1>4, <2>2, <2>3
  <2>4. CASE entries[i].of # None /\ Closes(i, FALSE)
    <3> DEFINE dead == FALSE
    <3>1. Closes(i, dead) /\ dead \in BOOLEAN /\ ~dead
      BY <2>4
    <3> HIDE DEF dead
    <3>2. /\ Ids' = Ids
          /\ \A j \in Ids : /\ entries'[j].name = entries[j].name
                            /\ entries'[j].of = entries[j].of
                            /\ entries'[j].live => j # i /\ entries[j].live
                            /\ j # i /\ entries[j].live => entries'[j].live
      BY <1>5, <3>1
    <3> QED
      BY <1>1, <1>2, <2>2, <3>2
  <2> QED
    BY <2>1, <2>3, <2>4 DEF Invalidates
<1> QED
  BY <1>6, <1>7, <1>8, <1>9, <1>10, <1>11, EveryStep DEF Step

(* A file with several names is one entry, which its names lead to, if what
   is invalidated has no second name.                                       *)
THEOREM OneEntryPerFile ==
  ASSUME ~InvalidateAliased
  PROVE  Spec => []NamesAgree
<1>1. Init => NamesAgree
  <2> SUFFICES ASSUME Init PROVE NamesAgree
    OBVIOUS
  <2>1. Ids = {}
    BY EmptySeq DEF Init, Ids
  <2> QED
    BY <2>1 DEF NamesAgree
<1> QED
  BY <1>1, InitBase, NextBase, NextNames, PTL DEF Spec

(* What is remembered as missing is what a caller has allowed to be: also when
   getVirtualFile asks for a directory and allows it on its own.            *)
THEOREM FailuresOnlyAsAllowed == Spec => []FailuresAllowed
<1>1. Init => FailuresAllowed
  BY ConstantsOK DEF Init, FailuresAllowed
<1>2. Base /\ FailuresAllowed /\ [Next]_vars => FailuresAllowed'
  <2> SUFFICES ASSUME Base, FailuresAllowed, [Next]_vars PROVE FailuresAllowed'
    OBVIOUS
  <2>1. Step /\ DirsStep
    BY EveryStep, EveryDir DEF Base
  <2>2. ASSUME NEW d \in Dir, seenDir'[d] = Missing PROVE d \in allowed'
    BY <2>1, <2>2, ConstantsOK DEF DirsStep, FailuresAllowed
  <2>3. /\ seenFile \in [File -> {Unseen, Missing} \cup Ids] /\ Ids \subseteq Nat
        /\ \A i \in Ids : entries[i].name \in File
    <3>1. ASSUME NEW i \in Ids PROVE entries[i] \in Entry
      BY <3>1, ElementOfSeq DEF Base, TypeOK, Ids
    <3> QED
      BY <3>1 DEF Base, TypeOK, Entry, Ids
  <2>4. ASSUME NEW f \in File, seenFile'[f] = Missing
        PROVE  seenFile[f] = Missing \/ f \in allowed'
    <3>1. ASSUME NEW g \in File, NEW a, a # Missing, seenFile' = [seenFile EXCEPT ![g] = a]
          PROVE  seenFile[f] = Missing
      BY <2>3, <2>4, <3>1
    <3>2. CASE \E g \in File, o \in Object \cup {None}, d \in Descriptor \cup {None} : Makes(g, o, d)
      <4>1. PICK g \in File, n \in Nat : seenFile' = [seenFile EXCEPT ![g] = n]
        BY <3>2, MakesFields
      <4> QED
        BY <3>1, <4>1, ConstantsOK
    <3>3. CASE \E g \in File, i \in Ids : Finds(g, i)
      BY <2>3, <3>1, <3>3, ConstantsOK DEF Finds
    <3>4. CASE \E i \in Ids : Invalidates(i)
      BY <2>3, <3>1, <3>4, ConstantsOK DEF Invalidates
    <3>5. CASE \E g \in File : g \in allowed' /\ seenFile' = [seenFile EXCEPT ![g] = Missing]
      BY <2>3, <2>4, <3>5
    <3> QED
      BY <2>1, <2>4, <3>2, <3>3, <3>4, <3>5 DEF Step
  <2> QED
    BY <2>1, <2>2, <2>4 DEF FailuresAllowed, DirsStep
<1> QED
  BY <1>1, <1>2, InitBase, NextBase, PTL DEF Spec

(* Every step keeps a virtual directory below one that is known, if no file
   is made virtual under a directory that is remembered as missing.         *)
LEMMA NextAncestors ==
  ASSUME ~VirtualUnderMissing
  PROVE  TypeOK /\ VirtualAncestors /\ [Next]_vars => VirtualAncestors'
<1> SUFFICES ASSUME TypeOK, VirtualAncestors, [Next]_vars,
                    NEW d \in Dir, seenDir'[d] = "virtual", Above[d] # <<>>
             PROVE  seenDir'[Above[d][1]] \in {"real", "virtual"}
  BY DEF VirtualAncestors
<1> DEFINE e == Above[d][1]
<1>1. /\ seenDir \in [Dir -> {Unseen, Missing, "real", "virtual"}]
      /\ Above[d] \in Seq(Dir) /\ Len(Above[d]) \in Nat \ {0} /\ e \in Dir
  <2>1. Above[d] \in Seq(Dir)
    BY ConstantsOK
  <2>2. Len(Above[d]) \in Nat \ {0}
    BY <2>1, EmptySeq
  <2> QED
    BY <2>1, <2>2, ElementOfSeq DEF TypeOK
<1> HIDE DEF e
<1>2. seenDir[e] \in {"real", "virtual"} => seenDir'[e] \in {"real", "virtual"}
  BY <1>1, EveryDir, ConstantsOK DEF DirsStep
<1>3. CASE seenDir[d] = "virtual"
  BY <1>2, <1>3 DEF VirtualAncestors, e
<1>4. CASE seenDir[d] # "virtual"
  <2>1. ASSUME NEW f \in File, GetVirtualFile(f) PROVE seenDir'[e] \in {"real", "virtual"}
    <3> DEFINE path == Above[f]
    <3>1. seenDir' = WithAncestors(seenDir, path)
      BY <2>1, GetVirtualFileDirs
    <3>2. PICK i \in DOMAIN path : d = path[i] /\ \A k \in 1..i : seenDir[path[k]] = Unseen
      BY <1>1, <1>4, <3>1, WithAncestorsFields
    <3>3. /\ path \in Seq(Dir) /\ DOMAIN path = 1..Len(path) /\ Len(path) \in Nat
          /\ i \in 1..Len(path) /\ Above[d] = SubSeq(path, i + 1, Len(path))
      <4>1. path \in Seq(Dir)
        BY ConstantsOK
      <4> QED
        BY <4>1, <3>2, LenProperties, FileManagerAssumption
    <3>4. i + 1 \in DOMAIN path /\ e = path[i + 1]
      <4>1. i + 1 <= Len(path)
        BY <1>1, <3>3, SubSeqProperties
      <4>2. i + 1 \in 1..Len(path) /\ Len(path) \in 1..Len(path)
        BY <3>3, <4>1
      <4>3. SubSeq(path, i + 1, Len(path))[1] = path[(i + 1) + 1 - 1]
        BY <3>3, <4>1, <4>2, SubSeqProperties
      <4> QED
        BY <3>3, <4>2, <4>3 DEF e
    <3> HIDE DEF path
    <3>5. CASE seenDir[e] = Unseen
      <4>1. \A k \in 1..i + 1 : seenDir[path[k]] = Unseen
        BY <3>2, <3>3, <3>4, <3>5
      <4> QED
        BY <1>1, <3>1, <3>4, <4>1, WithAncestorsFields DEF path
    <3>6. CASE seenDir[e] # Unseen
      <4>1. seenDir[e] # Missing
        BY <2>1, <3>4 DEF GetVirtualFile, path
      <4> QED
        BY <1>1, <1>2, <3>6, <4>1
    <3> QED
      BY <3>5, <3>6
  <2>2. ASSUME \E s \in Dir, c \in BOOLEAN : seenDir' = LookedUp(seenDir, s, c)
        PROVE  FALSE
    <3>1. PICK s \in Dir, c \in BOOLEAN : seenDir' = LookedUp(seenDir, s, c)
      BY <2>2
    <3>2. \/ seenDir'[d] = seenDir[d]
          \/ seenDir'[d] = "real" \/ seenDir'[d] = Missing
      BY <1>1, <3>1, LookedUpFields
    <3> QED
      BY <1>4, <3>2, ConstantsOK
  <2>3. ASSUME NEW f \in File, NEW o \in BOOLEAN, NEW c \in BOOLEAN, GetFile(f, o, c)
        PROVE  FALSE
    BY <1>4, <2>2, <2>3, ParentOK DEF GetFile, DirectoryOfFile
  <2>4. ASSUME NEW s \in Dir, NEW c \in BOOLEAN, GetDirectory(s, c) PROVE FALSE
    BY <2>2, <2>4 DEF GetDirectory
  <2>5. seenDir' # seenDir
    BY <1>4
  <2> QED
    BY <2>1, <2>3, <2>4, <2>5 DEF Next, vars, GetBufferForFile, InvalidateCache, ChangeFile,
                                  MakeDir, RemoveDir, cache, e
<1> QED
  BY <1>3, <1>4 DEF e

(* Above a virtual directory the cache knows the next one, and so on up to one
   that is on disk: if no file is made virtual under a directory that is
   remembered as missing.                                                   *)
THEOREM VirtualDirectoriesHang ==
  ASSUME ~VirtualUnderMissing
  PROVE  Spec => []VirtualAncestors
<1>1. Init => VirtualAncestors
  BY ConstantsOK DEF Init, VirtualAncestors
<1>2. Base => TypeOK
  BY DEF Base
<1> QED
  BY <1>1, <1>2, InitBase, NextBase, NextAncestors, PTL DEF Spec

(* Under the same assumption the assertion of getVirtualFile holds: a file
   that gets an entry has its directory in the cache.                       *)
THEOREM VirtualFilesHaveDirectory ==
  ASSUME ~VirtualUnderMissing
  PROVE  Spec => VirtualFileHasDirectory
<1>1. Base /\ [Next]_vars =>
        \A f \in File : NeedsVirtual(f) /\ seenFile'[f] \in 1..Len(entries')
                          => Present(Parent(f))
  <2> SUFFICES ASSUME Base, [Next]_vars, NEW f \in File, NeedsVirtual(f),
                      seenFile'[f] \in 1..Len(entries')
               PROVE  Present(Parent(f))
    OBVIOUS
  <2>1. /\ seenFile \in [File -> {Unseen, Missing} \cup Ids]
        /\ seenDir \in [Dir -> {Unseen, Missing, "real", "virtual"}]
        /\ seenFile[f] \in {Unseen, Missing} /\ Len(entries') \in Nat
        /\ seenFile[f] # seenFile'[f] /\ seenFile'[f] # Unseen /\ seenFile'[f] # Missing
        /\ Parent(f) \in Dir
    <3>1. Base'
      BY NextBase
    <3> QED
      BY <3>1, LenProperties, ConstantsOK, ParentOK DEF Base, TypeOK, NeedsVirtual
  <2>2. ASSUME NEW g \in File, NEW o \in BOOLEAN, NEW c \in BOOLEAN, GetFile(g, o, c)
        PROVE  Present(Parent(f))
    <3>1. f = g /\ seenFile[f] = Unseen
      BY <2>1, <2>2 DEF GetFile, NotFound, NewEntry, KnownEntry
    <3>2. ~(~Present(Parent(f)) \/ disk[f] = None)
      BY <2>1, <2>2, <3>1 DEF GetFile, NotFound
    <3> QED
      BY <3>2
  <2>3. ASSUME NEW g \in File, GetVirtualFile(g) PROVE Present(Parent(f))
    <3>1. f = g
      BY <2>1, <2>3 DEF GetVirtualFile, NewEntry, KnownEntry
    <3>2. seenDir[Parent(f)] # Missing
      BY <2>3, <3>1, ParentOK DEF GetVirtualFile, Parent
    <3>3. /\ seenDir'[Parent(f)] # Unseen
          /\ seenDir'[Parent(f)] \in {seenDir[Parent(f)], "virtual"}
      BY <2>1, <2>3, <3>1, GetVirtualFileDirs, WithAncestorsFields DEF Base
    <3> QED
      BY <2>1, <3>2, <3>3 DEF Present
  <2>4. ASSUME NEW i \in Ids, InvalidateCache(i) PROVE FALSE
    BY <2>1, <2>4 DEF InvalidateCache, Erased
  <2> QED
    BY <2>1, <2>2, <2>3, <2>4 DEF Next, vars, GetDirectory, GetBufferForFile, ChangeFile,
                                  MakeDir, RemoveDir, cache
<1> QED
  BY <1>1, InitBase, NextBase, PTL DEF Spec, VirtualFileHasDirectory

(* Clients may keep an entry: no lookup under another name of the file, and no
   invalidation, changes what it is.                                        *)
THEOREM EntriesKept == Spec => EntriesKeepIdentity
<1>1. Base /\ [Next]_vars =>
        \A i \in Ids : /\ entries'[i].name = entries[i].name
                       /\ entries'[i].uid = entries[i].uid
                       /\ entries'[i].of = entries[i].of
  <2> SUFFICES ASSUME Base, [Next]_vars, NEW i \in Ids
               PROVE  /\ entries'[i].name = entries[i].name
                      /\ entries'[i].uid = entries[i].uid
                      /\ entries'[i].of = entries[i].of
    OBVIOUS
  <2>1. CASE Keeps
    BY <2>1 DEF Keeps
  <2>2. CASE \E j \in Ids, alive \in BOOLEAN : Closes(j, alive)
    BY <2>2, ClosesFields
  <2>3. CASE \E f \in File, o \in Object \cup {None}, d \in Descriptor \cup {None} : Makes(f, o, d)
    BY <2>3, MakesFields
  <2> QED
    BY <2>1, <2>2, <2>3, EveryStep DEF Step, Invalidates
<1> QED
  BY <1>1, InitBase, NextBase, PTL DEF Spec, EntriesKeepIdentity

(* A name that has an answer keeps it until it is invalidated.              *)
THEOREM AnswersStay == Spec => AnswersKept
<1>1. Base /\ [Next]_vars =>
        \A f \in File : seenFile[f] \in Ids => seenFile'[f] \in {seenFile[f], Unseen}
  <2> SUFFICES ASSUME Base, [Next]_vars, NEW f \in File, seenFile[f] \in Ids
               PROVE  seenFile'[f] \in {seenFile[f], Unseen}
    OBVIOUS
  <2>1. /\ seenFile \in [File -> {Unseen, Missing} \cup Ids]
        /\ seenFile[f] # Unseen /\ seenFile[f] # Missing
    BY ConstantsOK DEF Base, TypeOK, Ids
  <2>3. CASE \E g \in File, i \in Ids : Finds(g, i)
    <3>1. PICK g \in File, i \in Ids : /\ seenFile[g] \in {Unseen, Missing}
                                       /\ seenFile' = [seenFile EXCEPT ![g] = i]
      BY <2>3 DEF Finds
    <3> QED
      BY <2>1, <3>1
  <2>4. CASE \E g \in File, o \in Object \cup {None}, d \in Descriptor \cup {None} :
               seenFile[g] \in {Unseen, Missing} /\ Makes(g, o, d)
    <3>1. PICK g \in File : /\ seenFile[g] \in {Unseen, Missing}
                            /\ seenFile' = [seenFile EXCEPT ![g] = Len(entries) + 1]
      BY <2>4 DEF Makes, NewEntry
    <3> QED
      BY <2>1, <3>1
  <2>5. CASE \E i \in Ids : Invalidates(i)
    BY <2>1, <2>5 DEF Invalidates
  <2>6. CASE \E g \in File : /\ seenFile[g] = Unseen
                             /\ seenFile' = [seenFile EXCEPT ![g] = Missing]
    BY <2>1, <2>6
  <2> QED
    BY <2>3, <2>4, <2>5, <2>6, EveryStep DEF Step
<1> QED
  BY <1>1, InitBase, NextBase, PTL DEF Spec, AnswersKept
=============================================================================
