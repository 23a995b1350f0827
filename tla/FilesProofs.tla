----------------------------- MODULE FilesProofs -----------------------------
(***************************************************************************)
(* Reference counts are exact, for every number of processes, descriptors, *)
(* entries and files, as long as programs close only descriptors they do   *)
(* not share and hang-ups find no open files.  Both assumptions are needed:*)
(* without either, model checking finds a state where a count is wrong.    *)
(***************************************************************************)
EXTENDS Files, FiniteSetTheorems, TLAPS

\* A held descriptor points to an entry with an inode.
HeldFiles ==
    \A s \in Held, d \in Fd : fds[s][d] # NoEntry => entryFile[fds[s][d]] # NoFile

\* A process has at most one descriptor for an entry: only fork shares entries.
FdsDistinct ==
    \A s \in Held, c, d \in Fd :
        fds[s][c] # NoEntry /\ fds[s][c] = fds[s][d] => c = d

\* The inductive invariant.
FilesInv ==
    /\ FilesTypeOK /\ EntryCounts /\ InodeCounts
    /\ HeldFiles /\ FdsDistinct /\ OffsetInFile /\ NeverHalts

-----------------------------------------------------------------------------
\* What is known of the tables, and of the values that stand for nothing.
LEMMA TableFacts ==
  ASSUME FilesInv
  PROVE  /\ Held \subseteq Slot
         /\ fds \in [Slot -> [Fd -> Entry \cup {NoEntry}]]
         /\ entryFile \in [Entry -> File \cup {NoFile}]
         /\ \A e \in Entry : e # NoEntry
         /\ \A f \in File : f # NoFile
  <1>1. Held \subseteq Slot
    BY DEF Held
  <1>2. \A e \in Entry : e # NoEntry
    BY DEF Entry, NoEntry
  <1>3. \A f \in File : f # NoFile
    BY FilesAssumption
  <1> QED
    BY <1>1, <1>2, <1>3 DEF FilesInv, FilesTypeOK

\* Descriptors are finitely many.
LEMMA FinitePairs ==
  ASSUME NEW A, A \subseteq Slot \X Fd
  PROVE  IsFiniteSet(A) /\ Cardinality(A) \in Nat
  <1>0. /\ NProc \in Int /\ MaxFds - 1 \in Int
        /\ \A a, b \in Int : IsFiniteSet(a .. b)
    BY FS_Interval, FilesAssumption
  <1>1. IsFiniteSet(Slot) /\ IsFiniteSet(Fd)
    BY <1>0 DEF Slot, Fd
  <1>2. IsFiniteSet(Slot \X Fd)
    BY <1>1, FS_Product
  <1> QED
    BY <1>2, FS_Subset, FS_CardinalityType

LEMMA FiniteFds ==
  ASSUME NEW D, D \subseteq Fd
  PROVE  IsFiniteSet(D) /\ Cardinality(D) \in Nat
  <1>1. IsFiniteSet(Fd)
    BY FS_Interval, FilesAssumption DEF Fd
  <1> QED
    BY <1>1, FS_Subset, FS_CardinalityType

\* Counting the descriptors D of one slot c on top of others.
LEMMA AddRow ==
  ASSUME NEW A, A \subseteq Slot \X Fd, NEW c \in Slot, NEW D, D \subseteq Fd,
         A \cap ({c} \X D) = {}
  PROVE  Cardinality(A \cup ({c} \X D)) = Cardinality(A) + Cardinality(D)
  <1>1. IsFiniteSet({c}) /\ Cardinality({c}) = 1
    BY FS_Singleton
  <1>2. IsFiniteSet(D) /\ Cardinality(D) \in Nat
    BY FiniteFds
  <1>3. IsFiniteSet({c} \X D) /\ Cardinality({c} \X D) = 1 * Cardinality(D)
    BY <1>1, <1>2, FS_Product
  <1>4. IsFiniteSet(A) /\ Cardinality(A) \in Nat
    BY FinitePairs
  <1>5. Cardinality(A \cup ({c} \X D))
          = Cardinality(A) + Cardinality({c} \X D) - Cardinality({})
    BY <1>3, <1>4, FS_Union
  <1> QED
    BY <1>2, <1>3, <1>4, <1>5, FS_EmptySet

\* An entry without an inode is held by nobody and its count is 0.
LEMMA FreeUnheld ==
  ASSUME FilesInv, NEW e \in Entry, entryFile[e] = NoFile
  PROVE  /\ \A s \in Held, d \in Fd : fds[s][d] # e
         /\ Holders(e) = {} /\ entryRefs[e] = 0
  <1>1. e # NoEntry
    BY FilesAssumption DEF Entry, NoEntry
  <1>2. \A s \in Held, d \in Fd : fds[s][d] # e
    BY <1>1 DEF FilesInv, HeldFiles
  <1>3. Holders(e) = {}
    BY <1>2 DEF Holders
  <1> QED
    BY <1>2, <1>3, FS_EmptySet DEF FilesInv, EntryCounts

-----------------------------------------------------------------------------
\* Initially nothing is open.
LEMMA FilesInit == Init => FilesInv
  <1> SUFFICES ASSUME Init PROVE FilesInv
    OBVIOUS
  <1>1. \A s \in Slot, d \in Fd : fds[s][d] = NoEntry
    BY DEF Init, Closed
  <1>2. FilesTypeOK
    BY FilesAssumption DEF Init, FilesTypeOK, Closed, Slot
  <1>3. Held \subseteq Slot
    BY DEF Held
  <1>4. (\A e \in Entry : Holders(e) = {}) /\ (\A f \in File : Users(f) = {})
    BY <1>1, <1>3 DEF Holders, Users, Entry, NoEntry
  <1>5. EntryCounts /\ InodeCounts
    BY <1>4, FS_EmptySet DEF Init, EntryCounts, InodeCounts
  <1>6. HeldFiles /\ FdsDistinct
    BY <1>1, <1>3 DEF HeldFiles, FdsDistinct
  <1>7. OffsetInFile /\ NeverHalts
    BY FilesAssumption DEF Init, OffsetInFile, NeverHalts
  <1> QED
    BY <1>2, <1>5, <1>6, <1>7 DEF FilesInv

-----------------------------------------------------------------------------
\* open_file adds one reference to a new entry and one to the inode.
LEMMA OpenEntryKeeps ==
  ASSUME FilesInv, NEW p \in Held, NEW d \in Fd, NEW e \in Entry, NEW f \in File,
         OpenEntry(p, d, e, f), Held' = Held, UNCHANGED halted,
         stage' \in [Slot -> {"unused", "alive", "dead", "lost"}]
  PROVE  FilesInv'
  <1>0. /\ p \in Slot /\ Held \subseteq Slot /\ e # NoEntry
        /\ fds \in [Slot -> [Fd -> Entry \cup {NoEntry}]]
        /\ entryFile \in [Entry -> File \cup {NoFile}]
        /\ fds[p][d] = NoEntry /\ entryFile[e] = NoFile /\ f # NoFile
    BY TableFacts DEF OpenEntry, FirstClosed, FirstFree
  <1>1. FilesTypeOK'
    BY <1>0 DEF FilesInv, FilesTypeOK, OpenEntry
  <1>2. \A s \in Held, c \in Fd :
           fds'[s][c] = IF s = p /\ c = d THEN e ELSE fds[s][c]
    BY <1>0 DEF OpenEntry
  <1>3. \A s \in Held, c \in Fd : fds[s][c] # e
    BY <1>0, FreeUnheld
  <1>4. \A x \in Entry : entryFile'[x] = IF x = e THEN f ELSE entryFile[x]
    BY <1>0 DEF OpenEntry
  <1>5. EntryCounts'
    <2> SUFFICES ASSUME NEW x \in Entry
                 PROVE  entryRefs'[x] = Cardinality(Holders(x)')
      BY DEF EntryCounts
    <2>1. CASE x = e
      <3>1. Holders(x)' = {<<p, d>>}
        BY <1>0, <1>2, <1>3, <2>1 DEF Holders
      <3>2. entryRefs'[x] = 1
        BY <2>1 DEF OpenEntry, FilesInv, FilesTypeOK
      <3> QED
        BY <3>1, <3>2, FS_Singleton
    <2>2. CASE x # e
      <3>1. Holders(x)' = Holders(x)
        BY <1>0, <1>2, <2>2 DEF Holders, Entry, NoEntry
      <3>2. entryRefs'[x] = entryRefs[x]
        BY <2>2 DEF OpenEntry, FilesInv, FilesTypeOK
      <3> QED
        BY <3>1, <3>2 DEF FilesInv, EntryCounts
    <2> QED
      BY <2>1, <2>2
  <1>6. InodeCounts'
    <2> SUFFICES ASSUME NEW g \in File
                 PROVE  inodeRefs'[g] = Cardinality(Users(g)')
      BY DEF InodeCounts
    <2>1. \A s \in Held, c \in Fd :
             (s # p \/ c # d) /\ fds[s][c] # NoEntry
               => entryFile'[fds'[s][c]] = entryFile[fds[s][c]]
      BY <1>0, <1>2, <1>3, <1>4
    <2>2. entryFile'[fds'[p][d]] = f /\ fds'[p][d] # NoEntry
      BY <1>0, <1>2, <1>4
    <2>3. CASE g = f
      <3>1. Users(g)' = Users(g) \cup {<<p, d>>} /\ <<p, d>> \notin Users(g)
        BY <1>0, <1>2, <2>1, <2>2, <2>3 DEF Users
      <3>2. Users(g) \subseteq Slot \X Fd
        BY <1>0 DEF Users
      <3>3. Cardinality(Users(g)') = Cardinality(Users(g)) + 1
        BY <3>1, <3>2, FinitePairs, FS_AddElement
      <3>4. inodeRefs'[g] = inodeRefs[g] + 1
        BY <2>3 DEF OpenEntry, FilesInv, FilesTypeOK
      <3> QED
        BY <3>3, <3>4 DEF FilesInv, InodeCounts
    <2>4. CASE g # f
      <3>1. Users(g)' = Users(g)
        BY <1>0, <1>2, <2>1, <2>2, <2>4 DEF Users
      <3>2. inodeRefs'[g] = inodeRefs[g]
        BY <2>4 DEF OpenEntry, FilesInv, FilesTypeOK
      <3> QED
        BY <3>1, <3>2 DEF FilesInv, InodeCounts
    <2> QED
      BY <2>3, <2>4
  <1>7. HeldFiles'
    BY <1>0, <1>2, <1>3, <1>4 DEF FilesInv, HeldFiles
  <1>8. FdsDistinct'
    BY <1>2, <1>3 DEF FilesInv, FdsDistinct
  <1>9. OffsetInFile' /\ NeverHalts'
    <2> SUFFICES ASSUME NEW x \in Entry, entryFile'[x] # NoFile
                 PROVE  offset'[x] <= FileSize[entryFile'[x]]
      BY DEF OffsetInFile, NeverHalts, FilesInv
    <2>1. FileSize[f] \in Nat
      BY FilesAssumption
    <2>2. offset'[x] = IF x = e THEN 0 ELSE offset[x]
      BY DEF OpenEntry, FilesInv, FilesTypeOK
    <2>3. x # e => offset[x] <= FileSize[entryFile[x]]
      BY <1>4 DEF FilesInv, OffsetInFile
    <2> QED
      BY <1>4, <2>1, <2>2, <2>3
  <1> QED
    BY <1>1, <1>5, <1>6, <1>7, <1>8, <1>9 DEF FilesInv

LEMMA OpenKeeps ==
  ASSUME FilesInv, NEW p \in Slot, NEW f \in File, Running(p),
         Open(p, f) \/ ExecEmpty(p, f)
  PROVE  FilesInv' \/ UNCHANGED files
  <1>1. p \in Held
    BY DEF Running, Held
  <1>2. CASE Open(p, f)
    <2>1. CASE UNCHANGED files
      BY <2>1
    <2>2. ASSUME NEW d \in Fd, NEW e \in Entry, OpenEntry(p, d, e, f),
                 UNCHANGED <<stage, halted>>
          PROVE  FilesInv'
      <3>1. Held' = Held /\ stage' \in [Slot -> {"unused", "alive", "dead", "lost"}]
        BY <2>2 DEF Held, FilesInv, FilesTypeOK
      <3> QED
        BY <1>1, <2>2, <3>1, OpenEntryKeeps
    <2> QED
      BY <1>2, <2>1, <2>2 DEF Open
  <1>3. CASE ExecEmpty(p, f)
    <2>1. PICK d \in Fd, e \in Entry :
             /\ OpenEntry(p, d, e, f) /\ UNCHANGED halted
             /\ stage' = [stage EXCEPT ![p] = "dead"]
      BY <1>3 DEF ExecEmpty
    <2>2. Held' = Held /\ stage' \in [Slot -> {"unused", "alive", "dead", "lost"}]
      BY <1>1, <2>1 DEF Held, FilesInv, FilesTypeOK
    <2> QED
      BY <1>1, <2>1, <2>2, OpenEntryKeeps
  <1> QED
    BY <1>2, <1>3

-----------------------------------------------------------------------------
\* close_file of an entry that is not shared gives up its only reference, and
\* the assertion in inode_put holds.
LEMMA CloseKeeps ==
  ASSUME CloseShared = FALSE, FilesInv, NEW p \in Slot, NEW d \in Fd,
         Running(p), Close(p, d)
  PROVE  FilesInv'
  <1> DEFINE e == fds[p][d]
             f == entryFile[e]
  <1>0. /\ p \in Held /\ Held \subseteq Slot
        /\ e \in Entry /\ e # NoEntry /\ f \in File /\ entryRefs[e] = 1
        /\ fds \in [Slot -> [Fd -> Entry \cup {NoEntry}]]
    BY DEF Running, Held, Close, FilesInv, FilesTypeOK, HeldFiles
  <1>1. Users(f) \subseteq Slot \X Fd /\ <<p, d>> \in Users(f)
    BY <1>0 DEF Users
  <1>2. inodeRefs[f] \in Nat /\ inodeRefs[f] > 0
    <2>1. inodeRefs[f] = Cardinality(Users(f))
      BY <1>0 DEF FilesInv, InodeCounts
    <2>2. IsFiniteSet(Users(f)) /\ Cardinality(Users(f)) \in Nat
      BY <1>1, FinitePairs
    <2>3. Cardinality(Users(f)) # 0
      BY <1>1, <2>2, FS_EmptySet
    <2> QED
      BY <2>1, <2>2, <2>3
  <1>3. CloseEntry(p, d, e) /\ inodeRefs' = [inodeRefs EXCEPT ![f] = @ - 1]
    BY <1>0, <1>2, FilesAssumption DEF Close, PutInode
  <1>4. /\ fds' = [fds EXCEPT ![p][d] = NoEntry]
        /\ entryRefs' = [entryRefs EXCEPT ![e] = 0]
        /\ UNCHANGED <<stage, entryFile, offset, halted>>
    BY <1>0, <1>3 DEF CloseEntry
  <1>5. FilesTypeOK'
    BY <1>0, <1>2, <1>3, <1>4 DEF FilesInv, FilesTypeOK
  <1>6. Held' = Held
    BY <1>4 DEF Held
  <1>7. \A s \in Held, c \in Fd :
           fds'[s][c] = IF s = p /\ c = d THEN NoEntry ELSE fds[s][c]
    BY <1>0, <1>4
  <1>8. EntryCounts'
    <2> SUFFICES ASSUME NEW x \in Entry
                 PROVE  entryRefs'[x] = Cardinality(Holders(x)')
      BY DEF EntryCounts
    <2>1. x # NoEntry
      BY DEF Entry, NoEntry
    <2>2. Holders(x) \subseteq Slot \X Fd
      BY <1>0 DEF Holders
    <2>3. entryRefs[x] = Cardinality(Holders(x))
      BY DEF FilesInv, EntryCounts
    <2>4. CASE x = e
      <3>1. Holders(x)' = Holders(x) \ {<<p, d>>} /\ <<p, d>> \in Holders(x)
        BY <1>0, <1>6, <1>7, <2>1, <2>4 DEF Holders
      <3>2. Cardinality(Holders(x)') = Cardinality(Holders(x)) - 1
        BY <2>2, <3>1, FinitePairs, FS_RemoveElement
      <3>3. entryRefs'[x] = 0
        BY <1>0, <1>4, <2>4 DEF FilesInv, FilesTypeOK
      <3> QED
        BY <1>0, <2>3, <2>4, <3>2, <3>3
    <2>5. CASE x # e
      <3>1. Holders(x)' = Holders(x)
        BY <1>0, <1>6, <1>7, <2>1, <2>5 DEF Holders
      <3>2. entryRefs'[x] = entryRefs[x]
        BY <1>4, <2>5 DEF FilesInv, FilesTypeOK
      <3> QED
        BY <2>3, <3>1, <3>2
    <2> QED
      BY <2>4, <2>5
  <1>9. InodeCounts'
    <2> SUFFICES ASSUME NEW g \in File
                 PROVE  inodeRefs'[g] = Cardinality(Users(g)')
      BY DEF InodeCounts
    <2>1. inodeRefs[g] = Cardinality(Users(g)) /\ inodeRefs[g] \in Nat
      BY DEF FilesInv, InodeCounts, FilesTypeOK
    <2>2. CASE g = f
      <3>1. Users(g)' = Users(g) \ {<<p, d>>}
        BY <1>0, <1>4, <1>6, <1>7, <2>2 DEF Users
      <3>2. Cardinality(Users(g)') = Cardinality(Users(g)) - 1
        BY <1>1, <2>2, <3>1, FinitePairs, FS_RemoveElement
      <3>3. inodeRefs'[g] = inodeRefs[g] - 1
        BY <1>3, <2>2 DEF FilesInv, FilesTypeOK
      <3> QED
        BY <2>1, <3>2, <3>3
    <2>3. CASE g # f
      <3>1. Users(g)' = Users(g)
        BY <1>0, <1>4, <1>6, <1>7, <2>3 DEF Users
      <3>2. inodeRefs'[g] = inodeRefs[g]
        BY <1>3, <2>3 DEF FilesInv, FilesTypeOK
      <3> QED
        BY <2>1, <3>1, <3>2
    <2> QED
      BY <2>2, <2>3
  <1>10. HeldFiles' /\ FdsDistinct'
    BY <1>4, <1>6, <1>7 DEF FilesInv, HeldFiles, FdsDistinct
  <1>11. OffsetInFile' /\ NeverHalts'
    BY <1>4 DEF FilesInv, OffsetInFile, NeverHalts
  <1> QED
    BY <1>5, <1>8, <1>9, <1>10, <1>11 DEF FilesInv

\* read_file moves the position of an entry and stays within the file.
LEMMA ReadKeeps ==
  ASSUME FilesInv, NEW p \in Slot, NEW d \in Fd, NEW n \in 1 .. MaxRead,
         Running(p), Read(p, d, n)
  PROVE  FilesInv'
  <1> DEFINE e == fds[p][d]
             left == FileSize[entryFile[e]] - offset[e]
             size == IF n > left THEN left ELSE n
  <1>0. /\ p \in Held /\ e \in Entry /\ entryFile[e] \in File
    BY DEF Running, Held, Read, FilesInv, FilesTypeOK, HeldFiles
  <1>1. /\ FileSize[entryFile[e]] \in Nat /\ offset[e] \in Nat /\ n \in Nat
        /\ offset[e] <= FileSize[entryFile[e]]
    BY <1>0, FilesAssumption DEF FilesInv, FilesTypeOK, OffsetInFile
  <1>2. /\ offset' = [offset EXCEPT ![e] = @ + size]
        /\ UNCHANGED <<stage, fds, entryFile, entryRefs, inodeRefs, halted>>
    BY <1>0, FilesAssumption DEF Read
  <1>3. offset[e] + size \in Nat /\ offset[e] + size <= FileSize[entryFile[e]]
    BY <1>1
  <1>4. FilesTypeOK'
    BY <1>2, <1>3 DEF FilesInv, FilesTypeOK
  <1>5. EntryCounts' /\ InodeCounts' /\ HeldFiles' /\ FdsDistinct' /\ NeverHalts'
    BY <1>2 DEF FilesInv, EntryCounts, InodeCounts, HeldFiles, FdsDistinct,
                NeverHalts, Holders, Users, Held
  <1>6. OffsetInFile'
    BY <1>0, <1>2, <1>3 DEF FilesInv, FilesTypeOK, OffsetInFile
  <1> QED
    BY <1>4, <1>5, <1>6 DEF FilesInv

-----------------------------------------------------------------------------
\* A step that leaves the tables alone, and the descriptors of all that hold any.
LEMMA SameHoldersKeep ==
  ASSUME FilesInv, Held' = Held, \A s \in Held : fds'[s] = fds[s],
         UNCHANGED <<entries, inodeRefs, halted>>, FilesTypeOK'
  PROVE  FilesInv'
  <1>1. \A x \in Entry : Holders(x)' = Holders(x)
    BY DEF Holders
  <1>2. \A g \in File : Users(g)' = Users(g)
    BY DEF Users, entries
  <1>3. EntryCounts' /\ InodeCounts'
    BY <1>1, <1>2 DEF FilesInv, EntryCounts, InodeCounts, entries
  <1>4. HeldFiles' /\ FdsDistinct' /\ OffsetInFile' /\ NeverHalts'
    BY DEF FilesInv, HeldFiles, FdsDistinct, OffsetInFile, NeverHalts, entries
  <1> QED
    BY <1>3, <1>4 DEF FilesInv

LEMMA ForkLostKeeps ==
  ASSUME FilesInv, NEW c \in Slot, ForkLost(c)
  PROVE  FilesInv'
  <1>1. FilesTypeOK'
    BY DEF FilesInv, FilesTypeOK, ForkLost, entries, Closed
  <1>2. Held' = Held /\ c \notin Held
    BY DEF FilesInv, FilesTypeOK, ForkLost, FirstUnused, Held
  <1>3. \A s \in Held : fds'[s] = fds[s]
    BY <1>2 DEF FilesInv, FilesTypeOK, ForkLost, Held
  <1> QED
    BY <1>1, <1>2, <1>3, SameHoldersKeep DEF ForkLost

LEMMA ExitKeeps ==
  ASSUME FilesInv, NEW p \in Slot, Running(p), Exit(p)
  PROVE  FilesInv'
  <1>1. FilesTypeOK'
    BY DEF FilesInv, FilesTypeOK, Exit, entries
  <1>2. Held' = Held
    BY DEF FilesInv, FilesTypeOK, Exit, Running, Held
  <1> QED
    BY <1>1, <1>2, SameHoldersKeep DEF Exit

\* The entry that exec uses for its program is held by nobody before or after.
LEMMA ExecKeeps ==
  ASSUME FilesInv, NEW p \in Slot, NEW f \in File, ExecProgram(p, f)
  PROVE  FilesInv'
  <1>1. PICK e \in Entry : /\ FirstFree(e) /\ OpenAndClose(e, f, FileSize[f])
                           /\ entryRefs' = [entryRefs EXCEPT ![e] = 0]
                           /\ UNCHANGED <<stage, fds, inodeRefs, halted>>
    <2>1. inodeRefs[f] \in Nat
      BY DEF FilesInv, FilesTypeOK
    <2> QED
      BY <2>1 DEF ExecProgram
  <1>2. /\ \A s \in Held, d \in Fd : fds[s][d] # e
        /\ entryRefs[e] = 0
    BY <1>1, FreeUnheld DEF FirstFree
  <1>3. FilesTypeOK'
    <2>1. FileSize[f] \in Nat
      BY FilesAssumption
    <2> QED
      BY <1>1, <2>1 DEF FilesInv, FilesTypeOK, OpenAndClose
  <1>4. \A x \in Entry : /\ entryFile'[x] = IF x = e THEN f ELSE entryFile[x]
                         /\ offset'[x] = IF x = e THEN FileSize[f] ELSE offset[x]
                         /\ entryRefs'[x] = entryRefs[x]
    BY <1>1, <1>2 DEF FilesInv, FilesTypeOK, OpenAndClose
  <1>5. Held' = Held /\ Held \subseteq Slot
    BY <1>1 DEF Held
  <1>6. \A s \in Held, d \in Fd : fds[s][d] \in Entry \cup {NoEntry}
    BY <1>5 DEF FilesInv, FilesTypeOK
  <1>7. EntryCounts'
    <2>1. \A x \in Entry : Holders(x)' = Holders(x)
      BY <1>1, <1>5 DEF Holders
    <2> QED
      BY <1>4, <2>1 DEF FilesInv, EntryCounts
  <1>8. InodeCounts'
    <2>1. \A g \in File : Users(g)' = Users(g)
      BY <1>1, <1>2, <1>4, <1>5, <1>6 DEF Users
    <2> QED
      BY <1>1, <2>1 DEF FilesInv, InodeCounts
  <1>9. HeldFiles' /\ FdsDistinct' /\ NeverHalts'
    BY <1>1, <1>2, <1>4, <1>5, <1>6
       DEF FilesInv, HeldFiles, FdsDistinct, NeverHalts
  <1>10. OffsetInFile'
    <2> SUFFICES ASSUME NEW x \in Entry, entryFile'[x] # NoFile
                 PROVE  offset'[x] <= FileSize[entryFile'[x]]
      BY DEF OffsetInFile
    <2>1. FileSize[f] \in Nat
      BY FilesAssumption
    <2>2. CASE x = e
      BY <1>4, <2>1, <2>2
    <2>3. CASE x # e
      BY <1>4, <2>3 DEF FilesInv, OffsetInFile
    <2> QED
      BY <2>2, <2>3
  <1> QED
    BY <1>3, <1>7, <1>8, <1>9, <1>10 DEF FilesInv

-----------------------------------------------------------------------------
\* The child adds a reference for each of its descriptors.
LEMMA ForkChildKeeps ==
  ASSUME FilesInv, NEW p \in Slot, NEW c \in Slot, NEW e \in Entry, NEW f \in File,
         Running(p), ForkChild(p, c, e, f)
  PROVE  FilesInv'
  <1>0. /\ p \in Held /\ c \notin Held /\ Held \subseteq Slot
        /\ fds \in [Slot -> [Fd -> Entry \cup {NoEntry}]]
        /\ f # NoFile /\ entryFile[e] = NoFile /\ e # NoEntry
    <2>1. FirstUnused(c) /\ FirstFree(e) /\ stage[p] = "alive"
      BY DEF ForkChild, Running
    <2>2. p \in Held /\ c \notin Held
      BY <2>1 DEF Held, FirstUnused
    <2> QED
      BY <2>1, <2>2, TableFacts DEF FirstFree
  <1>1. /\ OpenAndClose(e, f, 0) /\ Inherit(p, c, e)
        /\ stage' = [stage EXCEPT ![c] = "alive"] /\ UNCHANGED halted
    <2>1. inodeRefs[f] \in Nat
      BY DEF FilesInv, FilesTypeOK
    <2>2. \A d \in Fd : fds[p][d] # NoEntry => entryFile[fds[p][d]] # NoFile
      BY <1>0 DEF FilesInv, HeldFiles
    <2> QED
      BY <2>1, <2>2 DEF ForkChild
  <1>2. /\ \A s \in Held, d \in Fd : fds[s][d] # e
        /\ Holders(e) = {} /\ entryRefs[e] = 0
    BY <1>0, FreeUnheld
  <1>3. Held' = Held \cup {c}
    BY <1>0, <1>1 DEF FilesInv, FilesTypeOK, Held
  <1>4. \A s \in Held' : fds'[s] = IF s = c THEN fds[p] ELSE fds[s]
    BY <1>0, <1>1, <1>3 DEF Inherit
  <1>5. \A x \in Entry : /\ entryFile'[x] = IF x = e THEN f ELSE entryFile[x]
                         /\ offset'[x] = IF x = e THEN 0 ELSE offset[x]
    BY <1>1 DEF FilesInv, FilesTypeOK, OpenAndClose
  <1>6. /\ DOMAIN fds[p] = Fd
        /\ \A x : RefersTo(fds[p], x) \subseteq Fd
        /\ \A g : Uses(fds[p], entryFile', g) \subseteq Fd
    BY <1>0 DEF RefersTo, Uses
  <1>7. EntryCounts'
    <2> SUFFICES ASSUME NEW x \in Entry
                 PROVE  entryRefs'[x] = Cardinality(Holders(x)')
      BY DEF EntryCounts
    <2>1. Holders(x)' = Holders(x) \cup ({c} \X RefersTo(fds[p], x))
      BY <1>0, <1>3, <1>4, <1>6 DEF Holders, RefersTo
    <2>2. Holders(x) \subseteq Slot \X Fd
          /\ Holders(x) \cap ({c} \X RefersTo(fds[p], x)) = {}
      BY <1>0 DEF Holders
    <2>3. Cardinality(Holders(x)')
            = Cardinality(Holders(x)) + Cardinality(RefersTo(fds[p], x))
      BY <1>6, <2>1, <2>2, AddRow
    <2>4. entryRefs'[x] = entryRefs[x] + Cardinality(RefersTo(fds[p], x))
      BY <1>1, <1>2 DEF Inherit
    <2> QED
      BY <2>3, <2>4 DEF FilesInv, EntryCounts
  <1>8. InodeCounts'
    <2> SUFFICES ASSUME NEW g \in File
                 PROVE  inodeRefs'[g] = Cardinality(Users(g)')
      BY DEF InodeCounts
    <2>1. Users(g)' = Users(g) \cup ({c} \X Uses(fds[p], entryFile', g))
      BY <1>0, <1>2, <1>3, <1>4, <1>5, <1>6 DEF Users, Uses
    <2>2. Users(g) \subseteq Slot \X Fd
          /\ Users(g) \cap ({c} \X Uses(fds[p], entryFile', g)) = {}
      BY <1>0 DEF Users
    <2>3. Cardinality(Users(g)')
            = Cardinality(Users(g)) + Cardinality(Uses(fds[p], entryFile', g))
      BY <1>6, <2>1, <2>2, AddRow
    <2>4. inodeRefs'[g] = inodeRefs[g] + Cardinality(Uses(fds[p], entryFile', g))
      BY <1>1 DEF Inherit
    <2> QED
      BY <2>3, <2>4 DEF FilesInv, InodeCounts
  <1>9. FilesTypeOK'
    <2>1. \A x \in Entry : Cardinality(RefersTo(fds[p], x)) \in Nat
      BY <1>6, FiniteFds
    <2>2. \A g \in File : Cardinality(Uses(fds[p], entryFile', g)) \in Nat
      BY <1>6, FiniteFds
    <2>3. entryRefs' \in [Entry -> Nat] /\ inodeRefs' \in [File -> Nat]
      BY <1>1, <2>1, <2>2 DEF Inherit, FilesInv, FilesTypeOK
    <2>4. fds' \in [Slot -> [Fd -> Entry \cup {NoEntry}]]
      BY <1>0, <1>1 DEF Inherit
    <2> QED
      BY <1>1, <2>3, <2>4 DEF FilesInv, FilesTypeOK, OpenAndClose
  <1>10. HeldFiles'
    <2> SUFFICES ASSUME NEW s \in Held', NEW d \in Fd, fds'[s][d] # NoEntry
                 PROVE  entryFile'[fds'[s][d]] # NoFile
      BY DEF HeldFiles
    <2>1. PICK q \in Held : fds'[s][d] = fds[q][d]
      BY <1>0, <1>3, <1>4
    <2>2. fds[q][d] \in Entry /\ entryFile[fds[q][d]] # NoFile
      BY <1>0, <2>1 DEF FilesInv, HeldFiles
    <2> QED
      BY <1>0, <1>5, <2>1, <2>2
  <1>11. FdsDistinct'
    BY <1>0, <1>3, <1>4 DEF FilesInv, FdsDistinct
  <1>12. OffsetInFile' /\ NeverHalts'
    <2> SUFFICES ASSUME NEW x \in Entry, entryFile'[x] # NoFile
                 PROVE  offset'[x] <= FileSize[entryFile'[x]]
      BY <1>1 DEF OffsetInFile, NeverHalts, FilesInv
    <2>1. FileSize[f] \in Nat
      BY FilesAssumption
    <2>2. x # e => offset[x] <= FileSize[entryFile[x]]
      BY <1>5 DEF FilesInv, OffsetInFile
    <2> QED
      BY <1>5, <2>1, <2>2
  <1> QED
    BY <1>7, <1>8, <1>9, <1>10, <1>11, <1>12 DEF FilesInv

-----------------------------------------------------------------------------
\* The descriptors of the dead process z and those of the others make up the
\* references to an inode.
LEMMA InodeSplit ==
  ASSUME FilesInv, NEW z \in Held, NEW g \in File
  PROVE  LET Rest == {h \in Users(g) : h[1] # z}
             Mine == Uses(fds[z], entryFile, g)
         IN  /\ Rest \subseteq Slot \X Fd /\ Mine \subseteq Fd
             /\ Cardinality(Rest) \in Nat /\ Cardinality(Mine) \in Nat
             /\ inodeRefs[g] = Cardinality(Rest) + Cardinality(Mine)
  <1> DEFINE Rest == {h \in Users(g) : h[1] # z}
             Mine == Uses(fds[z], entryFile, g)
  <1>0. Held \subseteq Slot /\ fds \in [Slot -> [Fd -> Entry \cup {NoEntry}]]
    BY DEF Held, FilesInv, FilesTypeOK
  <1>1. Rest \subseteq Slot \X Fd /\ Mine \subseteq Fd
    BY <1>0 DEF Users, Uses
  <1>2. Users(g) = Rest \cup ({z} \X Mine) /\ Rest \cap ({z} \X Mine) = {}
    BY <1>0 DEF Users, Uses
  <1>3. Cardinality(Users(g)) = Cardinality(Rest) + Cardinality(Mine)
    BY <1>0, <1>1, <1>2, AddRow
  <1>4. Cardinality(Rest) \in Nat /\ Cardinality(Mine) \in Nat
    BY <1>1, FinitePairs, FiniteFds
  <1> QED
    BY <1>1, <1>3, <1>4 DEF FilesInv, InodeCounts

\* The entries that are reset when z is collected are held by z alone: the last
\* reference to an inode is dropped only if nobody else has one.
LEMMA ResetUnheld ==
  ASSUME FilesInv, NEW z \in Held, NEW s \in Held \ {z}, NEW d \in Fd
  PROVE  fds[s][d] \notin ResetBy(fds[z])
  <1> SUFFICES ASSUME NEW c \in DOMAIN fds[z], LastUse(fds[z], c),
                      fds[s][d] = fds[z][c]
               PROVE  FALSE
    BY DEF ResetBy
  <1> DEFINE g == entryFile[fds[z][c]]
             Rest == {h \in Users(g) : h[1] # z}
             Mine == Uses(fds[z], entryFile, g)
             Part == {x \in Mine : x <= c}
  <1>1. /\ g \in File /\ fds[z][c] # NoEntry
        /\ Cardinality(Part) = inodeRefs[g]
    <2>1. z \in Slot /\ c \in Fd /\ fds[z][c] \in Entry
      BY DEF Held, FilesInv, FilesTypeOK, LastUse
    <2> QED
      BY <2>1 DEF LastUse, FilesInv, FilesTypeOK
  <1>2. /\ Rest \subseteq Slot \X Fd /\ Mine \subseteq Fd
        /\ Cardinality(Rest) \in Nat /\ Cardinality(Mine) \in Nat
        /\ inodeRefs[g] = Cardinality(Rest) + Cardinality(Mine)
    BY <1>1, InodeSplit
  <1>3. IsFiniteSet(Mine) /\ IsFiniteSet(Rest)
    BY <1>2, FiniteFds, FinitePairs
  <1>4. Cardinality(Part) <= Cardinality(Mine) /\ Cardinality(Part) \in Nat
    BY <1>2, <1>3, FS_Subset, FiniteFds
  <1>5. <<s, d>> \in Rest
    BY <1>1 DEF Users
  <1>6. Cardinality(Rest) # 0
    BY <1>3, <1>5, FS_EmptySet
  <1> QED
    BY <1>1, <1>2, <1>4, <1>6

\* Collecting a dead process takes off exactly its references and leaves the
\* entries of all others alone.
LEMMA CollectKeeps ==
  ASSUME FilesInv, NEW z \in Slot, Collect(z)
  PROVE  FilesInv'
  <1>0. /\ z \in Held /\ Held \subseteq Slot
        /\ fds \in [Slot -> [Fd -> Entry \cup {NoEntry}]]
        /\ DOMAIN fds[z] = Fd
    BY DEF Collect, Held, FilesInv, FilesTypeOK
  <1>1. ~NullInode(fds[z])
    <2>1. \A d \in Fd : fds[z][d] # NoEntry => entryFile[fds[z][d]] # NoFile
      BY <1>0 DEF FilesInv, HeldFiles
    <2>2. \A c, d \in Fd : fds[z][c] # NoEntry /\ fds[z][c] = fds[z][d] => c = d
      BY <1>0 DEF FilesInv, FdsDistinct
    <2>3. \A c, d \in Fd : c < d => c # d
      BY DEF Fd
    <2> QED
      BY <1>0, <2>1, <2>2, <2>3 DEF NullInode
  <1>2. /\ DropReferences(fds[z]) /\ stage' = [stage EXCEPT ![z] = "unused"]
        /\ UNCHANGED <<fds, offset, halted>>
    BY <1>1 DEF Collect
  <1>3. Held' = Held \ {z}
    BY <1>2 DEF FilesInv, FilesTypeOK, Held
  <1>4. \A s \in Held', d \in Fd :
           fds[s][d] # NoEntry => entryFile'[fds[s][d]] = entryFile[fds[s][d]]
    <2> SUFFICES ASSUME NEW s \in Held', NEW d \in Fd, fds[s][d] # NoEntry
                 PROVE  entryFile'[fds[s][d]] = entryFile[fds[s][d]]
      OBVIOUS
    <2>1. fds[s][d] \in Entry /\ s \in Held \ {z}
      BY <1>0, <1>3
    <2>2. fds[s][d] \notin ResetBy(fds[z])
      BY <1>0, <2>1, ResetUnheld
    <2> QED
      BY <1>2, <2>1, <2>2 DEF DropReferences
  <1>5. \A x \in Entry :
           /\ entryRefs'[x] = Cardinality(Holders(x)')
           /\ entryRefs'[x] \in Nat
    <2> SUFFICES ASSUME NEW x \in Entry
                 PROVE  /\ entryRefs'[x] = Cardinality(Holders(x)')
                        /\ entryRefs'[x] \in Nat
      OBVIOUS
    <2> DEFINE Mine == RefersTo(fds[z], x)
    <2>1. x # NoEntry
      BY DEF Entry, NoEntry
    <2>2. /\ Holders(x) = Holders(x)' \cup ({z} \X Mine)
          /\ Holders(x)' \cap ({z} \X Mine) = {}
          /\ Holders(x)' \subseteq Slot \X Fd /\ Mine \subseteq Fd
      BY <1>0, <1>2, <1>3 DEF Holders, RefersTo
    <2>3. Cardinality(Holders(x)) = Cardinality(Holders(x)') + Cardinality(Mine)
      BY <2>2, AddRow
    <2>4. Cardinality(Holders(x)') \in Nat /\ Cardinality(Mine) \in Nat
      BY <2>2, FinitePairs, FiniteFds
    <2>5. entryRefs'[x] = entryRefs[x] - Cardinality(Mine)
      BY <1>2 DEF DropReferences
    <2> QED
      BY <2>3, <2>4, <2>5 DEF FilesInv, EntryCounts
  <1>6. \A g \in File :
           /\ inodeRefs'[g] = Cardinality(Users(g)')
           /\ inodeRefs'[g] \in Nat
    <2> SUFFICES ASSUME NEW g \in File
                 PROVE  /\ inodeRefs'[g] = Cardinality(Users(g)')
                        /\ inodeRefs'[g] \in Nat
      OBVIOUS
    <2> DEFINE Rest == {h \in Users(g) : h[1] # z}
               Mine == Uses(fds[z], entryFile, g)
    <2>1. /\ Cardinality(Rest) \in Nat /\ Cardinality(Mine) \in Nat
          /\ inodeRefs[g] = Cardinality(Rest) + Cardinality(Mine)
      BY <1>0, InodeSplit
    <2>2. Users(g)' = Rest
      BY <1>2, <1>3, <1>4 DEF Users
    <2>3. inodeRefs'[g] = inodeRefs[g] - Cardinality(Mine)
      BY <1>2 DEF DropReferences
    <2> QED
      BY <2>1, <2>2, <2>3
  <1>7. entryFile' \in [Entry -> File \cup {NoFile}]
    BY <1>2 DEF DropReferences, FilesInv, FilesTypeOK
  <1>8. FilesTypeOK'
    <2>1. entryRefs' \in [Entry -> Nat] /\ inodeRefs' \in [File -> Nat]
      BY <1>2, <1>5, <1>6 DEF DropReferences
    <2> QED
      BY <1>2, <1>7, <2>1 DEF FilesInv, FilesTypeOK
  <1>9. HeldFiles' /\ FdsDistinct'
    BY <1>2, <1>3, <1>4 DEF FilesInv, HeldFiles, FdsDistinct
  <1>10. OffsetInFile' /\ NeverHalts'
    <2>1. \A x \in Entry : entryFile'[x] # NoFile => entryFile'[x] = entryFile[x]
      BY <1>2 DEF DropReferences
    <2> QED
      BY <1>2, <2>1 DEF FilesInv, OffsetInFile, NeverHalts
  <1> QED
    BY <1>5, <1>6, <1>8, <1>9, <1>10 DEF FilesInv, EntryCounts, InodeCounts

\* A family of null pointers refers to nothing.
LEMMA EmptyFamily ==
  ASSUME NEW r, \A j \in DOMAIN r : r[j] = NoEntry
  PROVE  /\ \A x \in Entry : RefersTo(r, x) = {}
         /\ \A g \in File : Uses(r, entryFile, g) = {}
         /\ ResetBy(r) = {} /\ ~NullInode(r)
  <1>1. \A x \in Entry : x # NoEntry
    BY DEF Entry, NoEntry
  <1>2. \A x \in Entry : RefersTo(r, x) = {}
    BY <1>1 DEF RefersTo
  <1>3. \A g \in File : Uses(r, entryFile, g) = {}
    BY DEF Uses
  <1>4. \A j \in DOMAIN r : ~LastUse(r, j)
    BY DEF LastUse
  <1>5. ResetBy(r) = {}
    BY <1>4 DEF ResetBy
  <1>6. ~NullInode(r)
    BY DEF NullInode
  <1> QED
    BY <1>2, <1>3, <1>5, <1>6

\* A hang-up that finds no open files changes no table.
LEMMA HangUpIdle ==
  ASSUME RogueFiles = FALSE, FilesInv, NEW R \in SUBSET Slot, HangUp(R)
  PROVE  /\ UNCHANGED <<fds, entries, inodeRefs, halted>>
         /\ stage' = [s \in Slot |-> IF s \in R THEN "unused" ELSE stage[s]]
  <1> DEFINE n == Cardinality(R)
             r == Diagonal(n)
  <1>1. n \in Nat
    <2>1. IsFiniteSet(Slot)
      BY FS_Interval, FilesAssumption DEF Slot
    <2> QED
      BY <2>1, FS_Subset, FS_CardinalityType
  <1>2. \A j \in DOMAIN r : r[j] = NoEntry
    <2> SUFFICES ASSUME NEW j \in 0 .. n * MaxFds - 1
                 PROVE  r[j] = NoEntry
      BY DEF Diagonal
    <2>1. j \in Int /\ MaxFds \in Nat /\ MaxFds > 0
      BY <1>1, FilesAssumption
    <2>2. j % MaxFds \in Fd
      BY <2>1 DEF Fd
    <2> QED
      BY <2>2 DEF Diagonal, HangUp
  <1>3. /\ \A x \in Entry : RefersTo(r, x) = {}
        /\ \A g \in File : Uses(r, entryFile, g) = {}
        /\ ResetBy(r) = {} /\ ~NullInode(r)
    BY <1>2, EmptyFamily
  <1>4. /\ DropReferences(r) /\ UNCHANGED <<fds, offset, halted>>
        /\ stage' = [s \in Slot |-> IF s \in R THEN "unused" ELSE stage[s]]
    BY <1>3 DEF HangUp
  <1>5. /\ entryRefs \in [Entry -> Nat] /\ inodeRefs \in [File -> Nat]
        /\ entryFile \in [Entry -> File \cup {NoFile}]
    BY DEF FilesInv, FilesTypeOK
  <1>6. Cardinality({}) = 0
    BY FS_EmptySet
  <1>7. entryRefs' = entryRefs
    <2>1. entryRefs' = [x \in Entry |-> entryRefs[x] - Cardinality(RefersTo(r, x))]
      BY <1>4 DEF DropReferences
    <2>2. \A x \in Entry : entryRefs'[x] = entryRefs[x] - 0
      BY <1>3, <1>6, <2>1
    <2>3. \A x \in Entry : entryRefs'[x] = entryRefs[x]
      BY <1>5, <2>2
    <2> QED
      BY <1>5, <2>1, <2>3
  <1>8. inodeRefs' = inodeRefs
    <2>1. inodeRefs' = [g \in File |->
                          inodeRefs[g] - Cardinality(Uses(r, entryFile, g))]
      BY <1>4 DEF DropReferences
    <2>2. \A g \in File : inodeRefs'[g] = inodeRefs[g] - 0
      BY <1>3, <1>6, <2>1
    <2>3. \A g \in File : inodeRefs'[g] = inodeRefs[g]
      BY <1>5, <2>2
    <2> QED
      BY <1>5, <2>1, <2>3
  <1>9. entryFile' = entryFile
    BY <1>3, <1>4, <1>5 DEF DropReferences
  <1> QED
    BY <1>4, <1>7, <1>8, <1>9 DEF entries

LEMMA HangUpKeeps ==
  ASSUME RogueFiles = FALSE, FilesInv, NEW R \in SUBSET Slot, HangUp(R)
  PROVE  FilesInv'
  <1>1. /\ UNCHANGED <<fds, entries, inodeRefs, halted>>
        /\ stage' = [s \in Slot |-> IF s \in R THEN "unused" ELSE stage[s]]
    BY HangUpIdle
  <1>2. FilesTypeOK'
    BY <1>1 DEF FilesInv, FilesTypeOK, entries
  <1>3. Held' = Held \ R
    BY <1>1 DEF Held
  <1>4. \A s \in R, d \in Fd : fds[s][d] = NoEntry
    BY DEF HangUp, Closed
  <1>5. \A x \in Entry : Holders(x)' = Holders(x)
    BY <1>1, <1>3, <1>4 DEF Holders, Entry, NoEntry
  <1>6. \A g \in File : Users(g)' = Users(g)
    BY <1>1, <1>3, <1>4 DEF Users, entries
  <1>7. EntryCounts' /\ InodeCounts'
    BY <1>1, <1>5, <1>6 DEF FilesInv, EntryCounts, InodeCounts, entries
  <1>8. HeldFiles' /\ FdsDistinct' /\ OffsetInFile' /\ NeverHalts'
    BY <1>1, <1>3
       DEF FilesInv, HeldFiles, FdsDistinct, OffsetInFile, NeverHalts, entries
  <1> QED
    BY <1>2, <1>7, <1>8 DEF FilesInv

-----------------------------------------------------------------------------
\* Every step keeps the invariant.
LEMMA FilesStep ==
  ASSUME CloseShared = FALSE, RogueFiles = FALSE, FilesInv, [Next]_files
  PROVE  FilesInv'
  <1>1. CASE UNCHANGED files
    <2>1. FilesTypeOK' /\ Held' = Held
      BY <1>1 DEF files, entries, FilesInv, FilesTypeOK, Held
    <2> QED
      BY <1>1, <2>1, SameHoldersKeep DEF files, entries
  <1>2. ASSUME NEW p \in Slot, NEW f \in File, Running(p),
               Open(p, f) \/ ExecEmpty(p, f)
        PROVE  FilesInv'
    BY <1>1, <1>2, OpenKeeps
  <1>3. ASSUME NEW p \in Slot, NEW d \in Fd, Running(p), Close(p, d)
        PROVE  FilesInv'
    BY <1>3, CloseKeeps
  <1>4. ASSUME NEW p \in Slot, NEW d \in Fd, NEW n \in 1 .. MaxRead, Running(p),
               Read(p, d, n)
        PROVE  FilesInv'
    BY <1>4, ReadKeeps
  <1>5. ASSUME NEW p \in Slot, Running(p), Fork(p)
        PROVE  FilesInv'
    BY <1>1, <1>5, ForkLostKeeps, ForkChildKeeps DEF Fork
  <1>6. ASSUME NEW p \in Slot, NEW f \in File, ExecProgram(p, f)
        PROVE  FilesInv'
    BY <1>6, ExecKeeps
  <1>7. ASSUME NEW p \in Slot, Running(p), Exit(p)
        PROVE  FilesInv'
    BY <1>7, ExitKeeps
  <1>8. ASSUME NEW z \in Slot, Collect(z)
        PROVE  FilesInv'
    BY <1>8, CollectKeeps
  <1>9. ASSUME NEW R \in SUBSET (Slot \ {1}), HangUp(R)
        PROVE  FilesInv'
    <2>1. R \in SUBSET Slot
      OBVIOUS
    <2> QED
      BY <1>9, <2>1, HangUpKeeps
  <1> QED
    BY <1>1, <1>2, <1>3, <1>4, <1>5, <1>6, <1>7, <1>8, <1>9 DEF Next

\* The inductive invariant holds in every reachable state.
THEOREM FilesInvariant ==
  ASSUME CloseShared = FALSE, RogueFiles = FALSE
  PROVE  Spec => []FilesInv
  <1>1. Init => FilesInv
    BY FilesInit
  <1>2. FilesInv /\ [Next]_files => FilesInv'
    BY FilesStep
  <1> QED
    BY <1>1, <1>2, PTL DEF Spec

\* Type correctness; in particular no reference count is ever negative.
THEOREM FilesTypeCorrect ==
  ASSUME CloseShared = FALSE, RogueFiles = FALSE
  PROVE  Spec => []FilesTypeOK
  <1>1. FilesInv => FilesTypeOK
    BY DEF FilesInv
  <1> QED
    BY <1>1, FilesInvariant, PTL

\* However descriptors are opened, inherited, closed and left open by the dead,
\* the count of an entry is the number of descriptors that refer to it.
THEOREM FilesEntryCounts ==
  ASSUME CloseShared = FALSE, RogueFiles = FALSE
  PROVE  Spec => []EntryCounts
  <1>1. FilesInv => EntryCounts
    BY DEF FilesInv
  <1> QED
    BY <1>1, FilesInvariant, PTL

\* The count of an inode is the number of descriptors, of all processes, that are
\* open on its file.
THEOREM FilesInodeCounts ==
  ASSUME CloseShared = FALSE, RogueFiles = FALSE
  PROVE  Spec => []InodeCounts
  <1>1. FilesInv => InodeCounts
    BY DEF FilesInv
  <1> QED
    BY <1>1, FilesInvariant, PTL

\* The position of an entry, shared or not, stays within the file.
THEOREM FilesOffsetInFile ==
  ASSUME CloseShared = FALSE, RogueFiles = FALSE
  PROVE  Spec => []OffsetInFile
  <1>1. FilesInv => OffsetInFile
    BY DEF FilesInv
  <1> QED
    BY <1>1, FilesInvariant, PTL

\* The assertion in inode_put never fails, and no null pointer is followed.
THEOREM FilesNeverHalts ==
  ASSUME CloseShared = FALSE, RogueFiles = FALSE
  PROVE  Spec => []NeverHalts
  <1>1. FilesInv => NeverHalts
    BY DEF FilesInv
  <1> QED
    BY <1>1, FilesInvariant, PTL

-----------------------------------------------------------------------------
\* No step of another process, and none of its own, takes the file away from a
\* descriptor that stays.
LEMMA FileStaysStep ==
  ASSUME CloseShared = FALSE, RogueFiles = FALSE, FilesInv, Next,
         NEW p \in Slot, NEW d \in Fd, stage[p] = "alive", stage'[p] = "alive",
         fds[p][d] # NoEntry, fds'[p][d] = fds[p][d]
  PROVE  entryFile'[fds[p][d]] = entryFile[fds[p][d]]
  <1>0. p \in Held /\ fds[p][d] \in Entry
    BY DEF Held, FilesInv, FilesTypeOK
  <1>1. ASSUME NEW e \in Entry, NEW f \in File, FirstFree(e),
               entryFile' = [entryFile EXCEPT ![e] = f]
        PROVE  entryFile'[fds[p][d]] = entryFile[fds[p][d]]
    <2>1. fds[p][d] # e
      BY <1>0, <1>1, FreeUnheld DEF FirstFree
    <2> QED
      BY <1>0, <1>1, <2>1 DEF FilesInv, FilesTypeOK
  <1>2. CASE \E q \in Slot, f \in File : Open(q, f) \/ ExecEmpty(q, f)
    BY <1>1, <1>2 DEF Open, ExecEmpty, OpenEntry, files
  <1>3. CASE \E q \in Slot, f \in File : ExecProgram(q, f)
    BY <1>1, <1>3 DEF ExecProgram, OpenAndClose, Halt, entries
  <1>4. CASE \E q \in Slot : Fork(q)
    BY <1>1, <1>4 DEF Fork, ForkLost, ForkChild, OpenAndClose, Halt, entries, files
  <1>5. CASE \E q \in Slot, c \in Fd : Close(q, c)
    BY <1>5 DEF Close, CloseEntry, Halt, entries
  <1>6. CASE \E q \in Slot, c \in Fd, n \in 1 .. MaxRead : Read(q, c, n)
    BY <1>6 DEF Read, Halt, entries
  <1>7. CASE \E q \in Slot : Exit(q)
    BY <1>7 DEF Exit, entries
  <1>8. CASE \E z \in Slot : Collect(z)
    <2>1. PICK z \in Slot : Collect(z)
      BY <1>8
    <2>2. CASE NullInode(fds[z])
      BY <2>1, <2>2 DEF Collect, Halt, entries
    <2>3. CASE ~NullInode(fds[z])
      <3>1. /\ DropReferences(fds[z]) /\ stage' = [stage EXCEPT ![z] = "unused"]
            /\ z \in Held
        BY <2>1, <2>3 DEF Collect, Held
      <3>2. p \in Held \ {z}
        BY <1>0, <3>1 DEF FilesInv, FilesTypeOK
      <3>3. fds[p][d] \notin ResetBy(fds[z])
        BY <3>1, <3>2, ResetUnheld
      <3> QED
        BY <1>0, <3>1, <3>3 DEF DropReferences
    <2> QED
      BY <2>2, <2>3
  <1>9. CASE \E R \in SUBSET Slot : HangUp(R)
    BY <1>9, HangUpIdle DEF entries
  <1> QED
    BY <1>2, <1>3, <1>4, <1>5, <1>6, <1>7, <1>8, <1>9 DEF Next

\* A descriptor names the file it was opened for until it is closed, whatever
\* other processes open, close or leave behind.
THEOREM FilesFileStays ==
  ASSUME CloseShared = FALSE, RogueFiles = FALSE
  PROVE  Spec => FileStays
  <1>1. FilesInv /\ [Next]_files
          => [\A p \in Slot, d \in Fd :
                (/\ stage[p] = "alive" /\ stage'[p] = "alive"
                 /\ fds[p][d] # NoEntry /\ fds'[p][d] = fds[p][d])
                => entryFile'[fds[p][d]] = entryFile[fds[p][d]]]_files
    BY FileStaysStep
  <1> QED
    BY <1>1, FilesInvariant, PTL DEF Spec, FileStays
=============================================================================
