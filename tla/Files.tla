-------------------------------- MODULE Files --------------------------------
(***************************************************************************)
(* Open files: fs/file.c, the file system calls of irq/syscall.c, and what *)
(* fork, exec, exit, wait and the hang-up in process/process.c do to them. *)
(*                                                                         *)
(* A descriptor of a process points to an entry of the global file table,  *)
(* which points to an in-core inode.  Entries are shared by fork, inodes   *)
(* by every open of the same file; both count references.  An entry is     *)
(* free when it points to no inode.                                        *)
(*                                                                         *)
(* Inodes are named by their file, since the inode table is indexed with   *)
(* the directory index of the file.  Kernel code runs without interruption *)
(* and none of these calls sleeps, so each is one step.  Who is whose      *)
(* parent is left out: any dead process may be collected at any time.      *)
(*                                                                         *)
(* Operators marked (faulty) are not part of the model: they are plausible *)
(* mistakes in the definition that follows them, which a property catches. *)
(***************************************************************************)
EXTENDS Integers, FiniteSets

CONSTANTS
    NProc,        \* slots of process_table besides slot 0, which opens no file
    MaxFds,       \* descriptors of a process (MAX_OPEN_FILES)
    MaxEntries,   \* entries of global_file_table
    File,         \* the files in the root directory
    InitFile,     \* the file init was loaded from
    NoFile,       \* the null pointer to an inode
    FileSize,     \* size of each file, in units of what one read may ask for
    MaxRead,      \* bound: the most a read asks for
    CloseShared,  \* whether programs close descriptors shared since a fork
    RogueFiles    \* whether a hang-up happens while a zombie it releases, or
                  \* the descriptor it mistakes for one, has a file open

ASSUME FilesAssumption ==
    /\ NProc \in Nat \ {0} /\ MaxFds \in Nat \ {0} /\ MaxEntries \in Nat \ {0}
    /\ IsFiniteSet(File) /\ InitFile \in File /\ NoFile \notin File
    /\ FileSize \in [File -> Nat] /\ MaxRead \in Nat
    /\ CloseShared \in BOOLEAN /\ RogueFiles \in BOOLEAN

VARIABLES
    stage,      \* state of a slot: "unused", "alive", "dead", or "lost": in
                \* state INIT since a fork that failed half way
    fds,        \* process_table[..].fd_table
    entryFile,  \* global_file_table[..].inode
    entryRefs,  \* global_file_table[..].ref_count
    offset,     \* global_file_table[..].offset
    inodeRefs,  \* inode_table[..].ref_count
    halted      \* an ASSERT failed, or the kernel followed a null pointer

entries == <<entryFile, entryRefs, offset>>
files == <<stage, fds, entryFile, entryRefs, offset, inodeRefs, halted>>

Slot  == 1 .. NProc
Fd    == 0 .. MaxFds - 1
Entry == 1 .. MaxEntries
NoEntry == 0
Closed == [d \in Fd |-> NoEntry]

-----------------------------------------------------------------------------
\* setup_uvm has loaded init from its file: the entry it used names the file
\* for ever, and is left at its end.
Init ==
    /\ stage = [s \in Slot |-> IF s = 1 THEN "alive" ELSE "unused"]
    /\ fds = [s \in Slot |-> Closed]
    /\ entryFile = [e \in Entry |-> IF e = 1 THEN InitFile ELSE NoFile]
    /\ entryRefs = [e \in Entry |-> 0]
    /\ offset = [e \in Entry |-> IF e = 1 THEN FileSize[InitFile] ELSE 0]
    /\ inodeRefs = [f \in File |-> 0]
    /\ halted = FALSE

\* error_check and the handler of a fault in the kernel loop for ever
Halt ==
    /\ halted' = TRUE
    /\ UNCHANGED <<stage, fds, entries, inodeRefs>>

\* The first entry that points to no inode
FirstFree(e) ==
    /\ entryFile[e] = NoFile
    /\ \A x \in Entry : entryFile[x] = NoFile => e <= x

TableFull == \A e \in Entry : entryFile[e] # NoFile

\* The first free descriptor of a process
FirstClosed(p, d) ==
    /\ fds[p][d] = NoEntry
    /\ \A x \in Fd : fds[p][x] = NoEntry => d <= x

FdsFull(p) == \A d \in Fd : fds[p][d] # NoEntry

-----------------------------------------------------------------------------
\* References held by a family r of pointers to entries, a descriptor table for
\* instance
RefersTo(r, e) == {d \in DOMAIN r : r[d] = e}
Uses(r, inode, f) == {d \in DOMAIN r : r[d] # NoEntry /\ inode[r[d]] = f}

\* The loop over a table of descriptors that drops their references.  The d-th
\* turn resets the entry it looks at when it drops the last reference to the inode.
LastUse(r, d) ==
    /\ r[d] # NoEntry /\ entryFile[r[d]] # NoFile
    /\ Cardinality({x \in Uses(r, entryFile, entryFile[r[d]]) : x <= d})
           = inodeRefs[entryFile[r[d]]]

\* (faulty) The inode is released while one reference is left
ResetEarly(r) ==
    {r[d] : d \in {x \in DOMAIN r :
        /\ r[x] # NoEntry /\ entryFile[r[x]] # NoFile
        /\ Cardinality({y \in Uses(r, entryFile, entryFile[r[x]]) : y <= x})
               >= inodeRefs[entryFile[r[x]]] - 1}}

ResetBy(r) == {r[d] : d \in {x \in DOMAIN r : LastUse(r, x)}}

\* An entry without an inode, from the start or since an earlier turn
NullInode(r) ==
    \E d \in DOMAIN r :
        /\ r[d] # NoEntry
        /\ \/ entryFile[r[d]] = NoFile
           \/ \E x \in DOMAIN r : x < d /\ r[x] = r[d] /\ LastUse(r, x)

DropReferences(r) ==
    /\ entryRefs' = [e \in Entry |-> entryRefs[e] - Cardinality(RefersTo(r, e))]
    /\ inodeRefs' = [f \in File |->
            inodeRefs[f] - Cardinality(Uses(r, entryFile, f))]
    /\ entryFile' = [e \in Entry |->
            IF e \in ResetBy(r) THEN NoFile ELSE entryFile[e]]

-----------------------------------------------------------------------------
\* (faulty) The inode is counted by the first open only
OpenEntryUncounted(p, d, e, f) ==
    /\ FirstClosed(p, d) /\ FirstFree(e)
    /\ fds' = [fds EXCEPT ![p][d] = e]
    /\ entryFile' = [entryFile EXCEPT ![e] = f]
    /\ entryRefs' = [entryRefs EXCEPT ![e] = 1]
    /\ offset' = [offset EXCEPT ![e] = 0]
    /\ inodeRefs' = [inodeRefs EXCEPT ![f] = 1]

\* open_file, with a descriptor and an entry to be had
OpenEntry(p, d, e, f) ==
    /\ FirstClosed(p, d) /\ FirstFree(e)
    /\ fds' = [fds EXCEPT ![p][d] = e]
    /\ entryFile' = [entryFile EXCEPT ![e] = f]
    /\ entryRefs' = [entryRefs EXCEPT ![e] = 1]
    /\ offset' = [offset EXCEPT ![e] = 0]
    /\ inodeRefs' = [inodeRefs EXCEPT ![f] = @ + 1]

Open(p, f) ==
    \/ /\ FdsFull(p) \/ TableFull
       /\ UNCHANGED files
    \/ \E d \in Fd, e \in Entry :
          /\ OpenEntry(p, d, e, f)
          /\ UNCHANGED <<stage, halted>>

\* (faulty) The descriptor keeps its pointer to an entry that is free
CloseEntryKeeping(p, d, e) ==
    /\ entryRefs' = [entryRefs EXCEPT ![e] = @ - 1]
    /\ UNCHANGED <<stage, fds, entryFile, offset, halted>>

\* close_file: the descriptor stays when the entry is shared
CloseEntry(p, d, e) ==
    /\ entryRefs' = [entryRefs EXCEPT ![e] = @ - 1]
    /\ fds' = IF entryRefs[e] = 1 THEN [fds EXCEPT ![p][d] = NoEntry] ELSE fds
    /\ UNCHANGED <<stage, entryFile, offset, halted>>

\* inode_put of the inode of the entry
PutInode(f) ==
    IF f = NoFile THEN UNCHANGED inodeRefs
                  ELSE inodeRefs' = [inodeRefs EXCEPT ![f] = @ - 1]

Close(p, d) ==
    /\ fds[p][d] # NoEntry
    /\ CloseShared \/ entryRefs[fds[p][d]] = 1
    /\ LET e == fds[p][d] IN
       IF entryFile[e] # NoFile /\ inodeRefs[entryFile[e]] <= 0
       THEN Halt
       ELSE CloseEntry(p, d, e) /\ PutInode(entryFile[e])

\* (faulty) The size is not cut down to what is left of the file
ReadOver(p, d, n) ==
    /\ fds[p][d] # NoEntry /\ entryFile[fds[p][d]] # NoFile
    /\ offset' = [offset EXCEPT ![fds[p][d]] = @ + n]
    /\ UNCHANGED <<stage, fds, entryFile, entryRefs, inodeRefs, halted>>

\* read_file of n units; programs read through descriptors that open_file gave
\* them.  An empty file has no cluster: the read fails and moves nothing.
Read(p, d, n) ==
    /\ fds[p][d] # NoEntry
    /\ LET e == fds[p][d] IN
       IF entryFile[e] = NoFile THEN Halt ELSE
       LET left == FileSize[entryFile[e]] - offset[e] IN
       /\ offset' = [offset EXCEPT ![e] = @ + (IF n > left THEN left ELSE n)]
       /\ UNCHANGED <<stage, fds, entryFile, entryRefs, inodeRefs, halted>>

-----------------------------------------------------------------------------
\* open_file and close_file of the descriptor it returned, within one call of
\* the kernel: the descriptor is free again, and the entry keeps its inode and
\* the position n up to which it was read
OpenAndClose(e, f, n) ==
    /\ entryFile' = [entryFile EXCEPT ![e] = f]
    /\ offset' = [offset EXCEPT ![e] = n]

\* The first unused slot: find_unused_slot zeroes it
FirstUnused(c) ==
    /\ stage[c] = "unused"
    /\ \A s \in Slot : stage[s] = "unused" => c <= s

\* (faulty) The entries are shared and not counted
InheritUncounted(p, c, e) ==
    /\ fds' = [fds EXCEPT ![c] = fds[p]]
    /\ entryRefs' = [entryRefs EXCEPT ![e] = 0]
    /\ inodeRefs' = [g \in File |->
            inodeRefs[g] + Cardinality(Uses(fds[p], entryFile', g))]

\* (faulty) The inodes are not counted, since the child adds no entry
InheritInodesUncounted(p, c, e) ==
    /\ fds' = [fds EXCEPT ![c] = fds[p]]
    /\ entryRefs' = [x \in Entry |-> (IF x = e THEN 0 ELSE entryRefs[x])
                                       + Cardinality(RefersTo(fds[p], x))]
    /\ inodeRefs' = inodeRefs

\* The child gets the descriptors of its parent; entries and inodes are counted.
\* Entry e has just been opened and closed for the program.
Inherit(p, c, e) ==
    /\ fds' = [fds EXCEPT ![c] = fds[p]]
    /\ entryRefs' = [x \in Entry |-> (IF x = e THEN 0 ELSE entryRefs[x])
                                       + Cardinality(RefersTo(fds[p], x))]
    /\ inodeRefs' = [g \in File |->
            inodeRefs[g] + Cardinality(Uses(fds[p], entryFile', g))]

\* fork.  copy_uvm opens the file of the program, any, in the still empty table
\* of the child, to learn its size; without memory or a free entry the slot is
\* lost.
ForkLost(c) ==
    /\ FirstUnused(c)
    /\ stage' = [stage EXCEPT ![c] = "lost"]
    /\ fds' = [fds EXCEPT ![c] = Closed]
    /\ UNCHANGED <<entries, inodeRefs, halted>>

ForkChild(p, c, e, f) ==
    /\ FirstUnused(c) /\ FirstFree(e)
    /\ IF \/ inodeRefs[f] < 0
          \/ \E d \in Fd : /\ fds[p][d] \notin {NoEntry, e}
                            /\ entryFile[fds[p][d]] = NoFile
       THEN Halt
       ELSE /\ OpenAndClose(e, f, 0)
            /\ Inherit(p, c, e)
            /\ stage' = [stage EXCEPT ![c] = "alive"]
            /\ UNCHANGED halted

Fork(p) ==
    \/ /\ \A s \in Slot : stage[s] # "unused"
       /\ UNCHANGED files
    \/ \E c \in Slot : ForkLost(c)
    \/ \E c \in Slot, e \in Entry, f \in File : ForkChild(p, c, e, f)

\* exec of file f, which is read to its end.  Descriptors stay open.  A file without a cluster cannot be
\* read, and the process exits with the descriptor of the program still open.
ExecProgram(p, f) ==
    \E e \in Entry :
        /\ FileSize[f] > 0 /\ ~FdsFull(p) /\ FirstFree(e)
        /\ IF inodeRefs[f] < 0 THEN Halt
           ELSE /\ OpenAndClose(e, f, FileSize[f])
                /\ entryRefs' = [entryRefs EXCEPT ![e] = 0]
                /\ UNCHANGED <<stage, fds, inodeRefs, halted>>

ExecEmpty(p, f) ==
    \E d \in Fd, e \in Entry :
        /\ FileSize[f] = 0
        /\ OpenEntry(p, d, e, f)
        /\ stage' = [stage EXCEPT ![p] = "dead"]
        /\ UNCHANGED halted

\* exit, or death by a signal: the descriptors stay as they are
Exit(p) ==
    /\ stage' = [stage EXCEPT ![p] = "dead"]
    /\ UNCHANGED <<fds, entries, inodeRefs, halted>>

-----------------------------------------------------------------------------
\* wait collects the dead process z.  Its slot keeps the pointers until reuse.
Collect(z) ==
    /\ stage[z] = "dead"
    /\ IF NullInode(fds[z]) THEN Halt
       ELSE /\ DropReferences(fds[z])
            /\ stage' = [stage EXCEPT ![z] = "unused"]
            /\ UNCHANGED <<fds, offset, halted>>

\* What a hang-up drops when it releases n zombies: the loop over descriptors
\* has an i of its own, so that for each zombie it visits descriptor i of the
\* process in slot i, for every i
Diagonal(n) ==
    [j \in 0 .. n * MaxFds - 1 |->
        LET i == j % MaxFds IN IF i \in Slot THEN fds[i][i] ELSE NoEntry]

\* kill(-1, SIGHUP) releases the dead processes in R, those whose parent is not
\* init
HangUp(R) ==
    /\ R # {} /\ \A z \in R : stage[z] = "dead"
    /\ RogueFiles \/ /\ \A z \in R : fds[z] = Closed
                     /\ \A i \in Slot \cap Fd : fds[i][i] = NoEntry
    /\ LET r == Diagonal(Cardinality(R)) IN
       IF NullInode(r) THEN Halt
       ELSE /\ DropReferences(r)
            /\ stage' = [s \in Slot |-> IF s \in R THEN "unused" ELSE stage[s]]
            /\ UNCHANGED <<fds, offset, halted>>

-----------------------------------------------------------------------------
Running(p) == stage[p] = "alive" /\ ~halted

\* init runs its own program and does not exit
Next ==
    \/ \E p \in Slot, f \in File : Running(p) /\ Open(p, f)
    \/ \E p \in Slot, d \in Fd : Running(p) /\ Close(p, d)
    \/ \E p \in Slot, d \in Fd, n \in 1 .. MaxRead : Running(p) /\ Read(p, d, n)
    \/ \E p \in Slot : Running(p) /\ Fork(p)
    \/ \E p \in Slot \ {1}, f \in File : Running(p) /\ ExecProgram(p, f)
    \/ \E p \in Slot \ {1}, f \in File : Running(p) /\ ExecEmpty(p, f)
    \/ \E p \in Slot \ {1} : Running(p) /\ Exit(p)
    \/ ~halted /\ \E z \in Slot \ {1} : Collect(z)
    \/ ~halted /\ \E R \in SUBSET (Slot \ {1}) : HangUp(R)

Spec == Init /\ [][Next]_files

-----------------------------------------------------------------------------
\* The type invariant: reference counts are never negative
FilesTypeOK ==
    /\ stage \in [Slot -> {"unused", "alive", "dead", "lost"}]
    /\ fds \in [Slot -> [Fd -> Entry \cup {NoEntry}]]
    /\ entryFile \in [Entry -> File \cup {NoFile}]
    /\ entryRefs \in [Entry -> Nat]
    /\ offset \in [Entry -> Nat]
    /\ inodeRefs \in [File -> Nat]
    /\ halted \in BOOLEAN

\* The descriptors that count are those of processes alive or not yet collected
Held == {s \in Slot : stage[s] \in {"alive", "dead"}}
Holders(e) == {h \in Held \X Fd : fds[h[1]][h[2]] = e}
Users(f) == {h \in Held \X Fd : /\ fds[h[1]][h[2]] # NoEntry
                                 /\ entryFile[fds[h[1]][h[2]]] = f}

\* The count of an entry of the global file table is the number of descriptors
\* that refer to it, in all processes: shared by fork, given up by close or when
\* the dead are collected.
EntryCounts == \A e \in Entry : entryRefs[e] = Cardinality(Holders(e))

\* The count of an inode is the number of descriptors open on its file: the
\* comment in close_file has it "keeps a count of all processes accessing a file".
InodeCounts == \A f \in File : inodeRefs[f] = Cardinality(Users(f))

\* A descriptor names the file it was opened for until it is closed: no other
\* process can take its entry away, by closing, exiting, or opening another file.
FileStays ==
    [][\A p \in Slot, d \in Fd :
         (/\ stage[p] = "alive" /\ stage'[p] = "alive"
          /\ fds[p][d] # NoEntry /\ fds'[p][d] = fds[p][d])
         => entryFile'[fds[p][d]] = entryFile[fds[p][d]]]_files

\* However parent and child read through an entry they share, its position stays
\* within the file it names.
OffsetInFile ==
    \A e \in Entry : entryFile[e] # NoFile => offset[e] <= FileSize[entryFile[e]]

\* The kernel neither fails the assertion in inode_put nor follows the null
\* pointer of an entry that another process has reset.
NeverHalts == ~halted
=============================================================================
