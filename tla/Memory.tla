------------------------------- MODULE Memory -------------------------------
(***************************************************************************)
(* Physical pages: memory/memory.c and its callers in process/process.c.   *)
(* The pages behind the kernel form a LIFO free list.  A process owns      *)
(* three: page_map holds its page tables and its kernel stack, and the     *)
(* tables map one page at USERSPACE_BASE (program, stack) and one at       *)
(* USERSPACE_EXT (environment).                                            *)
(*                                                                         *)
(* Exceptions are taken with interrupts masked, so fork, wait and kill are *)
(* not interrupted; the loop of a hang-up over the process table takes a   *)
(* step per slot, in which nothing else happens.  Whose child a zombie is  *)
(* and why a process dies is left to Kernel.                               *)
(*                                                                         *)
(* Operators marked (faulty) are plausible mistakes that a property        *)
(* catches.                                                                *)
(***************************************************************************)
EXTENDS Integers, Sequences, FiniteSets

CONSTANTS
    NProc,       \* slots of process_table besides slot 0
    NPages,      \* pages between kern_end and MEMORY_END, less the two that
                 \* init_fs keeps for its tables
    Queued       \* states of the processes that schedule finds on the ready queue

\* Enough for init: without three pages its set-up stops the kernel at boot.
ASSUME MemoryAssumption == NProc \in Nat \ {0} /\ NPages \in Nat /\ NPages >= 3

\* Whoever is queued is alive, unless fg was used on a job that had died
\* (move_to_fore), which may even be collected before it is scheduled.
ASSUME QueuedAssumption == Queued \subseteq {"READY", "KILLED", "UNUSED"}

VARIABLES
    free,        \* the list at free_mem_head, first page first
    table,       \* what the tables in a page map: entries USERSPACE_BASE and _EXT
    map,         \* process_table[..].page_map
    env,         \* process_table[..].env
    state,       \* process_table[..].state; READY stands for every living state
    loaded,      \* the process whose tables TTBR0 points to; 0 is idle
    hup,         \* the slot that the loop of a hang-up has come to; 0 outside
    halted       \* an ASSERT has stopped the kernel

memory == <<free, table, map, env, state, loaded, hup, halted>>

Slot    == 1 .. NProc
Page    == 1 .. NPages
None    == 0
UserExt == -1                                           \* USERSPACE_EXT itself

Unmapped == [base |-> None, ext |-> None]

-----------------------------------------------------------------------------
\* (faulty) Address 0 is not refused
KfreeAny(f, pg) == <<pg>> \o f

\* kfree pushes a page behind the head; an invalid entry has none
Kfree(f, pg) == IF pg = None THEN f ELSE <<pg>> \o f

\* kalloc, called n times, takes the first n pages
Rest(n) == SubSeq(free, n + 1, Len(free))

\* (faulty) The extended page stays allocated
FreeUvmBase(f, t, m) == Kfree(Kfree(f, t[m].base), m)

\* free_uvm: the pages that the tables in m map, and the tables
FreeUvm(f, t, m) == Kfree(Kfree(Kfree(f, t[m].base), t[m].ext), m)

\* init_mem frees the pages in the order of their addresses, and init_fs takes the
\* last two; then init gets its tables, its environment and, in setup_uvm, its
\* program page.
Init ==
    /\ free = [i \in 1 .. NPages - 3 |-> NPages - 2 - i]
    /\ table = [pg \in Page |-> IF pg = NPages THEN [base |-> NPages - 2, ext |-> NPages - 1]
                                ELSE Unmapped]
    /\ map = [s \in Slot |-> IF s = 1 THEN NPages ELSE None]
    /\ env = [s \in Slot |-> IF s = 1 THEN UserExt ELSE None]
    /\ state = [s \in Slot |-> IF s = 1 THEN "READY" ELSE "UNUSED"]
    /\ loaded = 0 /\ hup = 0 /\ halted = FALSE

\* (faulty) A process that has just died still counts as running
RunningOrDead == ~ halted /\ hup = 0 /\ loaded # 0

\* A system call of the process whose tables are loaded
Running == ~ halted /\ hup = 0 /\ loaded # 0 /\ state[loaded] = "READY"

\* find_unused_slot takes the first one
FirstUnused(c) == state[c] = "UNUSED" /\ \A s \in 1 .. c - 1 : state[s] # "UNUSED"

\* alloc_new_process takes two pages, copy_uvm the third, and maps it and the
\* second one in the tables it finds empty in the first.
Fork(c) ==
    /\ Running /\ FirstUnused(c) /\ Len(free) >= 3
    /\ free' = Rest(3)
    /\ table' = [table EXCEPT ![free[1]] = [base |-> free[3], ext |-> free[2]]]
    /\ map' = [map EXCEPT ![c] = free[1]]
    /\ env' = [env EXCEPT ![c] = free[2]]
    /\ state' = [state EXCEPT ![c] = "READY"]
    /\ UNCHANGED <<loaded, hup, halted>>

\* (faulty) The program page is freed here and by free_uvm
ForkFailsTwice(c) ==
    /\ Running /\ FirstUnused(c) /\ Len(free) >= 3
    /\ LET made == [table EXCEPT ![free[1]] = [base |-> free[3], ext |-> None]]
       IN  /\ free' = Kfree(FreeUvm(Rest(3), made, free[1]), free[3])
           /\ table' = [made EXCEPT ![free[1]] = Unmapped]
    /\ map' = [map EXCEPT ![c] = free[1]]
    /\ env' = [env EXCEPT ![c] = free[2]]
    /\ state' = [state EXCEPT ![c] = "INIT"]
    /\ UNCHANGED <<loaded, hup, halted>>

\* copy_uvm has no third page, or cannot open the program: free_uvm takes back
\* what is mapped.  The extended page is not mapped yet and stays allocated, as
\* does the slot; page_map still points to the page that was given back.
ForkFails(c) ==
    /\ Running /\ FirstUnused(c) /\ Len(free) >= 2
    /\ LET third == IF Len(free) = 2 THEN None ELSE free[3]
           made  == [table EXCEPT ![free[1]] = [base |-> third, ext |-> None]]
       IN  /\ free' = FreeUvm(IF third = None THEN Rest(2) ELSE Rest(3), made, free[1])
           /\ table' = [made EXCEPT ![free[1]] = Unmapped]
    /\ map' = [map EXCEPT ![c] = free[1]]
    /\ env' = [env EXCEPT ![c] = free[2]]
    /\ state' = [state EXCEPT ![c] = "INIT"]
    /\ UNCHANGED <<loaded, hup, halted>>

\* alloc_new_process asserts that it gets its two pages
ForkHalts(c) ==
    /\ Running /\ FirstUnused(c) /\ Len(free) < 2
    /\ halted' = TRUE
    /\ UNCHANGED <<free, table, map, env, state, loaded, hup>>

\* exit, a fault, or a signal
Die(s) ==
    /\ ~ halted /\ hup = 0 /\ state[s] = "READY"
    /\ state' = [state EXCEPT ![s] = "KILLED"]
    /\ UNCHANGED <<free, table, map, env, loaded, hup, halted>>

\* switch_vm, before a frame on a user stack is written and before swap, when
\* schedule has made s RUNNING, whatever it was
SwitchVm(s) ==
    /\ ~ halted /\ hup = 0
    /\ s # 0 => state[s] \in Queued /\ map[s] # None
    /\ loaded' = s
    /\ state' = [t \in Slot |-> IF t = s THEN "READY" ELSE state[t]]
    /\ UNCHANGED <<free, table, map, env, hup, halted>>

\* Every page of z is given back, and its slot
Release(z) ==
    /\ free' = FreeUvm(free, table, map[z])
    /\ table' = [table EXCEPT ![map[z]] = Unmapped]
    /\ state' = [state EXCEPT ![z] = "UNUSED"]
    /\ UNCHANGED <<map, env, loaded, halted>>

\* (faulty) A slot that never became a process is collected as well
CollectAny(z) ==
    /\ Running /\ state[z] \in {"KILLED", "INIT"}
    /\ Release(z)
    /\ UNCHANGED hup

\* wait collects a zombie
Collect(z) ==
    /\ Running /\ state[z] = "KILLED"
    /\ Release(z)
    /\ UNCHANGED hup

\* SIGHUP to everybody: the loop starts at slot 2 ...
HangUp ==
    /\ Running /\ NProc > 1
    /\ hup' = 2
    /\ UNCHANGED <<free, table, map, env, state, loaded, halted>>

\* ... and collects the zombies that init does not own.
HangUpSlot ==
    /\ hup # 0
    /\ hup' = IF hup = NProc THEN 0 ELSE hup + 1
    /\ \/ state[hup] = "KILLED" /\ Release(hup)
       \/ UNCHANGED <<free, table, map, env, state, loaded, halted>>

\* The kernel loops in error_check
Stopped == halted /\ UNCHANGED memory

Next ==
    \/ \E c \in Slot : Fork(c) \/ ForkFails(c) \/ ForkHalts(c)
    \/ \E s \in Slot : Die(s) \/ Collect(s)
    \/ \E s \in Slot \cup {0} : SwitchVm(s)
    \/ HangUp \/ HangUpSlot \/ Stopped

Spec == Init /\ [][Next]_memory

-----------------------------------------------------------------------------
\* The type invariant
TypeOK ==
    /\ free \in Seq(Page)
    /\ table \in [Page -> [base : Page \cup {None}, ext : Page \cup {None}]]
    /\ map \in [Slot -> Page \cup {None}] /\ env \in [Slot -> Page \cup {None, UserExt}]
    /\ state \in [Slot -> {"UNUSED", "INIT", "READY", "KILLED"}]
    /\ loaded \in Slot \cup {0} /\ hup \in 0 .. NProc /\ halted \in BOOLEAN

Held == {s \in Slot : state[s] \in {"READY", "KILLED"}}
Lost == {s \in Slot : state[s] = "INIT"}

\* The pages of a slot.  Of a failed fork only the extended page is left.
Pages(s) == IF s \in Held THEN {map[s], table[map[s]].base, table[map[s]].ext}
            ELSE IF s \in Lost THEN {env[s]} ELSE {}

\* No page is on the free list twice, none is in use while it is on the list,
\* and no two processes share one: so no process can be given a page, or have its
\* page tables overwritten, by a kalloc for another.  (kfree does not notice a
\* page that is free already, and a failed fork leaves a page_map that dangles.)
PagesApart ==
    /\ \A i, j \in DOMAIN free : free[i] = free[j] => i = j
    /\ \A s \in Slot, i \in DOMAIN free : free[i] \notin Pages(s)
    /\ \A s, t \in Slot : s # t => Pages(s) \cap Pages(t) = {}

\* No page is lost but the extended page of a failed fork: every page that is not
\* free belongs to a process, three to each, or to a slot left in state INIT.
NoPageLost == Len(free) + 3 * Cardinality(Held) + Cardinality(Lost) = NPages

\* The assertion in alloc_new_process fails only if the processes and failed forks
\* that exist at that moment hold all pages but one, however many came and went.
HaltsOnlyWhenFull == halted => 3 * Cardinality(Held) + Cardinality(Lost) >= NPages - 1

\* The page that holds the translation tables and the kernel stack in use is never
\* on the free list, also after its process has died, during a hang-up, and when a
\* dead job is scheduled.  It is so unless the job was collected before that.
LoadedNotFree == loaded # 0 => \A i \in DOMAIN free : free[i] # map[loaded]

\* A process keeps its pages, mapped where they are, until it has died and is
\* collected: no step of another process touches them.
PagesKept ==
    [][\A s \in Slot :
         state[s] \in {"READY", "KILLED"} /\ state'[s] \in {"READY", "KILLED"}
             => map'[s] = map[s] /\ table'[map[s]] = table[map[s]]]_memory
=============================================================================
