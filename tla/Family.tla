------------------------------- MODULE Family -------------------------------
(***************************************************************************)
(* What process management promises to a parent and its children: every    *)
(* process has a living parent, and once it is dead it keeps its slot      *)
(* until that parent collects it.  Kernel is shown to implement this       *)
(* specification.                                                          *)
(*                                                                         *)
(* init (slot 1, PID 1) is the parent of last resort.  The promises are    *)
(* made while init lives: it dies only when the system shuts down.         *)
(*                                                                         *)
(* A hang-up (SIGHUP to everybody) starts the count of the PIDs anew,      *)
(* whoever still lives or waits to be collected.  What is said of PIDs     *)
(* holds until the first one only, and says so (HangUps = FALSE).          *)
(***************************************************************************)
EXTENDS Integers

CONSTANTS
    NProc,       \* slots of process_table, the idle process not counted
    MaxPid,      \* bound: no process is created once this PID is given out
    HangUps      \* whether somebody sends SIGHUP to everybody

ASSUME FamilyAssumption == NProc \in Nat \ {0} /\ MaxPid \in Nat \ {0} /\ HangUps \in BOOLEAN

VARIABLES
    stage,      \* "none", "alive", or "dead": exited but not collected
    pid,        \* process_table[..].pid
    ppid,       \* process_table[..].ppid
    pidNum      \* the next PID

family == <<stage, pid, ppid, pidNum>>

Slot == 1 .. NProc

Init ==
    /\ stage = [s \in Slot |-> IF s = 1 THEN "alive" ELSE "none"]
    /\ pid = [s \in Slot |-> IF s = 1 THEN 1 ELSE 0]
    /\ ppid = [s \in Slot |-> 0]
    /\ pidNum = 2

\* (faulty) The PID is not used up
ForkSamePid(p, c) ==
    /\ stage[p] = "alive" /\ stage[c] = "none" /\ pidNum <= MaxPid
    /\ stage' = [stage EXCEPT ![c] = "alive"]
    /\ pid' = [pid EXCEPT ![c] = pidNum]
    /\ ppid' = [ppid EXCEPT ![c] = pid[p]]
    /\ UNCHANGED pidNum

\* (faulty) The child is its own parent
ForkOwnParent(p, c) ==
    /\ stage[p] = "alive" /\ stage[c] = "none" /\ pidNum <= MaxPid
    /\ stage' = [stage EXCEPT ![c] = "alive"]
    /\ pid' = [pid EXCEPT ![c] = pidNum]
    /\ ppid' = [ppid EXCEPT ![c] = pidNum]
    /\ pidNum' = pidNum + 1

\* A living process p gets a child in the free slot c
Fork(p, c) ==
    /\ stage[p] = "alive" /\ stage[c] = "none" /\ pidNum <= MaxPid
    /\ stage' = [stage EXCEPT ![c] = "alive"]
    /\ pid' = [pid EXCEPT ![c] = pidNum]
    /\ ppid' = [ppid EXCEPT ![c] = pid[p]]
    /\ pidNum' = pidNum + 1

\* (faulty) Nobody takes over the children of the dead
SettleAlone(D, A) ==
    /\ stage[1] = "alive" /\ 1 \notin D
    /\ stage' = [s \in Slot |-> IF s \in D THEN "dead" ELSE stage[s]]
    /\ UNCHANGED <<pid, ppid, pidNum>>

\* The processes in D die together and init takes over their children; init
\* also takes over the dead processes in A
Settle(D, A) ==
    /\ stage[1] = "alive" /\ 1 \notin D
    /\ stage' = [s \in Slot |-> IF s \in D THEN "dead" ELSE stage[s]]
    /\ ppid' = [s \in Slot |->
                  IF \/ s \in A
                     \/ stage[s] # "none" /\ \E d \in D : ppid[s] = pid[d]
                  THEN 1 ELSE ppid[s]]
    /\ UNCHANGED <<pid, pidNum>>

\* The living parent of z, which may be init after taking over A, collects z
Collect(z, A) ==
    /\ stage[1] = "alive" /\ stage[z] = "dead"
    /\ \E p \in Slot : /\ stage[p] = "alive"
                       /\ pid[p] = IF z \in A THEN 1 ELSE ppid[z]
    /\ stage' = [stage EXCEPT ![z] = "none"]
    /\ ppid' = [s \in Slot |-> IF s = z THEN 0 ELSE IF s \in A THEN 1 ELSE ppid[s]]
    /\ UNCHANGED <<pid, pidNum>>

\* A hang-up takes away the dead in F, whoever their parents are, and the next
\* process gets PID 2
HangUp(F) ==
    /\ HangUps /\ stage[1] = "alive"
    /\ stage' = [s \in Slot |-> IF s \in F THEN "none" ELSE stage[s]]
    /\ ppid' = [s \in Slot |-> IF s \in F THEN 0 ELSE ppid[s]]
    /\ pidNum' = 2
    /\ UNCHANGED pid

\* init dies or is dead, and nobody takes over the orphans: what is left of the
\* promises is that the dead stay dead and that PIDs do not change
Collapse ==
    /\ stage' \in [Slot -> {"none", "alive", "dead"}]
    /\ stage'[1] = "dead"
    /\ \A s \in Slot : /\ stage[s] = "none" => stage'[s] = "none"
                       /\ stage[s] = "dead" => stage'[s] # "alive"
    /\ ppid' \in [Slot -> 0 .. MaxPid]
    /\ UNCHANGED <<pid, pidNum>>

Alive == {s \in Slot : stage[s] = "alive"}
Dead  == {s \in Slot : stage[s] = "dead"}

Next ==
    \/ \E p, c \in Slot : Fork(p, c)
    \/ \E D \in SUBSET Alive, A \in SUBSET Dead : Settle(D, A)
    \/ \E z \in Dead : \E A \in SUBSET Dead : Collect(z, A)
    \/ \E F \in SUBSET Dead : HangUp(F)
    \/ Collapse

Spec == Init /\ [][Next]_family

-----------------------------------------------------------------------------
\* The type invariant
TypeOK ==
    /\ stage \in [Slot -> {"none", "alive", "dead"}]
    /\ pid \in [Slot -> Nat] /\ ppid \in [Slot -> Nat] /\ pidNum \in Nat

InUse == Slot \ {s \in Slot : stage[s] = "none"}

\* A PID names one process, living or dead, until a hang-up starts the count
\* again (process.c: "Processes may share the same table slot but never the same
\* PID number").
PidsUnique == \A s, t \in InUse : pid[s] = pid[t] => s = t

\* While init lives, the parent of every other process, living or dead, is a
\* living process, after hang-ups as well: exit and the SIGKILL handler hand all
\* orphans to init.
ParentAlive ==
    stage[1] = "alive" =>
        \A s \in InUse \ {1} : \E p \in Alive : pid[p] = ppid[s]

\* Until a hang-up and while init lives, a parent is older than its children, so
\* that following ppid from any process ends at init: there is no cycle of parents.
ParentOlder ==
    stage[1] = "alive" => \A s \in InUse \ {1} : ppid[s] < pid[s]
=============================================================================
