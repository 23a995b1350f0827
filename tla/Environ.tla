------------------------------ MODULE Environ -------------------------------
(***************************************************************************)
(* The environments of processes: the hash map of lib.c, the system calls  *)
(* on it, and the page it is kept in, for processes that come and go as in *)
(* Family.                                                                 *)
(*                                                                         *)
(* Every process but the idle process has a page with a table of           *)
(* HASH_TABLE_SIZE entries; fork copies it.  Programs that work on the     *)
(* environment of the shell they are run from (env, export, unset) call    *)
(* switchpenv, which drops the kernel's pointer to their own page, and     *)
(* from then on their calls go to the page of their parent.  The pointer   *)
(* of init is the user address of its page, which means the page of        *)
(* whoever runs.                                                           *)
(*                                                                         *)
(* A name is identified with its hash: two names with one hash, and a name *)
(* whose hash is 0, are left out.  The text of a name is kept apart from   *)
(* its hash only where the code reads it after the hash is cleared, which  *)
(* is the value.                                                           *)
(***************************************************************************)
EXTENDS Family, FiniteSets

CONSTANTS
    Key,        \* names of variables
    Value,      \* their values
    NoKey,      \* the hash 0 of an entry that is free
    NoText,     \* the text of an entry that was never written
    Size        \* HASH_TABLE_SIZE

\* The system calls find a parent by its PID, which is followed here up to the
\* first hang-up only: from then on two processes may have one PID.
ASSUME EnvironAssumption ==
    /\ NoKey \notin Key /\ NoText \notin Value
    /\ Size \in Nat \ {0}
    /\ ~ HangUps

VARIABLES
    page,       \* page[s]: the table in the page that was allocated for slot s
    ptr         \* process_table[s].env: "own" page, "user" address, or "none"

vars == <<stage, pid, ppid, pidNum, page, ptr>>

Place == 1 .. Size
Entry == [key : Key \cup {NoKey}, val : Value \cup {NoText}]
EmptyTable == [i \in Place |-> [key |-> NoKey, val |-> NoText]]

-----------------------------------------------------------------------------
\* The hash map

\* The first entry with key k, or 0; with NoKey, the first entry that is free
At(t, k) ==
    IF \A i \in Place : t[i].key # k THEN 0
    ELSE CHOOSE i \in Place : /\ t[i].key = k
                              /\ \A j \in Place : j < i => t[j].key # k

\* (faulty) Takes a free entry without looking for the key
InsertAnew(t, k, v) ==
    LET i == At(t, NoKey)
    IN  IF i = 0 THEN t ELSE [t EXCEPT ![i] = [key |-> k, val |-> v]]

\* Overwrites the value of k, or fills the first free entry; in a full table
\* nothing happens
Insert(t, k, v) ==
    LET i == IF At(t, k) # 0 THEN At(t, k) ELSE At(t, NoKey)
    IN  IF i = 0 THEN t ELSE [t EXCEPT ![i] = [key |-> k, val |-> v]]

\* Clears the hash of k's entry and leaves the text
Erase(t, k) ==
    LET i == At(t, k) IN IF i = 0 THEN t ELSE [t EXCEPT ![i].key = NoKey]

-----------------------------------------------------------------------------
\* Whose table a call works on

\* get_process: the slot of the process with PID n, or 0
GetProcess(n) ==
    LET S == {s \in Slot : stage[s] # "none" /\ pid[s] = n}
    IN  IF S = {} THEN 0 ELSE CHOOSE s \in S : \A t \in S : s <= t

\* (faulty) The user address of init is taken for the page of init
EnvOfInit(p) ==
    LET q == GetProcess(ppid[p])
    IN  CASE ptr[p] # "none"                -> p
          [] ptr[p] = "none" /\ q = 0       -> 0
          [] ptr[p] = "none" /\ q # 0       -> IF ptr[q] = "none" THEN 0 ELSE q

\* The slot whose page the calls of p read and write, 0 if they fail: its own,
\* or that of its parent if p has switched.  A parent that has switched itself
\* has no table; if the parent is init, p works on its own page again, because
\* the address is resolved in its own address space.
EnvOf(p) ==
    LET q == GetProcess(ppid[p])
    IN  IF ptr[p] # "none" THEN p
        ELSE IF q = 0 THEN 0
        ELSE CASE ptr[q] = "own"  -> q
               [] ptr[q] = "user" -> p
               [] ptr[q] = "none" -> 0

\* What p sees of variable k.  The kernel finds the entry in the table of EnvOf,
\* but the address it returns is one of p's own page.
Getenv(p, k) ==
    LET s == EnvOf(p)
        i == IF s = 0 THEN 0 ELSE At(page[s], k)
    IN  IF i = 0 THEN NoText ELSE page[p][i].val

-----------------------------------------------------------------------------
EnvInit ==
    /\ Init
    /\ page = [s \in Slot |-> EmptyTable]
    /\ ptr = [s \in Slot |-> IF s = 1 THEN "user" ELSE "none"]

\* A program calls the environment while init lives; init itself never does
Caller(p) == stage[1] = "alive" /\ p # 1 /\ stage[p] = "alive" /\ EnvOf(p) # 0

SetEnv(p, k, v) ==
    /\ Caller(p)
    /\ page' = [page EXCEPT ![EnvOf(p)] = Insert(@, k, v)]
    /\ UNCHANGED <<stage, pid, ppid, pidNum, ptr>>

UnsetEnv(p, k) ==
    /\ Caller(p)
    /\ page' = [page EXCEPT ![EnvOf(p)] = Erase(@, k)]
    /\ UNCHANGED <<stage, pid, ppid, pidNum, ptr>>

SwitchPenv(p) ==
    /\ p # 1 /\ stage[p] = "alive" /\ stage[1] = "alive"
    /\ ptr' = [ptr EXCEPT ![p] = "none"]
    /\ UNCHANGED <<stage, pid, ppid, pidNum, page>>

\* (faulty) The first entry is not copied
EnvForkUncopied(p, c) ==
    /\ Fork(p, c)
    /\ ptr[p] # "none"
    /\ page' = [page EXCEPT ![c] = [i \in Place |->
                  IF i = 1 THEN EmptyTable[1] ELSE page[p][i]]]
    /\ ptr' = [ptr EXCEPT ![c] = "own"]

\* The child gets a page with a copy of its parent's.  The programs that switch
\* do not fork afterwards: there would be nothing to copy from.
EnvFork(p, c) ==
    /\ Fork(p, c)
    /\ ptr[p] # "none"
    /\ page' = [page EXCEPT ![c] = page[p]]
    /\ ptr' = [ptr EXCEPT ![c] = "own"]

EnvSettle(D, A) == Settle(D, A) /\ UNCHANGED <<page, ptr>>

\* The slot and its page are given back
EnvCollect(z, A) ==
    /\ Collect(z, A)
    /\ page' = [page EXCEPT ![z] = EmptyTable]
    /\ ptr' = [ptr EXCEPT ![z] = "none"]

\* init dies.  What becomes of the others is left open by Family; nothing is
\* said about environments from then on.
EnvCollapse ==
    /\ stage' = [stage EXCEPT ![1] = "dead"] /\ UNCHANGED <<ppid, page, ptr>>
    /\ Collapse

EnvNext ==
    \/ \E p \in Slot, k \in Key, v \in Value : SetEnv(p, k, v)
    \/ \E p \in Slot, k \in Key : UnsetEnv(p, k)
    \/ \E p \in Slot : SwitchPenv(p)
    \/ \E p, c \in Slot : EnvFork(p, c)
    \/ \E D \in SUBSET Alive, A \in SUBSET Dead : EnvSettle(D, A)
    \/ \E z \in Dead : \E A \in SUBSET Dead : EnvCollect(z, A)
    \/ EnvCollapse

EnvSpec == EnvInit /\ [][EnvNext]_vars

-----------------------------------------------------------------------------
\* The type invariant
EnvTypeOK ==
    /\ page \in [Slot -> [Place -> Entry]]
    /\ ptr \in [Slot -> {"own", "user", "none"}]

\* No table has two entries for one name, so that what erase and at find first
\* is all there is (lib.c: insert looks for the key before it takes an entry).
NoDuplicates ==
    \A s \in Slot : \A i, j \in Place :
        page[s][i].key # NoKey /\ page[s][i].key = page[s][j].key => i = j

\* A table in use changes only by a call of its own process, if that has not
\* switched or was left to init, or by a living child that has switched; the
\* table of init never changes (syscall.c: switchpenv makes "subsequent system
\* calls use the parent environment").
TablesKept ==
    [][\A s \in Slot :
        stage[s] # "none" /\ stage'[s] # "none" /\ page'[s] # page[s] =>
          /\ s # 1 /\ stage[1] = "alive"
          /\ \E p \in Alive :
               \/ p = s /\ (ptr[p] = "own" \/ ppid[p] = pid[1])
               \/ ptr[p] = "none" /\ ppid[p] = pid[s] /\ ptr[s] = "own"
      ]_vars

\* The value of k in table t
ValueIn(t, k) == IF At(t, k) = 0 THEN NoText ELSE t[At(t, k)].val

\* The tables implement the promise of EnvMap: one value for each name and
\* process, a copy of the parent's at the start, and kept until the process or
\* its switched child changes it.
Promise == INSTANCE EnvMap WITH
    vals     <- [s \in Slot |-> [k \in Key |-> ValueIn(page[s], k)]],
    switched <- {s \in InUse : ptr[s] = "none"}
ImplementsEnvMap == Promise!MapSpec

\* A process that has switched to the environment of its parent sees what is
\* there (syscall.c: "so that subsequent system calls use the parent
\* environment").
SeesParent ==
    stage[1] = "alive" =>
        \A p \in Alive, k \in Key :
            EnvOf(p) # 0 => Getenv(p, k) = ValueIn(page[EnvOf(p)], k)
=============================================================================
