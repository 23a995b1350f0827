------------------------------- MODULE EnvMap -------------------------------
(***************************************************************************)
(* What the environment promises to the processes of Family: each has its  *)
(* own variables, each variable one value, and starts with those of its    *)
(* parent.  A program that has switched works on the variables of its      *)
(* parent instead.  A process may be unable to set a further variable,     *)
(* but the variables it has keep their values.  Environ is shown to        *)
(* implement this specification.                                           *)
(***************************************************************************)
EXTENDS Family, FiniteSets

CONSTANTS
    Key,        \* names of variables
    Value,      \* their values
    NoText,     \* what a variable that is not set has for a value
    Size        \* how many variables a process can have

VARIABLES
    vals,       \* vals[s][k]: the value of k for the process in slot s
    switched    \* the processes that work on their parents' variables

mapped == <<stage, pid, ppid, pidNum, vals, switched>>

NoVariables == [k \in Key |-> NoText]

MapInit == Init /\ vals = [s \in Slot |-> NoVariables] /\ switched = {}

IsSet(s) == {k \in Key : vals[s][k] # NoText}

\* The calls of p work on the variables of s.  A switched child of init works on
\* its own, a switched child of a switched process on none.
WorksOn(p, s) ==
    \/ p \notin switched /\ s = p
    \/ p \in switched /\ \E q \in InUse :
          /\ pid[q] = ppid[p] /\ q \notin switched
          /\ s = IF q = 1 THEN p ELSE q

\* p sets k to v: in place, or if there is room for another variable
Put(p, s, k, v) ==
    /\ stage[1] = "alive" /\ stage[p] = "alive" /\ p # 1 /\ WorksOn(p, s)
    /\ k \in IsSet(s) \/ Cardinality(IsSet(s)) < Size
    /\ vals' = [vals EXCEPT ![s][k] = v]
    /\ UNCHANGED <<stage, pid, ppid, pidNum, switched>>

\* p makes k a variable that is not set
Remove(p, s, k) ==
    /\ stage[1] = "alive" /\ stage[p] = "alive" /\ p # 1 /\ WorksOn(p, s)
    /\ vals' = [vals EXCEPT ![s][k] = NoText]
    /\ UNCHANGED <<stage, pid, ppid, pidNum, switched>>

Switch(p) ==
    /\ stage[1] = "alive" /\ stage[p] = "alive" /\ p # 1
    /\ switched' = switched \cup {p}
    /\ UNCHANGED <<stage, pid, ppid, pidNum, vals>>

\* The child starts with the variables of p, and works on its own
MapFork(p, c) ==
    /\ Fork(p, c) /\ p \notin switched
    /\ vals' = [vals EXCEPT ![c] = vals[p]]
    /\ UNCHANGED switched

MapSettle(D, A) == Settle(D, A) /\ UNCHANGED <<vals, switched>>

MapCollect(z, A) ==
    /\ Collect(z, A)
    /\ vals' = [vals EXCEPT ![z] = NoVariables]
    /\ switched' = switched \ {z}

MapCollapse == Collapse /\ UNCHANGED <<vals, switched>>

MapNext ==
    \/ \E p, s \in Slot, k \in Key, v \in Value : Put(p, s, k, v)
    \/ \E p, s \in Slot, k \in Key : Remove(p, s, k)
    \/ \E p \in Slot : Switch(p)
    \/ \E p, c \in Slot : MapFork(p, c)
    \/ \E D \in SUBSET Alive, A \in SUBSET Dead : MapSettle(D, A)
    \/ \E z \in Dead : \E A \in SUBSET Dead : MapCollect(z, A)
    \/ MapCollapse

MapSpec == MapInit /\ [][MapNext]_mapped
=============================================================================
