---------------------------- MODULE FamilyProofs ----------------------------
(***************************************************************************)
(* The promises of Family hold for every number of slots and of PIDs.      *)
(*                                                                         *)
(* That everybody has a living parent is proved with hang-ups, after which *)
(* a PID may name several processes: those who have a parent's number are  *)
(* all taken from it when one of its bearers dies.  What is said of PIDs   *)
(* is proved without hang-ups, on top of it: that a parent is older than   *)
(* an adopted child rests on init having the smallest PID.                 *)
(***************************************************************************)
EXTENDS Family, TLAPS

\* init is never collected and keeps PID 1.
InitFirst == stage[1] # "none" /\ pid[1] = 1

\* The inductive invariant with hang-ups.
Parented == TypeOK /\ InitFirst /\ ParentAlive

\* No process has PID 0, nor one that is still to be given out.
Numbered == \A s \in InUse : pid[s] >= 1 /\ pid[s] < pidNum

\* The inductive invariant without hang-ups.
FamilyInv == Parented /\ PidsUnique /\ Numbered /\ ParentOlder

-----------------------------------------------------------------------------
\* Slot 1 exists, and init's is the smallest of all PIDs.
LEMMA InitSlot == 1 \in Slot
  BY FamilyAssumption DEF Slot

LEMMA InitSmallest ==
  ASSUME FamilyInv, NEW s \in InUse \ {1}
  PROVE  1 < pid[s]
  <1>1. s \in Slot /\ 1 \in InUse /\ pid[s] \in Nat /\ pid[1] = 1 /\ pid[s] >= 1
    BY InitSlot DEF FamilyInv, Parented, TypeOK, InitFirst, Numbered, InUse
  <1>2. pid[s] # pid[1]
    BY <1>1 DEF FamilyInv, PidsUnique
  <1> QED
    BY <1>1, <1>2

-----------------------------------------------------------------------------
(***************************************************************************)
(* Everybody has a living parent, with hang-ups.                           *)
(***************************************************************************)
\* A parent with a child lives.
LEMMA ForkParented ==
  ASSUME Parented, NEW p \in Slot, NEW c \in Slot, Fork(p, c)
  PROVE  Parented'
  <1>1. TypeOK'
    BY DEF Parented, TypeOK, Fork
  <1>2. c \notin InUse /\ c # 1 /\ p # c /\ InUse' = InUse \cup {c}
    BY DEF Parented, TypeOK, InitFirst, Fork, InUse
  <1>3. /\ ppid'[c] = pid[p]
        /\ \A s \in Slot \ {c} : /\ pid'[s] = pid[s] /\ ppid'[s] = ppid[s]
                                 /\ stage'[s] = stage[s]
    BY DEF Parented, TypeOK, Fork
  <1>4. InitFirst'
    BY <1>2, <1>3, InitSlot DEF Parented, InitFirst
  <1>5. ParentAlive'
    <2> SUFFICES ASSUME stage'[1] = "alive", NEW s \in InUse' \ {1}
                 PROVE  \E q \in Alive' : pid'[q] = ppid'[s]
      BY DEF ParentAlive
    <2>1. stage[1] = "alive"
      BY <1>2, <1>3, InitSlot
    <2>2. \A q \in Alive : q \in Alive' /\ pid'[q] = pid[q]
      BY <1>2, <1>3 DEF Alive, InUse
    <2>3. CASE s = c
      BY <1>3, <2>2, <2>3 DEF Fork, Alive
    <2>4. CASE s \in InUse
      <3>1. PICK q \in Alive : pid[q] = ppid[s]
        BY <2>1, <2>4 DEF Parented, ParentAlive
      <3>2. s \in Slot \ {c}
        BY <1>2, <2>4 DEF InUse
      <3> QED
        BY <1>3, <2>2, <3>1, <3>2
    <2> QED
      BY <1>2, <2>3, <2>4
  <1> QED
    BY <1>1, <1>4, <1>5 DEF Parented

\* Whoever has a parent with the number of one who dies gets init; another
\* process may have had that number, too.
LEMMA SettleParented ==
  ASSUME Parented, NEW D \in SUBSET Alive, NEW A \in SUBSET Dead, Settle(D, A)
  PROVE  Parented'
  <1>1. /\ stage' \in [Slot -> {"none", "alive", "dead"}]
        /\ ppid' \in [Slot -> Nat] /\ pid' = pid /\ pidNum' = pidNum
    BY DEF Parented, TypeOK, Settle
  <1>2. TypeOK'
    BY <1>1 DEF Parented, TypeOK
  <1>3. InUse' = InUse
    BY DEF Settle, InUse, Alive
  <1>4. stage[1] = "alive" /\ stage'[1] = "alive" /\ 1 \in Alive'
    BY InitSlot DEF Settle, Alive
  <1>5. InitFirst'
    BY <1>1, <1>4 DEF Parented, InitFirst
  <1>6. ParentAlive'
    <2> SUFFICES ASSUME NEW s \in InUse \ {1}
                 PROVE  \E q \in Alive' : pid[q] = ppid'[s]
      BY <1>1, <1>3 DEF ParentAlive
    <2>1. CASE ppid'[s] = 1
      BY <1>4, <2>1 DEF Parented, InitFirst
    <2>2. CASE ppid'[s] = ppid[s] /\ \A d \in D : ppid[s] # pid[d]
      <3>1. PICK q \in Alive : pid[q] = ppid[s]
        BY <1>4 DEF Parented, ParentAlive
      <3>2. q \in Alive'
        BY <2>2, <3>1 DEF Settle, Alive
      <3> QED
        BY <2>2, <3>1, <3>2
    <2>3. \/ ppid'[s] = 1
          \/ ppid'[s] = ppid[s] /\ \A d \in D : ppid[s] # pid[d]
      BY DEF Settle, InUse
    <2> QED
      BY <2>1, <2>2, <2>3
  <1> QED
    BY <1>2, <1>5, <1>6 DEF Parented

\* Only the dead are collected, and they are nobody's parent.
LEMMA CollectParented ==
  ASSUME Parented, NEW z \in Dead, NEW A \in SUBSET Dead, Collect(z, A)
  PROVE  Parented'
  <1>1. /\ stage' = [stage EXCEPT ![z] = "none"] /\ stage[1] = "alive"
        /\ pid' = pid /\ pidNum' = pidNum /\ z \in Slot /\ z # 1
    BY DEF Collect, Dead
  <1>2. TypeOK'
    BY <1>1 DEF Parented, TypeOK, Collect
  <1>3. InUse' = InUse \ {z}
    BY <1>1 DEF Parented, TypeOK, InUse
  <1>4. Alive' = Alive /\ 1 \in Alive /\ stage'[1] = "alive"
    BY <1>1, InitSlot DEF Parented, TypeOK, Alive, Dead
  <1>5. InitFirst'
    BY <1>1, <1>4 DEF Parented, InitFirst
  <1>6. ParentAlive'
    <2> SUFFICES ASSUME NEW s \in InUse' \ {1}
                 PROVE  \E q \in Alive : pid[q] = ppid'[s]
      BY <1>1, <1>4 DEF ParentAlive
    <2>1. \E q \in Alive : pid[q] = ppid[s]
      BY <1>1, <1>3 DEF Parented, ParentAlive
    <2>2. ppid'[s] = 1 \/ ppid'[s] = ppid[s]
      BY <1>3 DEF Collect, InUse
    <2> QED
      BY <1>4, <2>1, <2>2 DEF Parented, InitFirst
  <1> QED
    BY <1>2, <1>5, <1>6 DEF Parented

\* Nor does a hang-up take away anything but dead processes.
LEMMA HangUpParented ==
  ASSUME Parented, NEW F \in SUBSET Dead, HangUp(F)
  PROVE  Parented'
  <1>1. /\ \A s \in Slot : stage'[s] = IF s \in F THEN "none" ELSE stage[s]
        /\ \A s \in Slot : ppid'[s] = IF s \in F THEN 0 ELSE ppid[s]
        /\ stage[1] = "alive" /\ pid' = pid
    BY DEF HangUp
  <1>2. TypeOK'
    BY DEF HangUp, Parented, TypeOK
  <1>3. InUse' = InUse \ F
    BY <1>1 DEF InUse
  <1>4. Alive' = Alive /\ 1 \in Alive /\ 1 \notin F
    BY <1>1, InitSlot DEF Alive, Dead
  <1>5. InitFirst'
    BY <1>1, <1>4, InitSlot DEF Parented, InitFirst
  <1>6. ParentAlive'
    <2> SUFFICES ASSUME NEW s \in InUse' \ {1}
                 PROVE  \E q \in Alive : pid[q] = ppid'[s]
      BY <1>1, <1>4 DEF ParentAlive
    <2>1. ppid'[s] = ppid[s] /\ s \in InUse \ {1}
      BY <1>1, <1>3 DEF InUse
    <2> QED
      BY <1>1, <2>1 DEF Parented, ParentAlive
  <1> QED
    BY <1>2, <1>5, <1>6 DEF Parented

\* Once init is gone nobody has to have a parent.
LEMMA CollapseParented ==
  ASSUME Parented, Collapse
  PROVE  Parented'
  <1>1. TypeOK'
    BY DEF Parented, TypeOK, Collapse
  <1>2. pid' = pid /\ stage'[1] = "dead"
    BY DEF Collapse
  <1>3. InitFirst' /\ ParentAlive'
    BY <1>2 DEF Parented, InitFirst, ParentAlive
  <1> QED
    BY <1>1, <1>3 DEF Parented

\* Every step of the specification keeps the invariant.
LEMMA StepParented ==
  ASSUME Parented, [Next]_family
  PROVE  Parented'
  <1>1. CASE \E p, c \in Slot : Fork(p, c)
    BY <1>1, ForkParented
  <1>2. CASE \E D \in SUBSET Alive, A \in SUBSET Dead : Settle(D, A)
    BY <1>2, SettleParented
  <1>3. CASE \E z \in Dead : \E A \in SUBSET Dead : Collect(z, A)
    BY <1>3, CollectParented
  <1>4. CASE \E F \in SUBSET Dead : HangUp(F)
    BY <1>4, HangUpParented
  <1>5. CASE Collapse
    BY <1>5, CollapseParented
  <1>6. CASE UNCHANGED family
    BY <1>6 DEF family, Parented, TypeOK, InitFirst, ParentAlive, InUse, Alive
  <1> QED
    BY <1>1, <1>2, <1>3, <1>4, <1>5, <1>6 DEF Next

LEMMA InitParented == Init => Parented
  <1> SUFFICES ASSUME Init PROVE Parented
    OBVIOUS
  <1>1. InUse = {1} /\ 1 \in Slot
    BY InitSlot DEF Init, InUse
  <1>2. TypeOK
    BY DEF Init, TypeOK
  <1>3. InitFirst /\ ParentAlive
    BY <1>1 DEF Init, InitFirst, ParentAlive
  <1> QED
    BY <1>2, <1>3 DEF Parented

-----------------------------------------------------------------------------
(***************************************************************************)
(* The numbers, without hang-ups.                                          *)
(***************************************************************************)
\* Initially there is init alone.
LEMMA FamilyInit == Init => FamilyInv
  <1> SUFFICES ASSUME Init PROVE FamilyInv
    OBVIOUS
  <1>1. InUse = {1} /\ 1 \in Slot
    BY InitSlot DEF Init, InUse
  <1>2. PidsUnique /\ Numbered /\ ParentOlder
    BY <1>1 DEF Init, PidsUnique, Numbered, ParentOlder
  <1> QED
    BY <1>2, InitParented DEF FamilyInv

\* A child gets the next PID.
LEMMA ForkKeeps ==
  ASSUME FamilyInv, NEW p \in Slot, NEW c \in Slot, Fork(p, c)
  PROVE  PidsUnique' /\ Numbered' /\ ParentOlder'
  <1>1. InUse' = InUse \cup {c} /\ c \notin InUse /\ c # 1 /\ p \in InUse
    BY DEF FamilyInv, Parented, TypeOK, InitFirst, Fork, InUse
  <1>2. /\ pid'[c] = pidNum /\ ppid'[c] = pid[p] /\ pidNum' = pidNum + 1
        /\ \A s \in InUse : /\ pid'[s] = pid[s] /\ ppid'[s] = ppid[s]
                            /\ stage'[s] = stage[s]
    BY <1>1 DEF FamilyInv, Parented, TypeOK, Fork, InUse
  <1>3. pidNum \in Nat /\ \A s \in InUse : pid[s] \in Nat /\ pid[s] >= 1 /\ pid[s] < pidNum
    BY DEF FamilyInv, Parented, TypeOK, Numbered, InUse
  <1>4. PidsUnique'
    BY <1>1, <1>2, <1>3 DEF FamilyInv, PidsUnique
  <1>5. Numbered'
    <2>1. pidNum >= 1
      BY <1>1, <1>3
    <2> QED
      BY <1>1, <1>2, <1>3, <2>1 DEF Numbered
  <1>6. ParentOlder'
    <2> SUFFICES ASSUME stage'[1] = "alive", NEW s \in InUse' \ {1}
                 PROVE  ppid'[s] < pid'[s]
      BY DEF ParentOlder
    <2>1. stage[1] = "alive"
      BY <1>2, InitSlot DEF FamilyInv, Parented, InitFirst, InUse
    <2>2. CASE s = c
      BY <1>1, <1>2, <1>3, <2>2
    <2>3. CASE s \in InUse
      BY <1>2, <2>1, <2>3 DEF FamilyInv, ParentOlder
    <2> QED
      BY <1>1, <2>2, <2>3
  <1> QED
    BY <1>4, <1>5, <1>6

\* Whoever gets another parent gets init.
LEMMA SettleKeeps ==
  ASSUME FamilyInv, NEW D \in SUBSET Alive, NEW A \in SUBSET Dead, Settle(D, A)
  PROVE  PidsUnique' /\ Numbered' /\ ParentOlder'
  <1>1. InUse' = InUse /\ pid' = pid /\ pidNum' = pidNum /\ stage[1] = "alive"
    BY DEF Settle, InUse, Alive
  <1>2. PidsUnique' /\ Numbered'
    BY <1>1 DEF FamilyInv, PidsUnique, Numbered
  <1>3. ParentOlder'
    <2> SUFFICES ASSUME NEW s \in InUse \ {1}
                 PROVE  ppid'[s] < pid[s]
      BY <1>1 DEF ParentOlder
    <2>1. 1 < pid[s] /\ ppid[s] < pid[s]
      BY <1>1, InitSmallest DEF FamilyInv, ParentOlder
    <2>2. ppid'[s] = 1 \/ ppid'[s] = ppid[s]
      BY DEF Settle, InUse
    <2> QED
      BY <2>1, <2>2
  <1> QED
    BY <1>2, <1>3

LEMMA CollectKeeps ==
  ASSUME FamilyInv, NEW z \in Dead, NEW A \in SUBSET Dead, Collect(z, A)
  PROVE  PidsUnique' /\ Numbered' /\ ParentOlder'
  <1>1. InUse' = InUse \ {z} /\ pid' = pid /\ pidNum' = pidNum /\ stage[1] = "alive"
    BY DEF FamilyInv, Parented, TypeOK, Collect, Dead, InUse
  <1>2. PidsUnique' /\ Numbered'
    BY <1>1 DEF FamilyInv, PidsUnique, Numbered
  <1>3. ParentOlder'
    <2> SUFFICES ASSUME NEW s \in InUse' \ {1}
                 PROVE  ppid'[s] < pid[s]
      BY <1>1 DEF ParentOlder
    <2>1. 1 < pid[s] /\ ppid[s] < pid[s]
      BY <1>1, InitSmallest DEF FamilyInv, ParentOlder
    <2>2. ppid'[s] = 1 \/ ppid'[s] = ppid[s]
      BY <1>1 DEF Collect, InUse
    <2> QED
      BY <2>1, <2>2
  <1> QED
    BY <1>2, <1>3

\* Once init is gone nothing is promised but that nobody appears or revives.
LEMMA CollapseKeeps ==
  ASSUME FamilyInv, Collapse
  PROVE  PidsUnique' /\ Numbered' /\ ParentOlder'
  <1>1. InUse' \subseteq InUse /\ pid' = pid /\ pidNum' = pidNum /\ stage'[1] = "dead"
    BY DEF Collapse, InUse
  <1> QED
    BY <1>1 DEF FamilyInv, PidsUnique, Numbered, ParentOlder

\* Every step of the specification keeps the invariant.
LEMMA FamilyStep ==
  ASSUME ~ HangUps, FamilyInv, [Next]_family
  PROVE  FamilyInv'
  <1>1. Parented'
    BY StepParented DEF FamilyInv
  <1>2. CASE \E p, c \in Slot : Fork(p, c)
    BY <1>1, <1>2, ForkKeeps DEF FamilyInv
  <1>3. CASE \E D \in SUBSET Alive, A \in SUBSET Dead : Settle(D, A)
    BY <1>1, <1>3, SettleKeeps DEF FamilyInv
  <1>4. CASE \E z \in Dead : \E A \in SUBSET Dead : Collect(z, A)
    BY <1>1, <1>4, CollectKeeps DEF FamilyInv
  <1>5. CASE Collapse
    BY <1>1, <1>5, CollapseKeeps DEF FamilyInv
  <1>6. CASE UNCHANGED family
    BY <1>1, <1>6 DEF family, FamilyInv, PidsUnique, Numbered, ParentOlder, InUse
  <1> QED
    BY <1>2, <1>3, <1>4, <1>5, <1>6 DEF Next, HangUp

-----------------------------------------------------------------------------
(***************************************************************************)
(* The results.                                                            *)
(***************************************************************************)
\* Everybody has a living parent, in every reachable state, hang-ups or not.
LEMMA AlwaysParented == Spec => []Parented
  BY InitParented, StepParented, PTL DEF Spec

\* The inductive invariant holds in every reachable state before a hang-up.
THEOREM FamilyInvariant ==
  ASSUME ~ HangUps
  PROVE  Spec => []FamilyInv
  BY FamilyInit, FamilyStep, PTL DEF Spec

\* Type correctness.
THEOREM FamilyTypeOK == Spec => []TypeOK
  BY AlwaysParented, PTL DEF Parented

\* However processes fork, die together, are adopted and are taken away by a
\* hang-up, nobody is left without a living parent before init dies, although
\* after a hang-up the parent and another process may have one PID.
THEOREM FamilyParentAlive == Spec => []ParentAlive
  BY AlwaysParented, PTL DEF Parented

\* Until a hang-up, a PID that alloc_new_process gave out names one process, for
\* every size of the process table: living and dead processes, parents and
\* adopted children.
THEOREM FamilyPidsUnique ==
  ASSUME ~ HangUps
  PROVE  Spec => []PidsUnique
  <1>1. FamilyInv => PidsUnique
    BY DEF FamilyInv
  <1> QED
    BY <1>1, FamilyInvariant, PTL

\* Until a hang-up, parents are older than their children, so the parent relation
\* has no cycle and the walk up from any process ends at init.
THEOREM FamilyParentOlder ==
  ASSUME ~ HangUps
  PROVE  Spec => []ParentOlder
  <1>1. FamilyInv => ParentOlder
    BY DEF FamilyInv
  <1> QED
    BY <1>1, FamilyInvariant, PTL
=============================================================================
