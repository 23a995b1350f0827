------------------------------ MODULE KinProofs ------------------------------
(***************************************************************************)
(* Seen as a family tree, the kernel implements Family, and the foreground *)
(* process is alive.                                                       *)
(*                                                                         *)
(* A step of the kernel changes the family in one way only: a process      *)
(* dies, is born or is collected, or init takes over some of the dead.     *)
(* The functions a step consists of are therefore compared with the state  *)
(* in which the step begins: Folk(k, D, R, f) are the states in which the  *)
(* processes of k are as they were, except that those in D have died, the  *)
(* parents are those of R and the foreground process is f.                 *)
(***************************************************************************)
EXTENDS QueueProofs

-----------------------------------------------------------------------------
\* What programs must not do for the family to remain whole: in addition to
\* OrderlyUse, no process is stopped.  (The children of a stopped job are left
\* with a dead parent when the job dies with its own parent.)
FamilyUse == OrderlyUse /\ Sendable \cap {SIGSTOP, SIGTSTP} = {}

-----------------------------------------------------------------------------
(***************************************************************************)
(* States that differ in the deaths D, the parents R and the foreground f. *)
(***************************************************************************)
InUse(k, q) == k.proc[q].state # "UNUSED"

Parents(k) == [q \in Users |-> k.proc[q].ppid]

Member(a, b, dies, parent) ==
  /\ b.pid = a.pid /\ b.ppid = parent
  /\ b.state = "UNUSED" <=> a.state = "UNUSED"
  /\ b.state = "KILLED" <=> a.state = "KILLED" \/ dies
  /\ b.state # "STOPPED"
  /\ b.state = "KILLED" => b.event = b.pid

Folk(k, D, R, f) ==
  {kk \in KState : /\ kk.pidNum = k.pidNum /\ kk.suspended = <<>> /\ kk.fg = f
                   /\ \A q \in Users : Member(k.proc[q], kk.proc[q], q \in D, R[q])}

\* Two entries of the table that say the same of the family
Alike(a, b) ==
  /\ b.pid = a.pid /\ b.ppid = a.ppid
  /\ b.state = "UNUSED" <=> a.state = "UNUSED"
  /\ b.state = "KILLED" <=> a.state = "KILLED"
  /\ b.state = "STOPPED" => a.state = "STOPPED"
  /\ a.state = "KILLED" => b.event = a.event

LEMMA FolkFacts ==
  ASSUME NEW k0, NEW D, NEW R, NEW f, NEW k \in Folk(k0, D, R, f)
  PROVE  /\ k \in KState /\ k \in KRecord /\ k \in Near(k)
         /\ k.pidNum = k0.pidNum /\ k.suspended = <<>> /\ k.fg = f
         /\ \A q \in Users : /\ InUse(k, q) <=> InUse(k0, q)
                             /\ k.proc[q].pid = k0.proc[q].pid
                             /\ k.proc[q].ppid = R[q]
                             /\ k.proc[q].state = "KILLED" <=> k0.proc[q].state = "KILLED" \/ q \in D
                             /\ Alive(k, q) <=> Alive(k0, q) /\ q \notin D
                             /\ k.proc[q].state # "STOPPED"
  <1>1. k \in KState /\ k \in KRecord /\ k \in Near(k)
    BY DEF Folk, KState, Near
  <1>2. \A q \in Users : Member(k0.proc[q], k.proc[q], q \in D, R[q])
    BY DEF Folk
  <1> QED
    BY <1>1, <1>2 DEF Folk, Member, Alive, InUse

LEMMA FolkAlike ==
  ASSUME NEW k0, NEW D, NEW R, NEW f, NEW k \in Folk(k0, D, R, f), NEW kk \in KState,
         kk.pidNum = k.pidNum, kk.suspended = <<>>, NEW g, kk.fg = g,
         \A q \in Users : Alike(k.proc[q], kk.proc[q])
  PROVE  kk \in Folk(k0, D, R, g)
  <1>1. \A q \in Users : Member(k0.proc[q], k.proc[q], q \in D, R[q])
    BY DEF Folk
  <1>2. \A q \in Users : Member(k0.proc[q], kk.proc[q], q \in D, R[q])
    BY <1>1 DEF Member, Alike
  <1> QED
    BY <1>2 DEF Folk

\* Only lists, the CPU, the mode and the foreground change.
LEMMA FolkSame ==
  ASSUME NEW k0, NEW D, NEW R, NEW f, NEW k \in Folk(k0, D, R, f), NEW kk \in KState,
         kk.pidNum = k.pidNum, kk.suspended = k.suspended, kk.proc = k.proc
  PROVE  kk \in Folk(k0, D, R, kk.fg)
  BY DEF Folk

LEMMA FolkQueue ==
  ASSUME NEW k0, NEW D, NEW R, NEW f, NEW k \in Folk(k0, D, R, f), NEW v \in Queue(Users)
  PROVE  /\ [k EXCEPT !.ready = v] \in Folk(k0, D, R, f)
         /\ [k EXCEPT !.waiting = v] \in Folk(k0, D, R, f)
         /\ [k EXCEPT !.zombies = v] \in Folk(k0, D, R, f)
  <1>1. k \in KState /\ k \in KRecord /\ k.fg = f
    BY FolkFacts
  <1>2. [k EXCEPT !.ready = v] \in Folk(k0, D, R, f)
    <2>1. [k EXCEPT !.ready = v] \in KState
      BY <1>1 DEF KState, KRecord
    <2> QED
      BY <1>1, <2>1, FolkSame DEF KRecord
  <1>3. [k EXCEPT !.waiting = v] \in Folk(k0, D, R, f)
    <2>1. [k EXCEPT !.waiting = v] \in KState
      BY <1>1 DEF KState, KRecord
    <2> QED
      BY <1>1, <2>1, FolkSame DEF KRecord
  <1>4. [k EXCEPT !.zombies = v] \in Folk(k0, D, R, f)
    <2>1. [k EXCEPT !.zombies = v] \in KState
      BY <1>1 DEF KState, KRecord
    <2> QED
      BY <1>1, <2>1, FolkSame DEF KRecord
  <1> QED
    BY <1>2, <1>3, <1>4

LEMMA FolkForeground ==
  ASSUME NEW k0, NEW D, NEW R, NEW f, NEW k \in Folk(k0, D, R, f), NEW g \in Users \cup {NULL}
  PROVE  [k EXCEPT !.fg = g] \in Folk(k0, D, R, g)
  <1>1. k \in KState /\ k \in KRecord
    BY FolkFacts
  <1>2. [k EXCEPT !.fg = g] \in KState
    BY <1>1 DEF KState, KRecord
  <1> QED
    BY <1>1, <1>2, FolkSame DEF KRecord

LEMMA FolkMode ==
  ASSUME NEW k0, NEW D, NEW R, NEW f, NEW k \in Folk(k0, D, R, f), NEW m \in Mode \ {"kernel"}
  PROVE  [k EXCEPT !.mode = m] \in Folk(k0, D, R, f)
  <1>1. k \in KState /\ k \in KRecord /\ k.fg = f
    BY FolkFacts
  <1>2. [k EXCEPT !.mode = m] \in KState
    BY <1>1 DEF KState, KRecord
  <1> QED
    BY <1>1, <1>2, FolkSame DEF KRecord

LEMMA FolkTable ==
  ASSUME NEW k0, NEW D, NEW R, NEW f, NEW k \in Folk(k0, D, R, f), NEW t \in [Slots -> ProcessOK],
         t[Idle].proxied = <<>>, \A q \in Users : Alike(k.proc[q], t[q])
  PROVE  [k EXCEPT !.proc = t] \in Folk(k0, D, R, f)
  <1> DEFINE kk == [k EXCEPT !.proc = t]
  <1>1. k \in KState /\ k \in KRecord /\ k \in Near(k) /\ k.suspended = <<>> /\ k.fg = f
    BY FolkFacts
  <1>2. kk \in KState
    <2>1. kk \in Near(k)
      BY <1>1, SetTable
    <2> QED
      BY <2>1, StateFacts
  <1>3. kk.pidNum = k.pidNum /\ kk.suspended = k.suspended /\ kk.fg = k.fg /\ kk.proc = t
    BY <1>1 DEF KRecord
  <1> HIDE DEF kk
  <1>4. kk \in Folk(k0, D, R, f)
    BY <1>1, <1>2, <1>3, FolkAlike
  <1> QED
    BY <1>4 DEF kk

LEMMA FolkProcess ==
  ASSUME NEW k0, NEW D, NEW R, NEW f, NEW k \in Folk(k0, D, R, f), NEW p \in Slots,
         NEW r \in ProcessOK, p = Idle => r.proxied = <<>>, p \in Users => Alike(k.proc[p], r)
  PROVE  [k EXCEPT !.proc[p] = r] \in Folk(k0, D, R, f)
  <1> DEFINE kk == [k EXCEPT !.proc[p] = r]
  <1>1. k \in KState /\ k \in KRecord /\ k \in Near(k) /\ k.suspended = <<>> /\ k.fg = f
    BY FolkFacts
  <1>2. kk \in KState
    <2>1. kk \in Near(k)
      BY <1>1, SetProcess
    <2> QED
      BY <2>1, StateFacts
  <1>3. /\ kk.pidNum = k.pidNum /\ kk.fg = k.fg /\ kk.suspended = k.suspended
        /\ \A q \in Users : kk.proc[q] = IF q = p THEN r ELSE k.proc[q]
    BY <1>1, Sets DEF KRecord
  <1> HIDE DEF kk
  <1>4. \A q \in Users : Alike(k.proc[q], kk.proc[q])
    <2>1. \A q \in Users : Alike(k.proc[q], k.proc[q])
      BY DEF Alike
    <2> QED
      BY <1>3, <2>1
  <1>5. kk \in Folk(k0, D, R, f)
    BY <1>1, <1>2, <1>3, <1>4, FolkAlike
  <1> QED
    BY <1>5 DEF kk

\* One field of a process changes.
LEMMA FolkField ==
  ASSUME NEW k0, NEW D, NEW R, NEW f, NEW k \in Folk(k0, D, R, f), NEW p \in Slots
  PROVE  /\ \A v \in -1 .. MaxPid : [k EXCEPT !.proc[p].wpid = v] \in Folk(k0, D, R, f)
         /\ \A v \in BOOLEAN : [k EXCEPT !.proc[p].daemon = v] \in Folk(k0, D, R, f)
         /\ \A v \in Nat : [k EXCEPT !.proc[p].jobs = v] \in Folk(k0, D, R, f)
         /\ \A v \in Nat : [k EXCEPT !.proc[p].job = v] \in Folk(k0, D, R, f)
         /\ \A v \in SignalSet : [k EXCEPT !.proc[p].signals = v] \in Folk(k0, D, R, f)
         /\ \A v \in [Known -> {"NULL", "DEFAULT", "USER"}] : [k EXCEPT !.proc[p].handlers = v] \in Folk(k0, D, R, f)
         /\ \A v \in CallOK : [k EXCEPT !.proc[p].call = v] \in Folk(k0, D, R, f)
         /\ \A v \in BOOLEAN : [k EXCEPT !.proc[p].inKernel = v] \in Folk(k0, D, R, f)
         /\ \A v \in 0 .. MaxSleep : [k EXCEPT !.proc[p].left = v] \in Folk(k0, D, R, f)
         /\ p # Idle =>
               \A v \in Seq(CallOK) : [k EXCEPT !.proc[p].proxied = v] \in Folk(k0, D, R, f)
         /\ k.proc[p].state # "KILLED" \/ p = Idle =>
               \A v \in NONE .. MaxPid : [k EXCEPT !.proc[p].event = v] \in Folk(k0, D, R, f)
         /\ k.proc[p].state \notin {"UNUSED", "KILLED"} \/ p = Idle =>
               \A v \in {"RUNNING", "READY", "SLEEP"} : [k EXCEPT !.proc[p].state = v] \in Folk(k0, D, R, f)
  <1>1. k.proc[p] \in ProcessOK /\ (p = Idle => k.proc[p].proxied = <<>>)
    BY FolkFacts, StateFacts
  <1>2. ASSUME NEW r \in ProcessOK, p = Idle => r.proxied = <<>>, p \in Users => Alike(k.proc[p], r)
        PROVE  [k EXCEPT !.proc[p] = r] \in Folk(k0, D, R, f)
    BY <1>2, FolkProcess
  <1>3. p \in Users => p # Idle
    BY Sets
  <1> DEFINE o == k.proc[p]
  <1>4. ASSUME NEW v \in -1 .. MaxPid
        PROVE  [k EXCEPT !.proc[p].wpid = v] \in Folk(k0, D, R, f)
    <2> DEFINE r == [o EXCEPT !.wpid = v]
    <2>1. r \in ProcessOK
      BY <1>1, FieldFacts
    <2>2. r.pid = o.pid /\ r.ppid = o.ppid /\ r.state = o.state /\ r.event = o.event /\ r.proxied = o.proxied
      BY <1>1 DEF ProcessOK
    <2> HIDE DEF r
    <2>3. /\ p = Idle => r.proxied = <<>>
          /\ p \in Users => Alike(k.proc[p], r)
      BY <1>1, <1>3, <2>2 DEF Alike
    <2> QED
      BY <1>2, <2>1, <2>3 DEF r
  <1>5. ASSUME NEW v \in BOOLEAN
        PROVE  [k EXCEPT !.proc[p].daemon = v] \in Folk(k0, D, R, f)
    <2> DEFINE r == [o EXCEPT !.daemon = v]
    <2>1. r \in ProcessOK
      BY <1>1, FieldFacts
    <2>2. r.pid = o.pid /\ r.ppid = o.ppid /\ r.state = o.state /\ r.event = o.event /\ r.proxied = o.proxied
      BY <1>1 DEF ProcessOK
    <2> HIDE DEF r
    <2>3. /\ p = Idle => r.proxied = <<>>
          /\ p \in Users => Alike(k.proc[p], r)
      BY <1>1, <1>3, <2>2 DEF Alike
    <2> QED
      BY <1>2, <2>1, <2>3 DEF r
  <1>6. ASSUME NEW v \in Nat
        PROVE  [k EXCEPT !.proc[p].jobs = v] \in Folk(k0, D, R, f)
    <2> DEFINE r == [o EXCEPT !.jobs = v]
    <2>1. r \in ProcessOK
      BY <1>1, FieldFacts
    <2>2. r.pid = o.pid /\ r.ppid = o.ppid /\ r.state = o.state /\ r.event = o.event /\ r.proxied = o.proxied
      BY <1>1 DEF ProcessOK
    <2> HIDE DEF r
    <2>3. /\ p = Idle => r.proxied = <<>>
          /\ p \in Users => Alike(k.proc[p], r)
      BY <1>1, <1>3, <2>2 DEF Alike
    <2> QED
      BY <1>2, <2>1, <2>3 DEF r
  <1>7. ASSUME NEW v \in Nat
        PROVE  [k EXCEPT !.proc[p].job = v] \in Folk(k0, D, R, f)
    <2> DEFINE r == [o EXCEPT !.job = v]
    <2>1. r \in ProcessOK
      BY <1>1, FieldFacts
    <2>2. r.pid = o.pid /\ r.ppid = o.ppid /\ r.state = o.state /\ r.event = o.event /\ r.proxied = o.proxied
      BY <1>1 DEF ProcessOK
    <2> HIDE DEF r
    <2>3. /\ p = Idle => r.proxied = <<>>
          /\ p \in Users => Alike(k.proc[p], r)
      BY <1>1, <1>3, <2>2 DEF Alike
    <2> QED
      BY <1>2, <2>1, <2>3 DEF r
  <1>8. ASSUME NEW v \in SignalSet
        PROVE  [k EXCEPT !.proc[p].signals = v] \in Folk(k0, D, R, f)
    <2> DEFINE r == [o EXCEPT !.signals = v]
    <2>1. r \in ProcessOK
      BY <1>1, FieldFacts
    <2>2. r.pid = o.pid /\ r.ppid = o.ppid /\ r.state = o.state /\ r.event = o.event /\ r.proxied = o.proxied
      BY <1>1 DEF ProcessOK
    <2> HIDE DEF r
    <2>3. /\ p = Idle => r.proxied = <<>>
          /\ p \in Users => Alike(k.proc[p], r)
      BY <1>1, <1>3, <2>2 DEF Alike
    <2> QED
      BY <1>2, <2>1, <2>3 DEF r
  <1>9. ASSUME NEW v \in [Known -> {"NULL", "DEFAULT", "USER"}]
        PROVE  [k EXCEPT !.proc[p].handlers = v] \in Folk(k0, D, R, f)
    <2> DEFINE r == [o EXCEPT !.handlers = v]
    <2>1. r \in ProcessOK
      BY <1>1, FieldFacts
    <2>2. r.pid = o.pid /\ r.ppid = o.ppid /\ r.state = o.state /\ r.event = o.event /\ r.proxied = o.proxied
      BY <1>1 DEF ProcessOK
    <2> HIDE DEF r
    <2>3. /\ p = Idle => r.proxied = <<>>
          /\ p \in Users => Alike(k.proc[p], r)
      BY <1>1, <1>3, <2>2 DEF Alike
    <2> QED
      BY <1>2, <2>1, <2>3 DEF r
  <1>10. ASSUME NEW v \in CallOK
        PROVE  [k EXCEPT !.proc[p].call = v] \in Folk(k0, D, R, f)
    <2> DEFINE r == [o EXCEPT !.call = v]
    <2>1. r \in ProcessOK
      BY <1>1, FieldFacts
    <2>2. r.pid = o.pid /\ r.ppid = o.ppid /\ r.state = o.state /\ r.event = o.event /\ r.proxied = o.proxied
      BY <1>1 DEF ProcessOK
    <2> HIDE DEF r
    <2>3. /\ p = Idle => r.proxied = <<>>
          /\ p \in Users => Alike(k.proc[p], r)
      BY <1>1, <1>3, <2>2 DEF Alike
    <2> QED
      BY <1>2, <2>1, <2>3 DEF r
  <1>11. ASSUME NEW v \in BOOLEAN
        PROVE  [k EXCEPT !.proc[p].inKernel = v] \in Folk(k0, D, R, f)
    <2> DEFINE r == [o EXCEPT !.inKernel = v]
    <2>1. r \in ProcessOK
      BY <1>1, FieldFacts
    <2>2. r.pid = o.pid /\ r.ppid = o.ppid /\ r.state = o.state /\ r.event = o.event /\ r.proxied = o.proxied
      BY <1>1 DEF ProcessOK
    <2> HIDE DEF r
    <2>3. /\ p = Idle => r.proxied = <<>>
          /\ p \in Users => Alike(k.proc[p], r)
      BY <1>1, <1>3, <2>2 DEF Alike
    <2> QED
      BY <1>2, <2>1, <2>3 DEF r
  <1>12. ASSUME NEW v \in 0 .. MaxSleep
        PROVE  [k EXCEPT !.proc[p].left = v] \in Folk(k0, D, R, f)
    <2> DEFINE r == [o EXCEPT !.left = v]
    <2>1. r \in ProcessOK
      BY <1>1, FieldFacts
    <2>2. r.pid = o.pid /\ r.ppid = o.ppid /\ r.state = o.state /\ r.event = o.event /\ r.proxied = o.proxied
      BY <1>1 DEF ProcessOK
    <2> HIDE DEF r
    <2>3. /\ p = Idle => r.proxied = <<>>
          /\ p \in Users => Alike(k.proc[p], r)
      BY <1>1, <1>3, <2>2 DEF Alike
    <2> QED
      BY <1>2, <2>1, <2>3 DEF r
  <1>13. ASSUME NEW v \in Seq(CallOK),
               p # Idle
        PROVE  [k EXCEPT !.proc[p].proxied = v] \in Folk(k0, D, R, f)
    <2> DEFINE r == [o EXCEPT !.proxied = v]
    <2>1. r \in ProcessOK
      BY <1>13, <1>1, FieldFacts
    <2>2. r.pid = o.pid /\ r.ppid = o.ppid /\ r.state = o.state /\ r.event = o.event
      BY <1>1 DEF ProcessOK
    <2> HIDE DEF r
    <2>3. /\ p = Idle => r.proxied = <<>>
          /\ p \in Users => Alike(k.proc[p], r)
      BY <1>13, <1>1, <1>3, <2>2 DEF Alike
    <2> QED
      BY <1>2, <2>1, <2>3 DEF r
  <1>14. ASSUME NEW v \in NONE .. MaxPid,
               k.proc[p].state # "KILLED" \/ p = Idle
        PROVE  [k EXCEPT !.proc[p].event = v] \in Folk(k0, D, R, f)
    <2> DEFINE r == [o EXCEPT !.event = v]
    <2>1. r \in ProcessOK
      BY <1>14, <1>1, FieldFacts
    <2>2. r.pid = o.pid /\ r.ppid = o.ppid /\ r.state = o.state /\ r.proxied = o.proxied
      BY <1>1 DEF ProcessOK
    <2> HIDE DEF r
    <2>3. /\ p = Idle => r.proxied = <<>>
          /\ p \in Users => Alike(k.proc[p], r)
      BY <1>14, <1>1, <1>3, <2>2 DEF Alike
    <2> QED
      BY <1>2, <2>1, <2>3 DEF r
  <1>15. ASSUME NEW v \in {"RUNNING", "READY", "SLEEP"},
               k.proc[p].state \notin {"UNUSED", "KILLED"} \/ p = Idle
        PROVE  [k EXCEPT !.proc[p].state = v] \in Folk(k0, D, R, f)
    <2> DEFINE r == [o EXCEPT !.state = v]
    <2>1. r \in ProcessOK
      BY <1>15, <1>1, FieldFacts DEF States
    <2>2. r.pid = o.pid /\ r.ppid = o.ppid /\ r.event = o.event /\ r.proxied = o.proxied /\ r.state = v
      BY <1>1 DEF ProcessOK
    <2> HIDE DEF r
    <2>3. /\ p = Idle => r.proxied = <<>>
          /\ p \in Users => Alike(k.proc[p], r)
      BY <1>15, <1>1, <1>3, <2>2 DEF Alike
    <2> QED
      BY <1>2, <2>1, <2>3 DEF r
  <1> QED
    BY <1>4, <1>5, <1>6, <1>7, <1>8, <1>9, <1>10, <1>11, <1>12, <1>13, <1>14, <1>15

-----------------------------------------------------------------------------
(***************************************************************************)
(* Most functions of the kernel leave the family and the foreground alone. *)
(***************************************************************************)
LEMMA FolkPost ==
  ASSUME NEW k0, NEW D, NEW R, NEW f, NEW k \in Folk(k0, D, R, f), NEW t \in Users, NEW s \in Known
  PROVE  Post(k, t, s) \in Folk(k0, D, R, f)
  <1> DEFINE sigs   == (k.proc[t].signals \ Cancelled(s)) \cup {s}
             marked == [k EXCEPT !.proc[t].signals = sigs]
             m1     == [marked EXCEPT !.waiting = Unlink(marked.waiting, t)]
             m2     == [m1 EXCEPT !.ready = PushBack(m1.ready, t)]
             m3     == [m2 EXCEPT !.proc[t].state = "READY"]
  <1>1. k \in KRecord /\ t \in Slots /\ k.proc[t] \in ProcessOK
    BY FolkFacts, StateAfter, Sets
  <1>2. sigs \in SignalSet
    BY <1>1, ProcessFacts, SignalFacts
  <1>3. marked.proc[t].state = k.proc[t].state
    BY <1>1 DEF KRecord, ProcessOK
  <1> HIDE DEF sigs
  <1>4. marked \in Folk(k0, D, R, f)
    BY <1>1, <1>2, FolkField
  <1> HIDE DEF marked
  <1>5. m1 \in Folk(k0, D, R, f) /\ m1.proc = marked.proc
    <2>1. marked \in KRecord
      BY <1>4, FolkFacts
    <2>2. Unlink(marked.waiting, t) \in Queue(Users)
      BY <2>1, UnlinkFacts DEF KRecord
    <2> QED
      BY <1>4, <2>1, <2>2, FolkQueue DEF KRecord
  <1> HIDE DEF m1
  <1>6. m2 \in Folk(k0, D, R, f) /\ m2.proc = m1.proc
    <2>1. m1 \in KRecord
      BY <1>5, FolkFacts
    <2>2. PushBack(m1.ready, t) \in Queue(Users)
      BY <2>1, PushBackFacts DEF KRecord
    <2> QED
      BY <1>5, <2>1, <2>2, FolkQueue DEF KRecord
  <1> HIDE DEF m2
  <1>7. k.proc[t].state = "SLEEP" => m3 \in Folk(k0, D, R, f)
    <2> SUFFICES ASSUME k.proc[t].state = "SLEEP" PROVE m3 \in Folk(k0, D, R, f)
      OBVIOUS
    <2>1. m2.proc[t].state = "SLEEP"
      BY <1>3, <1>5, <1>6
    <2> QED
      BY <1>1, <1>6, <2>1, FolkField
  <1>8. Post(k, t, s) = IF k.proc[t].state # "SLEEP" THEN marked ELSE m3
    BY DEF Post, marked, m1, m2, sigs
  <1> HIDE DEF m3
  <1> QED
    BY <1>4, <1>7, <1>8

LEMMA FolkPostAll ==
  ASSUME NEW k0, NEW D, NEW R, NEW f, NEW k \in Folk(k0, D, R, f), NEW P, NEW s \in Known
  PROVE  PostAll(k, P, s) \in Folk(k0, D, R, f)
  <1>1. \A kk \in Folk(k0, D, R, f), p \in Users \cap P : Post(kk, p, s) \in Folk(k0, D, R, f)
    BY FolkPost
  <1> QED
    BY <1>1, PostAllLoop

LEMMA FolkKillChildren ==
  ASSUME NEW k0, NEW D, NEW R, NEW f, NEW k \in Folk(k0, D, R, f), NEW p, NEW s \in Known
  PROVE  KillChildren(k, p, s) \in Folk(k0, D, R, f)
  BY FolkPostAll DEF KillChildren

LEMMA FolkSignal ==
  ASSUME NEW k0, NEW D, NEW R, NEW f, NEW k \in Folk(k0, D, R, f), NEW p \in Slots,
         NEW s \in {SIGCHLD, SIGTERM}
  PROVE  [k EXCEPT !.proc[p].signals = k.proc[p].signals \cup {s}] \in Folk(k0, D, R, f)
  <1>1. k.proc[p] \in ProcessOK
    BY FolkFacts, StateAfter
  <1>2. k.proc[p].signals \cup {s} \in SignalSet
    BY <1>1, ProcessFacts, SignalFacts
  <1> QED
    BY <1>2, FolkField

LEMMA FolkKill ==
  ASSUME NEW k0, NEW D, NEW R, NEW f, NEW k \in Folk(k0, D, R, f), NEW p, NEW target, NEW s \in Known,
         target = -1 => s # SIGHUP
  PROVE  Kill(k, p, target, s) \in Folk(k0, D, R, f)
  <1> DEFINE t  == Lookup(k, target)
             A  == {q \in Others(k, p) : Alive(k, q)}
             po == PostAll(k, A, s)
             r1 == [po EXCEPT !.proc[1].signals = po.proc[1].signals \cup {SIGTERM}]
             r2 == [r1 EXCEPT !.proc[Idle].signals = r1.proc[Idle].signals \cup {SIGTERM}]
  <1>1. t \in Users \cup {NULL}
    BY LookupFacts
  <1> HIDE DEF t, A
  <1>2. t # NULL => Post(k, t, s) \in Folk(k0, D, R, f)
    BY <1>1, FolkPost
  <1>3. po \in Folk(k0, D, R, f)
    BY FolkPostAll
  <1>4. target = -1 => KillAll(k, p, s) \in {po, r2}
    <2> SUFFICES ASSUME target = -1 PROVE KillAll(k, p, s) \in {po, r2}
      OBVIOUS
    <2>1. s = SIGTERM => [po EXCEPT !.proc[1].signals = @ \cup {s},
                                    !.proc[Idle].signals = @ \cup {s}] = r2
      OBVIOUS
    <2> HIDE DEF r2
    <2> QED
      BY <2>1 DEF KillAll, po, A, SIGHUP, SIGTERM
  <1> HIDE DEF po
  <1>5. r1 \in Folk(k0, D, R, f)
    BY <1>3, FolkSignal, Sets
  <1> HIDE DEF r1
  <1>6. r2 \in Folk(k0, D, R, f)
    BY <1>5, FolkSignal, Sets
  <1> HIDE DEF r2
  <1>7. Kill(k, p, target, s) = CASE target = -1 -> KillAll(k, p, s)
                                  [] target = 0  -> KillChildren(k, p, s)
                                  [] OTHER       -> IF t = NULL THEN k ELSE Post(k, t, s)
    BY DEF Kill, t
  <1>8. KillChildren(k, p, s) \in Folk(k0, D, R, f)
    BY FolkKillChildren
  <1> QED
    BY <1>2, <1>3, <1>4, <1>6, <1>7, <1>8

\* Only sleeping processes are woken up: nobody else is on the wait list.
LEMMA FolkWakeUp ==
  ASSUME NEW k0, NEW D, NEW R, NEW f, NEW k \in Folk(k0, D, R, f), NEW X, Calm(k, X), NEW ev
  PROVE  WakeUp(k, ev) \in Folk(k0, D, R, f)
  <1> DEFINE called  == {p \in Users : k.proc[p].event = ev}
             resting == Without(k.waiting, ToSet(k.ready))
             woken   == Those(resting, called)
             table   == [p \in Slots |-> IF p \in ToSet(woken)
                                         THEN [k.proc[p] EXCEPT !.event = NONE, !.state = "READY"]
                                         ELSE k.proc[p]]
             kk      == WakeUp(k, ev)
  <1>1. k \in KRecord /\ k \in Near(k) /\ k.waiting \in Queue(Users) /\ k.suspended = <<>> /\ k.fg = f
    BY FolkFacts, StateFacts
  <1>2. kk \in KState
    BY <1>1, WakeUpType, StateFacts
  <1>3. \A q \in Users : q \in ToSet(woken) => k.proc[q].state = "SLEEP"
    <2>1. resting \in Queue(Users) /\ \A q : Contains(resting, q) => Contains(k.waiting, q)
      BY <1>1, WithoutFacts
    <2>2. woken \in Seq(Users) /\ \A q : Contains(woken, q) => Contains(resting, q)
      BY <2>1, ThoseFacts DEF Queue
    <2>3. \A q : q \in ToSet(woken) => Contains(woken, q)
      BY <2>2, ToSetFacts
    <2> QED
      BY <2>1, <2>2, <2>3 DEF Calm, Listed, Held
  <1>4. kk = [k EXCEPT !.waiting = Without(k.waiting, called), !.ready = k.ready \o woken,
                       !.proc = table]
    BY DEF WakeUp
  <1> HIDE DEF woken, called, kk
  <1>5. \A q \in Users : Alike(k.proc[q], table[q])
    <2> SUFFICES ASSUME NEW q \in Users PROVE Alike(k.proc[q], table[q])
      OBVIOUS
    <2>1. k.proc[q] \in ProcessOK /\ q \in Slots
      BY <1>1, Sets, StateAfter
    <2>2. CASE q \in ToSet(woken)
      <3> DEFINE o == k.proc[q]
                 r == [o EXCEPT !.event = NONE, !.state = "READY"]
      <3>1. table[q] = r /\ o.state = "SLEEP"
        BY <1>3, <2>1, <2>2
      <3>2. r.pid = o.pid /\ r.ppid = o.ppid /\ r.state = "READY"
        BY <2>1 DEF ProcessOK
      <3> HIDE DEF r, table
      <3> QED
        BY <3>1, <3>2 DEF Alike
    <2>3. CASE q \notin ToSet(woken)
      BY <2>1, <2>3 DEF Alike
    <2> QED
      BY <2>2, <2>3
  <1> HIDE DEF table
  <1>6. kk.pidNum = k.pidNum /\ kk.suspended = <<>> /\ kk.fg = f /\ kk.proc = table
    BY <1>1, <1>4 DEF KRecord
  <1>7. kk \in Folk(k0, D, R, f)
    BY <1>2, <1>5, <1>6, FolkAlike
  <1> QED
    BY <1>7 DEF kk

LEMMA FolkNotify ==
  ASSUME NEW k0, NEW D, NEW R, NEW f, NEW k \in Folk(k0, D, R, f), NEW parent \in Users \cup {NULL}
  PROVE  Notify(k, parent) \in Folk(k0, D, R, f)
  BY FolkSignal, Sets DEF Notify

LEMMA FolkUnpause ==
  ASSUME NEW k0, NEW D, NEW R, NEW f, NEW k \in Folk(k0, D, R, f), NEW X, Calm(k, X), NEW p
  PROVE  Unpause(k, p) \in Folk(k0, D, R, f)
  BY FolkWakeUp DEF Unpause

LEMMA FolkDequeue ==
  ASSUME NEW k0, NEW D, NEW R, NEW f, NEW k \in Folk(k0, D, R, f), NEW p
  PROVE  Dequeue(k, p) \in Folk(k0, D, R, f)
  <1>1. k \in KRecord
    BY FolkFacts
  <1>2. Unlink(k.ready, p) \in Queue(Users) /\ Unlink(k.waiting, p) \in Queue(Users)
    BY <1>1, UnlinkFacts DEF KRecord
  <1> QED
    BY <1>2, FolkQueue DEF Dequeue

LEMMA FolkResleep ==
  ASSUME NEW k0, NEW D, NEW R, NEW f, NEW k \in Folk(k0, D, R, f), Calm(k, {}), NEW p \in Users
  PROVE  Resleep(k, p) \in Folk(k0, D, R, f)
  <1> DEFINE r1 == [k EXCEPT !.ready = Unlink(k.ready, p)]
             r2 == [r1 EXCEPT !.waiting = PushBack(r1.waiting, p)]
             r3 == [r2 EXCEPT !.proc[p].state = "SLEEP"]
  <1>1. k \in KRecord /\ p \in Slots
    BY FolkFacts, Sets
  <1>2. Unlink(k.ready, p) \in Queue(Users)
    BY <1>1, UnlinkFacts DEF KRecord
  <1>3. r1 \in Folk(k0, D, R, f) /\ r1.proc = k.proc
    BY <1>1, <1>2, FolkQueue DEF KRecord
  <1> HIDE DEF r1
  <1>4. r2 \in Folk(k0, D, R, f) /\ r2.proc = k.proc
    <2>1. r1 \in KRecord
      BY <1>3, FolkFacts
    <2>2. PushBack(r1.waiting, p) \in Queue(Users)
      BY <2>1, PushBackFacts DEF KRecord
    <2> QED
      BY <1>3, <2>1, <2>2, FolkQueue DEF KRecord
  <1> HIDE DEF r2
  <1>5. Contains(k.ready, p) => r3 \in Folk(k0, D, R, f)
    <2> SUFFICES ASSUME Contains(k.ready, p) PROVE r3 \in Folk(k0, D, R, f)
      OBVIOUS
    <2>1. r2.proc[p].state = "READY"
      BY <1>4 DEF Calm, Listed
    <2> QED
      BY <1>1, <1>4, <2>1, FolkField
  <1>6. Resleep(k, p) = IF Contains(k.ready, p) /\ k.proc[p].event # NONE THEN r3 ELSE k
    BY DEF Resleep, r1, r2
  <1> HIDE DEF r3
  <1> QED
    BY <1>5, <1>6

LEMMA FolkRedirect ==
  ASSUME NEW k0, NEW D, NEW R, NEW f, NEW k \in Folk(k0, D, R, f), NEW p \in Users,
         NEW s \in Known, s # SIGCONT
  PROVE  Redirect(k, p, s) \in Folk(k0, D, R, f)
  <1> DEFINE px == Append(k.proc[p].proxied, k.proc[p].call)
             r1 == [k EXCEPT !.proc[p].proxied = px]
             h  == [r1.proc[p].handlers EXCEPT ![s] = DefHandlers[s]]
             r2 == [r1 EXCEPT !.proc[p].handlers = h]
  <1>1. k \in KRecord /\ p \in Slots /\ p # Idle /\ k.proc[p] \in ProcessOK
    BY FolkFacts, Sets, StateAfter
  <1>2. px \in Seq(CallOK)
    BY <1>1, ProcessFacts
  <1> HIDE DEF px
  <1>3. r1 \in Folk(k0, D, R, f)
    BY <1>1, <1>2, FolkField
  <1> HIDE DEF r1
  <1>4. h \in [Known -> {"NULL", "DEFAULT", "USER"}]
    <2>1. r1.proc[p] \in ProcessOK
      BY <1>1, <1>3, FolkFacts, StateAfter
    <2> QED
      BY <2>1, ProcessFacts, BlankType
  <1> HIDE DEF h
  <1>5. r2 \in Folk(k0, D, R, f)
    BY <1>1, <1>3, <1>4, FolkField
  <1>6. Redirect(k, p, s) = r2
    BY DEF Redirect, r2, h, r1, px
  <1> QED
    BY <1>5, <1>6

-----------------------------------------------------------------------------
(***************************************************************************)
(* Deaths and new parents.                                                 *)
(***************************************************************************)
LEMMA FolkParents ==
  ASSUME NEW k0, NEW D, NEW R, NEW f, NEW k \in Folk(k0, D, R, f), NEW S,
         \A q \in Users : S[q] = R[q]
  PROVE  k \in Folk(k0, D, S, f)
  BY DEF Folk

LEMMA FolkMarkKilled ==
  ASSUME NEW k0, NEW R, NEW f, NEW k \in Folk(k0, {}, R, f), NEW p \in Users, InUse(k0, p)
  PROVE  MarkKilled(k, p) \in Folk(k0, {p}, R, f)
  <1> DEFINE o == k.proc[p]
             r == [o EXCEPT !.state = "KILLED", !.event = k.proc[p].pid]
             kk == MarkKilled(k, p)
  <1>1. k \in KRecord /\ k \in Near(k) /\ p \in Slots /\ o \in ProcessOK /\ k.suspended = <<>> /\ k.fg = f
    BY FolkFacts, Sets, StateAfter
  <1>2. kk \in KState
    BY <1>1, MarkKilledType, StateFacts
  <1>3. r.pid = o.pid /\ r.ppid = o.ppid /\ r.state = "KILLED" /\ r.event = o.pid
    BY <1>1 DEF ProcessOK
  <1>4. /\ kk.pidNum = k.pidNum /\ kk.suspended = <<>> /\ kk.fg = f
        /\ \A q \in Users : kk.proc[q] = IF q = p THEN r ELSE k.proc[q]
    BY <1>1, Sets DEF MarkKilled, KRecord
  <1> HIDE DEF r, kk
  <1>5. k.pidNum = k0.pidNum /\ \A q \in Users : Member(k0.proc[q], k.proc[q], q \in {}, R[q])
    BY DEF Folk
  <1>6. \A q \in Users : Member(k0.proc[q], kk.proc[q], q \in {p}, R[q])
    BY <1>3, <1>4, <1>5 DEF Member, InUse
  <1>7. kk \in Folk(k0, {p}, R, f)
    BY <1>2, <1>4, <1>5, <1>6 DEF Folk
  <1> QED
    BY <1>7 DEF kk

LEMMA FolkNewParent ==
  ASSUME NEW k0, NEW D, NEW R, NEW f, NEW k \in Folk(k0, D, R, f), NEW c \in Users, NEW v \in 0 .. MaxPid
  PROVE  [k EXCEPT !.proc[c].ppid = v] \in Folk(k0, D, [q \in Users |-> IF q = c THEN v ELSE R[q]], f)
  <1> DEFINE o == k.proc[c]
             r == [o EXCEPT !.ppid = v]
             kk == [k EXCEPT !.proc[c].ppid = v]
             S == [q \in Users |-> IF q = c THEN v ELSE R[q]]
  <1>1. k \in KRecord /\ k \in Near(k) /\ c \in Slots /\ o \in ProcessOK /\ k.suspended = <<>> /\ k.fg = f
    BY FolkFacts, Sets, StateAfter
  <1>2. kk \in KState
    BY <1>1, SetField, StateFacts
  <1>3. r.pid = o.pid /\ r.ppid = v /\ r.state = o.state /\ r.event = o.event
    BY <1>1 DEF ProcessOK
  <1>4. /\ kk.pidNum = k.pidNum /\ kk.suspended = <<>> /\ kk.fg = f
        /\ \A q \in Users : kk.proc[q] = IF q = c THEN r ELSE k.proc[q]
    BY <1>1, Sets DEF KRecord
  <1> HIDE DEF r, kk
  <1>5. k.pidNum = k0.pidNum /\ \A q \in Users : Member(k0.proc[q], k.proc[q], q \in D, R[q])
    BY DEF Folk
  <1>6. \A q \in Users : Member(k0.proc[q], kk.proc[q], q \in D, S[q])
    BY <1>3, <1>4, <1>5 DEF Member
  <1>7. kk \in Folk(k0, D, S, f)
    BY <1>2, <1>4, <1>5, <1>6 DEF Folk
  <1> QED
    BY <1>7 DEF kk

LEMMA FolkAdopted ==
  ASSUME NEW k0, NEW D, NEW R, NEW f, NEW k \in Folk(k0, D, R, f), NEW c \in Users,
         NEW v \in 0 .. MaxPid, NEW transferJobs, NEW parent \in Users
  PROVE  Adopted(k, c, v, transferJobs, parent)
            \in Folk(k0, D, [q \in Users |-> IF q = c THEN v ELSE R[q]], f)
  <1> DEFINE S     == [q \in Users |-> IF q = c THEN v ELSE R[q]]
             moved == [k EXCEPT !.proc[c].ppid = v]
             n1    == moved.proc[parent].jobs + 1
             n2    == k.proc[parent].jobs + 1
             r1    == [moved EXCEPT !.proc[parent].jobs = n1]
             r2    == [r1 EXCEPT !.proc[c].job = n2]
  <1>1. moved \in Folk(k0, D, S, f)
    BY FolkNewParent
  <1>2. c \in Slots /\ parent \in Slots
    BY Sets
  <1> HIDE DEF S, moved
  <1>3. n1 \in Nat /\ n2 \in Nat
    <2>1. moved.proc[parent] \in ProcessOK /\ k.proc[parent] \in ProcessOK
      BY <1>1, <1>2, FolkFacts, StateAfter
    <2>2. moved.proc[parent].jobs \in Nat /\ k.proc[parent].jobs \in Nat
      BY <2>1, ProcessFacts
    <2> QED
      BY <2>2
  <1>4. Adopted(k, c, v, transferJobs, parent) \in {moved, r2}
    BY DEF Adopted, moved
  <1> HIDE DEF n1, n2
  <1>5. r1 \in Folk(k0, D, S, f)
    BY <1>1, <1>2, <1>3, FolkField
  <1> HIDE DEF r1
  <1>6. r2 \in Folk(k0, D, S, f)
    BY <1>2, <1>3, <1>5, FolkField
  <1> HIDE DEF r2
  <1> QED
    BY <1>1, <1>4, <1>6 DEF S

LEMMA AdoptReaches ==
  ASSUME NEW K, NEW k \in K, NEW n0, NEW t0, NEW pt0, NEW X, NEW q \in Seq(X),
         \A kk \in K, x \in X : Adopted(kk, x, n0, t0, pt0) \in K,
         NEW P, k \in P[0],
         \A n \in 1 .. Len(q) : \A kk \in K \cap P[n - 1] : Adopted(kk, q[n], n0, t0, pt0) \in P[n]
  PROVE  AdoptSeq(k, q, n0, t0, pt0) \in P[Len(q)]
  <1> DEFINE F == [kk \in K |-> [x \in X |-> Adopted(kk, x, n0, t0, pt0)]]
             Eq(f) == f = [s \in SUBSET DOMAIN q |->
                             IF s = {} THEN k ELSE Adopted(f[s \ {Max(s)}], q[Max(s)], n0, t0, pt0)]
             h == CHOOSE f : Eq(f)
             R == [n \in 0 .. Len(q) |-> K \cap P[n]]
  <1>1. F \in [K -> [X -> K]]
    OBVIOUS
  <1>2. \A kk \in K, x \in X : F[kk][x] = Adopted(kk, x, n0, t0, pt0)
    OBVIOUS
  <1> HIDE DEF F
  <1>3. PICK f : Solves(f, F, k, q) /\ Within(f, q, K, X)
    BY <1>1, LoopTotal
  <1>4. Eq(f)
    BY <1>2, <1>3 DEF Solves, Within
  <1>5. Eq(h)
    BY <1>4, Zenon
  <1>6. AdoptSeq(k, q, n0, t0, pt0) = h[DOMAIN q]
    BY DEF AdoptSeq, FoldLeft, MapThenFoldSet
  <1> HIDE DEF h
  <1>7. Follows(h, F, k, q, K)
    <2>1. h[{}] = k
      BY <1>5
    <2>2. ASSUME NEW s \in SUBSET DOMAIN q, s # {}, h[s \ {Max(s)}] \in K
          PROVE  h[s] = F[h[s \ {Max(s)}]][q[Max(s)]]
      <3>1. q[Max(s)] \in X
        BY <1>3, <2>2 DEF Within
      <3>2. h[s] = Adopted(h[s \ {Max(s)}], q[Max(s)], n0, t0, pt0)
        BY <1>5, <2>2
      <3> QED
        BY <1>2, <2>2, <3>1, <3>2
    <2> QED
      BY <2>1, <2>2 DEF Follows
  <1>8. \A s \in SUBSET DOMAIN q : h[s] \in K
    BY <1>1, <1>7, LoopStays
  <1>9. /\ Len(q) \in Nat /\ DOMAIN q = 1 .. Len(q) /\ \A n \in 1 .. Len(q) : q[n] \in X
        /\ \A n \in 1 .. Len(q) : n - 1 \in 0 .. Len(q) /\ n \in 0 .. Len(q)
    OBVIOUS
  <1>10. h[{}] \in R[0]
    BY <1>7, <1>9 DEF Follows
  <1>11. \A s \in SUBSET DOMAIN q : s # {} => h[s] = F[h[s \ {Max(s)}]][q[Max(s)]]
    BY <1>7, <1>8 DEF Follows
  <1>12. ASSUME NEW n \in 1 .. Len(q), NEW kk \in R[n - 1]
         PROVE  F[kk][q[n]] \in R[n]
    <2>1. kk \in K \cap P[n - 1] /\ q[n] \in X /\ n \in 0 .. Len(q)
      BY <1>9
    <2>2. Adopted(kk, q[n], n0, t0, pt0) \in P[n] /\ Adopted(kk, q[n], n0, t0, pt0) \in K
      BY <2>1
    <2> QED
      BY <1>2, <2>1, <2>2
  <1> HIDE DEF R
  <1>13. h[DOMAIN q] \in R[Len(q)]
    BY <1>9, <1>10, <1>11, <1>12, LoopReaches
  <1> QED
    BY <1>6, <1>9, <1>13 DEF R

\* switch_parent, if the new parent lives
Reparented(k, R, old, new) == [q \in Users |-> IF InUse(k, q) /\ R[q] = old THEN new ELSE R[q]]

LEMMA FolkSwitchParent ==
  ASSUME NEW k0, NEW D, NEW R, NEW f, NEW k \in Folk(k0, D, R, f), NEW old, NEW v \in 0 .. MaxPid,
         NEW transferJobs, LookupLive(k, v) # NULL
  PROVE  SwitchParent(k, old, v, transferJobs) \in Folk(k0, D, Reparented(k0, R, old, v), f)
  <1> DEFINE C == Children(k, old)
             q == Those([p \in Users |-> p], C)
             parent == LookupLive(k, v)
             Part(n) == [x \in Users |-> IF \E i \in 1 .. n : q[i] = x THEN v ELSE R[x]]
             K == {kk \in KState : \E S : kk \in Folk(k0, D, S, f)}
             P == [n \in 0 .. Len(q) |-> Folk(k0, D, Part(n), f)]
  <1>1. parent \in Users
    BY LookupLiveFacts
  <1>2. SwitchParent(k, old, v, transferJobs) = AdoptSeq(k, q, v, transferJobs, parent)
    BY DEF SwitchParent, InSlotOrder, AdoptSeq, Adopted, FoldLeft, MapThenFoldSet
  <1>3. q \in Queue(Users) /\ \A x : Contains(q, x) <=> x \in Users /\ x \in C
    <2>1. [p \in Users |-> p] \in Queue(Users) /\ \A x \in Users : Contains([p \in Users |-> p], x)
      BY SlotOrder
    <2>2. \A x : Contains([p \in Users |-> p], x) => x \in Users
      BY DEF Contains
    <2>3. /\ q \in Queue(Users)
          /\ \A x : Contains(q, x) <=> Contains([p \in Users |-> p], x) /\ x \in C
      BY <2>1, ThoseFacts
    <2> QED
      BY <2>1, <2>2, <2>3
  <1> HIDE DEF q, parent
  <1>4. q \in Seq(Users) /\ Len(q) \in Nat /\ DOMAIN q = 1 .. Len(q) /\ \A i \in 1 .. Len(q) : q[i] \in Users
    BY <1>3 DEF Queue
  <1>5. k \in K
    BY FolkFacts
  <1>6. \A kk \in K, x \in Users : Adopted(kk, x, v, transferJobs, parent) \in K
    <2> SUFFICES ASSUME NEW kk \in K, NEW x \in Users
                 PROVE  Adopted(kk, x, v, transferJobs, parent) \in K
      OBVIOUS
    <2>1. PICK S : kk \in Folk(k0, D, S, f)
      OBVIOUS
    <2>2. Adopted(kk, x, v, transferJobs, parent)
             \in Folk(k0, D, [y \in Users |-> IF y = x THEN v ELSE S[y]], f)
      BY <1>1, <2>1, FolkAdopted
    <2> QED
      BY <2>2, FolkFacts
  <1> HIDE DEF K
  <1>7. k \in P[0]
    <2>1. \A x \in Users : Part(0)[x] = R[x]
      OBVIOUS
    <2> HIDE DEF Part
    <2>2. k \in Folk(k0, D, Part(0), f)
      BY <2>1, FolkParents
    <2> QED
      BY <1>4, <2>2
  <1>8. ASSUME NEW n \in 1 .. Len(q), NEW kk \in K \cap P[n - 1]
        PROVE  Adopted(kk, q[n], v, transferJobs, parent) \in P[n]
    <2> DEFINE S == [y \in Users |-> IF y = q[n] THEN v ELSE Part(n - 1)[y]]
               r == Adopted(kk, q[n], v, transferJobs, parent)
    <2>1. n - 1 \in 0 .. Len(q) /\ n \in 0 .. Len(q) /\ q[n] \in Users
      BY <1>4
    <2>2. \A x \in Users : Part(n)[x] = S[x]
      <3>1. \A i \in 1 .. n : i = n \/ i \in 1 .. n - 1
        BY <1>4
      <3>2. \A i \in 1 .. n - 1 : i \in 1 .. n
        BY <1>4
      <3>3. n \in 1 .. n
        BY <1>4
      <3> QED
        BY <3>1, <3>2, <3>3
    <2> HIDE DEF Part
    <2>3. kk \in Folk(k0, D, Part(n - 1), f)
      BY <2>1
    <2>4. r \in Folk(k0, D, S, f)
      BY <1>1, <2>1, <2>3, FolkAdopted
    <2> HIDE DEF r, S
    <2>5. r \in Folk(k0, D, Part(n), f)
      BY <2>2, <2>4, FolkParents
    <2> QED
      BY <2>1, <2>5 DEF r
  <1> HIDE DEF P
  <1>9. AdoptSeq(k, q, v, transferJobs, parent) \in P[Len(q)]
    BY <1>4, <1>5, <1>6, <1>7, <1>8, AdoptReaches
  <1>10. AdoptSeq(k, q, v, transferJobs, parent) \in Folk(k0, D, Part(Len(q)), f)
    BY <1>4, <1>9 DEF P
  <1>11. \A x \in Users : Reparented(k0, R, old, v)[x] = Part(Len(q))[x]
    <2> SUFFICES ASSUME NEW x \in Users
                 PROVE  Reparented(k0, R, old, v)[x] = Part(Len(q))[x]
      OBVIOUS
    <2>1. Reparented(k0, R, old, v)[x] = IF InUse(k0, x) /\ R[x] = old THEN v ELSE R[x]
      BY DEF Reparented
    <2>2. (InUse(k, x) <=> InUse(k0, x)) /\ k.proc[x].ppid = R[x]
      BY FolkFacts
    <2>3. x \in C <=> InUse(k0, x) /\ R[x] = old
      BY <2>2 DEF Children, InUse
    <2>4. (\E i \in 1 .. Len(q) : q[i] = x) <=> x \in C
      BY <1>3, <1>4 DEF Contains
    <2> QED
      BY <2>1, <2>3, <2>4
  <1> HIDE DEF Part
  <1> QED
    BY <1>2, <1>10, <1>11, FolkParents

-----------------------------------------------------------------------------
(***************************************************************************)
(* What is true of a family while init lives.                              *)
(***************************************************************************)
\* Every process is found by its PID, and every process but init has a living
\* parent other than itself.
Whole(k) ==
  /\ InUse(k, 1) /\ k.proc[1].pid = 1
  /\ \A q, t \in Users : InUse(k, q) /\ InUse(k, t) /\ k.proc[q].pid = k.proc[t].pid => q = t
  /\ \A q \in Users : InUse(k, q) => k.proc[q].pid >= 1
  /\ Alive(k, 1) => \A q \in Users \ {1} : InUse(k, q) =>
                       \E t \in Users : /\ Alive(k, t) /\ k.proc[t].pid = k.proc[q].ppid
                                        /\ t # q

\* After the deaths D of k, f is alive if it is the foreground process and init
\* lives.
Present(k, D, f) == Alive(k, 1) /\ 1 \notin D /\ f # NULL => Alive(k, f) /\ f \notin D

LEMMA FoundByPid ==
  ASSUME NEW k0, Whole(k0), NEW D, NEW R, NEW f, NEW k \in Folk(k0, D, R, f),
         NEW t \in Users, InUse(k0, t)
  PROVE  /\ Lookup(k, k0.proc[t].pid) = t
         /\ Alive(k0, t) /\ t \notin D => LookupLive(k, k0.proc[t].pid) = t
  <1> DEFINE pid == k0.proc[t].pid
             found == {p \in Users : k.proc[p].state # "UNUSED" /\ k.proc[p].pid = pid}
  <1>1. \A q \in Users : /\ InUse(k, q) <=> InUse(k0, q)
                         /\ k.proc[q].pid = k0.proc[q].pid
                         /\ k.proc[q].state = "KILLED" <=> k0.proc[q].state = "KILLED" \/ q \in D
    BY FolkFacts
  <1>2. found = {t}
    BY <1>1 DEF Whole, InUse
  <1>3. Min(found) = t
    BY <1>2, MinFacts, Sets
  <1>4. Lookup(k, pid) = t
    BY <1>2, <1>3 DEF Lookup
  <1>5. Alive(k0, t) /\ t \notin D => LookupLive(k, pid) = t
    BY <1>1, <1>4 DEF LookupLive, Alive
  <1> QED
    BY <1>4, <1>5

\* Whose death this is: after it, p is dead.  If that is not the end of init,
\* the children of p are init's, and the foreground process lives.
Mourning(k, p) ==
  {kk \in KState : \E R, f :
     /\ kk \in Folk(k, {p}, R, f)
     /\ \A q \in Users : R[q] \in {k.proc[q].ppid, 1}
     /\ Alive(k, 1) /\ p # 1 => R = Reparented(k, Parents(k), k.proc[p].pid, 1)
     /\ Present(k, {p}, f)}

\* The parent of p, who takes over the foreground
LEMMA ParentFound ==
  ASSUME NEW k0, Whole(k0), NEW R, NEW f, NEW k \in Folk(k0, {}, R, f),
         NEW p \in Users, InUse(k0, p), Alive(k0, 1), p # 1
  PROVE  LET parent == Lookup(k, k0.proc[p].ppid)
         IN  /\ parent \in Users /\ Alive(k0, parent) /\ parent # p
             /\ LookupLive(k, k0.proc[p].ppid) = parent
  <1>1. PICK t \in Users : Alive(k0, t) /\ k0.proc[t].pid = k0.proc[p].ppid /\ t # p
    BY DEF Whole
  <1>2. InUse(k0, t) /\ t \notin {}
    BY <1>1 DEF Alive, InUse
  <1>3. Lookup(k, k0.proc[t].pid) = t /\ LookupLive(k, k0.proc[t].pid) = t
    BY <1>1, <1>2, FoundByPid
  <1> QED
    BY <1>1, <1>3

LEMMA FolkHandOver ==
  ASSUME NEW k0, Whole(k0), NEW D, NEW R, NEW f, NEW k \in Folk(k0, D, R, f),
         NEW p \in Users, NEW parent \in Users \cup {NULL},
         Alive(k0, 1) /\ p # 1 => parent \in Users /\ Alive(k0, parent) /\ parent # p,
         Present(k0, {}, f)
  PROVE  \E g : HandOver(k, p, parent) \in Folk(k0, D, R, g) /\ Present(k0, {p}, g)
  <1>1. f \in Users \cup {NULL} /\ k.fg = f
    BY FolkFacts DEF KRecord
  <1>2. CASE ~ IsForeground(k, p)
    <2>1. HandOver(k, p, parent) = k /\ f # p
      BY <1>1, <1>2, Sets DEF HandOver, IsForeground
    <2> QED
      BY <2>1 DEF Present
  <1>3. CASE IsForeground(k, p)
    <2> DEFINE g == IF parent # NULL /\ ~ k.proc[parent].daemon THEN parent ELSE NULL
    <2>1. HandOver(k, p, parent) = [k EXCEPT !.fg = g] /\ g \in Users \cup {NULL}
      BY <1>3 DEF HandOver
    <2>2. Present(k0, {p}, g)
      BY DEF Present
    <2> HIDE DEF g
    <2>3. [k EXCEPT !.fg = g] \in Folk(k0, D, R, g)
      BY <2>1, FolkForeground
    <2> QED
      BY <2>1, <2>2, <2>3
  <1> QED
    BY <1>2, <1>3

\* A process without stopped jobs kills none.
LEMMA KillNoJob ==
  ASSUME NEW k, NEW d \in Seq({})
  PROVE  FoldLeft(KillJob, k, d) = k
  <1> DEFINE K == {k}
             X == {}
  <1>1. k \in K /\ d \in Seq(X) /\ \A kk \in K, x \in X : KillJob(kk, x) \in K
    OBVIOUS
  <1>2. \A kk \in K : kk = k
    OBVIOUS
  <1> HIDE DEF K, X
  <1>3. FoldLeft(KillJob, k, d) \in K
    BY <1>1, KillJobLoop
  <1> QED
    BY <1>2, <1>3

\* exit
LEMMA ExitMourning ==
  ASSUME NEW k0, Whole(k0), NEW f, NEW k \in Folk(k0, {}, Parents(k0), f), Present(k0, {}, f),
         NEW p \in Users, Alive(k0, p), NEW k1, NEW v, k \in Transit(k1, p, v)
  PROVE  ExitProcess(k, p) \in Mourning(k0, p)
  <1> DEFINE R0       == Parents(k0)
             me       == k.proc[p]
             parent   == LookupLive(k, me.ppid)
             heir     == Lookup(k, me.ppid)
             marked   == MarkKilled(k, p)
             informed == IF parent # NULL THEN Notify(marked, parent)
                         ELSE [marked EXCEPT !.proc[p].ppid = 1]
             R1       == IF parent # NULL THEN R0 ELSE [q \in Users |-> IF q = p THEN 1 ELSE R0[q]]
             jobs     == {j \in Users : k.proc[j].state = "STOPPED" /\ k.proc[j].ppid = me.pid}
             jobless  == FoldLeft(KillJob, informed, Those(k.suspended, jobs))
             orphaned == SwitchParent(informed, me.pid, 1, TRUE)
             handed   == HandOver(orphaned, p, heir)
             released == Unpause(handed, p)
             buried   == [released EXCEPT !.zombies = PushBack(released.zombies, p)]
  <1>1. jobless = informed
    <2>1. <<>> \in Queue({}) /\ k.suspended = <<>>
      BY FolkFacts, EmptyQueue
    <2>2. Those(k.suspended, jobs) \in Seq({} \cap jobs)
      BY <2>1, ThoseIn
    <2> HIDE DEF informed, jobs
    <2>3. Those(k.suspended, jobs) \in Seq({})
      <3>1. {} \cap jobs = {}
        OBVIOUS
      <3> QED
        BY <2>2, <3>1
    <2> QED
      BY <2>3, KillNoJob
  <1>2. ExitProcess(k, p) = WakeUp(buried, STATE_CHANGE)
    <2>1. ExitProcess(k, p) =
            LET o == SwitchParent(jobless, me.pid, 1, TRUE)
                r == Unpause(HandOver(o, p, heir), p)
            IN  WakeUp([r EXCEPT !.zombies = PushBack(r.zombies, p)], STATE_CHANGE)
      BY DEF ExitProcess
    <2> HIDE DEF jobless, informed
    <2> QED
      BY <1>1, <2>1
  <1>3. me.pid = k0.proc[p].pid /\ me.ppid = k0.proc[p].ppid /\ InUse(k0, p)
    BY FolkFacts DEF Alive, InUse, Parents
  <1>4. parent \in Users \cup {NULL} /\ heir \in Users \cup {NULL}
    BY LookupFacts, LookupLiveFacts
  <1>5. Alive(k0, 1) /\ p # 1 => /\ heir \in Users /\ Alive(k0, heir) /\ heir # p
                                 /\ parent = heir /\ parent # NULL
    <2> SUFFICES ASSUME Alive(k0, 1), p # 1
                 PROVE  heir \in Users /\ Alive(k0, heir) /\ heir # p /\ parent = heir /\ parent # NULL
      OBVIOUS
    <2>1. heir \in Users /\ Alive(k0, heir) /\ heir # p /\ parent = heir
      BY <1>3, ParentFound
    <2> QED
      BY <2>1, Sets
  <1>6. marked \in Folk(k0, {p}, R0, f) /\ marked \in Transit(k1, p, "KILLED")
    BY <1>3, FolkMarkKilled, MarkKilledTransit
  <1> HIDE DEF marked, parent, heir, jobless, R0
  <1>7. informed \in Folk(k0, {p}, R1, f)
    <2>1. parent # NULL => Notify(marked, parent) \in Folk(k0, {p}, R0, f)
      BY <1>4, <1>6, FolkNotify
    <2>2. [marked EXCEPT !.proc[p].ppid = 1]
             \in Folk(k0, {p}, [q \in Users |-> IF q = p THEN 1 ELSE R0[q]], f)
      BY <1>6, FolkNewParent, EventFacts
    <2> QED
      BY <2>1, <2>2
  <1>8. informed \in Transit(k1, p, "KILLED")
    <2>1. marked \in Still(marked)
      BY <1>6, TransitFacts, NearSelf
    <2>2. parent # NULL => Notify(marked, parent) \in Still(marked)
      BY <1>4, <2>1, NotifyStill
    <2>3. [marked EXCEPT !.proc[p].ppid = 1] \in Still(marked)
      BY <2>1, QuietField, EventFacts, Sets
    <2>4. informed \in Still(marked)
      BY <2>2, <2>3
    <2> HIDE DEF informed
    <2> QED
      BY <1>6, <2>4, StillTransit
  <1>9. \A q \in Users : R0[q] = k0.proc[q].ppid /\ R1[q] \in {k0.proc[q].ppid, 1}
    BY DEF Parents, R0
  <1>10. Alive(k0, 1) /\ p # 1 => R1 = R0
    BY <1>5
  <1> HIDE DEF informed, R1
  <1> DEFINE live == LookupLive(informed, 1) # NULL
             R2   == IF live THEN Reparented(k0, R1, me.pid, 1) ELSE R1
  <1>11. orphaned \in Folk(k0, {p}, R2, f)
    <2>1. CASE live
      <3>1. orphaned \in Folk(k0, {p}, Reparented(k0, R1, me.pid, 1), f)
        BY <1>7, <2>1, FolkSwitchParent, EventFacts
      <3> QED
        BY <2>1, <3>1
    <2>2. CASE ~ live
      BY <1>7, <2>2 DEF SwitchParent
    <2> QED
      BY <2>1, <2>2
  <1>12. orphaned \in Transit(k1, p, "KILLED")
    <2>1. informed \in Still(informed)
      BY <1>8, TransitFacts, NearSelf
    <2>2. orphaned \in Still(informed)
      BY <2>1, SwitchParentStill, EventFacts
    <2> HIDE DEF orphaned
    <2> QED
      BY <1>8, <2>2, StillTransit
  <1>13. Alive(k0, 1) /\ p # 1 => live
    <2> SUFFICES ASSUME Alive(k0, 1), p # 1 PROVE live
      OBVIOUS
    <2>1. k0.proc[1].pid = 1 /\ InUse(k0, 1) /\ 1 \in Users /\ 1 \notin {p}
      BY Sets DEF Whole
    <2>2. LookupLive(informed, k0.proc[1].pid) = 1
      BY <1>7, <2>1, FoundByPid
    <2> QED
      BY <2>1, <2>2, Sets
  <1>14. /\ \A q \in Users : R2[q] \in {k0.proc[q].ppid, 1}
         /\ Alive(k0, 1) /\ p # 1 => R2 = Reparented(k0, R0, k0.proc[p].pid, 1)
    BY <1>3, <1>9, <1>10, <1>13 DEF Reparented
  <1> HIDE DEF orphaned, R2
  <1>15. PICK g : handed \in Folk(k0, {p}, R2, g) /\ Present(k0, {p}, g)
    BY <1>4, <1>5, <1>11, FolkHandOver
  <1>16. handed \in Transit(k1, p, "KILLED") /\ released \in Transit(k1, p, "KILLED")
    <2>1. orphaned \in Still(orphaned)
      BY <1>12, TransitFacts, NearSelf
    <2>2. handed \in Still(orphaned)
      BY <1>4, <2>1, HandOverStill
    <2> HIDE DEF handed
    <2>3. handed \in Transit(k1, p, "KILLED")
      BY <1>12, <2>2, StillTransit
    <2>4. handed \in Mild(handed, {p})
      BY <2>3, TransitFacts
    <2>5. {p} \in SUBSET Users
      BY Sets
    <2>6. released \in Mild(handed, {p})
      BY <2>4, <2>5, UnpauseMild
    <2> HIDE DEF released
    <2> QED
      BY <2>3, <2>6, MildTransit
  <1> HIDE DEF handed
  <1>17. released \in Folk(k0, {p}, R2, g)
    BY <1>15, <1>16, TransitFacts, FolkUnpause
  <1> HIDE DEF released
  <1>18. buried \in Folk(k0, {p}, R2, g) /\ buried \in Settled(k1, p, "KILLED")
    <2>1. released \in KRecord
      BY <1>17, FolkFacts
    <2>2. PushBack(released.zombies, p) \in Queue(Users)
      BY <2>1, PushBackFacts DEF KRecord
    <2>3. buried \in Folk(k0, {p}, R2, g)
      BY <1>17, <2>2, FolkQueue
    <2> QED
      BY <1>16, <2>3, PutOn
  <1> HIDE DEF buried
  <1>19. WakeUp(buried, STATE_CHANGE) \in Folk(k0, {p}, R2, g)
    BY <1>18, SettledFacts, FolkWakeUp
  <1>20. WakeUp(buried, STATE_CHANGE) \in KState
    BY <1>19, FolkFacts
  <1> QED
    BY <1>2, <1>14, <1>15, <1>19, <1>20 DEF Mourning, R0

\* The handler of the signals that terminate
LEMMA TerminateMourning ==
  ASSUME NEW k0, Whole(k0), NEW f, NEW k \in Folk(k0, {}, Parents(k0), f), Present(k0, {}, f),
         Calm(k, {}), NEW p \in Users, Alive(k0, p)
  PROVE  Terminate(k, p) \in Mourning(k0, p)
  <1>1. k \in KState /\ k.proc[p].state \notin {"STOPPED", "KILLED"}
    BY FolkFacts DEF Alive
  <1>2. Dequeue(k, p) \in Transit(k, p, k.proc[p].state)
    BY <1>1, DequeueTransit
  <1>3. Dequeue(k, p) \in Folk(k0, {}, Parents(k0), f)
    BY FolkDequeue
  <1> QED
    BY <1>2, <1>3, ExitMourning DEF Terminate

\* The SIGKILL handler
LEMMA KillNowMourning ==
  ASSUME NEW k0, Whole(k0), NEW f, NEW k \in Folk(k0, {}, Parents(k0), f), Present(k0, {}, f),
         Calm(k, {}), NEW p \in Users, Alive(k0, p), Unprivileged(k, p)
  PROVE  KillNow(k, p) \in Mourning(k0, p)
  <1> DEFINE R0       == Parents(k0)
             me       == k.proc[p]
             v        == me.state
             parent   == LookupLive(k, me.ppid)
             heir     == Lookup(k, me.ppid)
             informed == Notify(k, parent)
             removed  == Dequeue(informed, p)
             handed   == HandOver(removed, p, heir)
             released == Unpause(handed, p)
             switched == SwitchParent(released, me.pid, 1, FALSE)
             orphaned == KillChildren(switched, p, SIGKILL)
             marked   == MarkKilled(orphaned, p)
             r        == [marked EXCEPT !.proc[p].daemon = FALSE]
             dead     == [r EXCEPT !.zombies = PushBack(r.zombies, p)]
  <1>1. v \notin {"STOPPED", "KILLED", "UNUSED"} /\ k \in KState
    BY FolkFacts DEF Alive
  <1>2. KillNow(k, p) = WakeUp(dead, STATE_CHANGE)
    <2>1. KillNow(k, p) =
            LET rr == IF me.state = "STOPPED" THEN [informed EXCEPT !.suspended = Unlink(informed.suspended, p)]
                      ELSE released
                o == KillChildren(SwitchParent(rr, me.pid, 1, FALSE), p, SIGKILL)
            IN  WakeUp([MarkKilled(o, p) EXCEPT !.proc[p].daemon = FALSE,
                                                !.zombies = PushBack(MarkKilled(o, p).zombies, p)], STATE_CHANGE)
      BY DEF KillNow
    <2> HIDE DEF informed, released
    <2>2. KillNow(k, p) = WakeUp([marked EXCEPT !.proc[p].daemon = FALSE,
                                                !.zombies = PushBack(marked.zombies, p)], STATE_CHANGE)
      BY <1>1, <2>1
    <2> QED
      BY <2>2
  <1>3. me.pid = k0.proc[p].pid /\ me.ppid = k0.proc[p].ppid /\ InUse(k0, p)
    BY FolkFacts DEF Alive, InUse, Parents
  <1>4. parent \in Users \cup {NULL} /\ heir \in Users \cup {NULL}
    BY LookupFacts, LookupLiveFacts
  <1>5. Alive(k0, 1) /\ p # 1 => heir \in Users /\ Alive(k0, heir) /\ heir # p
    BY <1>3, ParentFound
  <1> HIDE DEF parent, heir
  <1>6. informed \in Folk(k0, {}, R0, f) /\ informed \in Still(k)
    BY <1>1, <1>4, FolkNotify, NearSelf, NotifyStill
  <1>7. informed \in KState /\ Calm(informed, {}) /\ informed.proc[p].state = v
    BY <1>1, <1>6, StillCalm
  <1> HIDE DEF informed
  <1>8. removed \in Folk(k0, {}, R0, f) /\ removed \in Transit(informed, p, v)
    BY <1>1, <1>6, <1>7, FolkDequeue, DequeueTransit
  <1> HIDE DEF removed
  <1>9. PICK g : handed \in Folk(k0, {}, R0, g) /\ Present(k0, {p}, g)
    BY <1>4, <1>5, <1>8, FolkHandOver
  <1>10. handed \in Transit(informed, p, v) /\ released \in Transit(informed, p, v)
    <2>1. removed \in Still(removed)
      BY <1>8, TransitFacts, NearSelf
    <2>2. handed \in Still(removed)
      BY <1>4, <2>1, HandOverStill
    <2> HIDE DEF handed
    <2>3. handed \in Transit(informed, p, v)
      BY <1>8, <2>2, StillTransit
    <2>4. handed \in Mild(handed, {p})
      BY <2>3, TransitFacts
    <2>5. {p} \in SUBSET Users
      BY Sets
    <2>6. released \in Mild(handed, {p})
      BY <2>4, <2>5, UnpauseMild
    <2> HIDE DEF released
    <2> QED
      BY <2>3, <2>6, MildTransit
  <1> HIDE DEF handed
  <1>11. released \in Folk(k0, {}, R0, g)
    BY <1>9, <1>10, TransitFacts, FolkUnpause
  <1> HIDE DEF released, R0
  <1> DEFINE live == LookupLive(released, 1) # NULL
             R2   == IF live THEN Reparented(k0, R0, me.pid, 1) ELSE R0
  <1>12. switched \in Folk(k0, {}, R2, g)
    <2>1. CASE live
      <3>1. switched \in Folk(k0, {}, Reparented(k0, R0, me.pid, 1), g)
        BY <1>11, <2>1, FolkSwitchParent, EventFacts
      <3> QED
        BY <2>1, <3>1
    <2>2. CASE ~ live
      BY <1>11, <2>2 DEF SwitchParent
    <2> QED
      BY <2>1, <2>2
  <1>13. switched \in Transit(informed, p, v)
    <2>1. released \in Still(released)
      BY <1>10, TransitFacts, NearSelf
    <2>2. switched \in Still(released)
      BY <2>1, SwitchParentStill, EventFacts
    <2> HIDE DEF switched
    <2> QED
      BY <1>10, <2>2, StillTransit
  <1>14. Alive(k0, 1) => live
    <2> SUFFICES ASSUME Alive(k0, 1) PROVE live
      OBVIOUS
    <2>1. k0.proc[1].pid = 1 /\ InUse(k0, 1) /\ 1 \in Users /\ 1 \notin {}
      BY Sets DEF Whole
    <2>2. LookupLive(released, k0.proc[1].pid) = 1
      BY <1>11, <2>1, FoundByPid
    <2> QED
      BY <2>1, <2>2, Sets
  <1>15. /\ \A q \in Users : R2[q] \in {k0.proc[q].ppid, 1}
         /\ Alive(k0, 1) /\ p # 1 => R2 = Reparented(k0, R0, k0.proc[p].pid, 1)
    BY <1>3, <1>14 DEF Reparented, R0, Parents
  <1> HIDE DEF switched, R2
  <1>16. orphaned \in Folk(k0, {}, R2, g) /\ orphaned \in Transit(informed, p, v)
    <2>1. orphaned \in Folk(k0, {}, R2, g)
      BY <1>12, FolkKillChildren, Sets
    <2>2. switched \in Mild(switched, {p})
      BY <1>13, TransitFacts
    <2>3. orphaned \in Mild(switched, {p})
      BY <2>2, KillChildrenMild, Sets
    <2> HIDE DEF orphaned
    <2> QED
      BY <1>13, <2>1, <2>3, MildTransit
  <1> HIDE DEF orphaned
  <1>17. marked \in Folk(k0, {p}, R2, g) /\ marked \in Transit(informed, p, "KILLED")
    BY <1>3, <1>16, FolkMarkKilled, MarkKilledTransit
  <1> HIDE DEF marked
  <1>18. r \in Folk(k0, {p}, R2, g) /\ r \in Transit(informed, p, "KILLED")
    <2>1. marked \in Still(marked)
      BY <1>17, TransitFacts, NearSelf
    <2>2. \A b \in BOOLEAN : [marked EXCEPT !.proc[p].daemon = b] \in Still(marked)
      BY <2>1, QuietField, Sets
    <2>3. \A b \in BOOLEAN : [marked EXCEPT !.proc[p].daemon = b] \in Folk(k0, {p}, R2, g)
      BY <1>17, FolkField, Sets
    <2>4. r \in Still(marked) /\ r \in Folk(k0, {p}, R2, g)
      BY <2>2, <2>3
    <2> HIDE DEF r
    <2> QED
      BY <1>17, <2>4, StillTransit
  <1> HIDE DEF r
  <1>19. dead \in Folk(k0, {p}, R2, g) /\ dead \in Settled(informed, p, "KILLED")
    <2>1. r \in KRecord
      BY <1>18, FolkFacts
    <2>2. PushBack(r.zombies, p) \in Queue(Users)
      BY <2>1, PushBackFacts DEF KRecord
    <2>3. dead \in Folk(k0, {p}, R2, g)
      BY <1>18, <2>2, FolkQueue
    <2> QED
      BY <1>18, <2>3, PutOn
  <1> HIDE DEF dead
  <1>20. WakeUp(dead, STATE_CHANGE) \in Folk(k0, {p}, R2, g)
    BY <1>19, SettledFacts, FolkWakeUp
  <1>21. WakeUp(dead, STATE_CHANGE) \in KState
    BY <1>20, FolkFacts
  <1> QED
    BY <1>2, <1>9, <1>15, <1>20, <1>21 DEF Mourning, R0

\* The signals of FamilyUse
Stopless == Known \cap {SIGCONT, SIGSTOP, SIGTSTP} = {}

\* p has handled some of its signals: nothing happened to the family, or p died.
Kin(k, f, p) == {kk \in KState : /\ Calm(kk, {})
                                 /\ \/ kk \in Folk(k, {}, Parents(k), f)
                                    \/ Alive(k, p) /\ kk \in Mourning(k, p)}

LEMMA FolkCleared ==
  ASSUME NEW k0, NEW D, NEW R, NEW f, NEW k \in Folk(k0, D, R, f), Calm(k, {}), NEW p \in Users, NEW s
  PROVE  LET cleared == [k EXCEPT !.proc[p].signals = @ \ {s}]
         IN  cleared \in Folk(k0, D, R, f) /\ Resleep(cleared, p) \in Folk(k0, D, R, f)
  <1> DEFINE cleared == [k EXCEPT !.proc[p].signals = @ \ {s}]
  <1>1. k \in KState /\ k \in KRecord
    BY FolkFacts
  <1>2. k.proc[p].signals \ {s} \in SignalSet
    <2>1. k.proc[p] \in ProcessOK
      BY <1>1, StateAfter, Sets
    <2> QED
      BY <2>1, ProcessFacts, SignalFacts
  <1>3. \A v \in SignalSet : [k EXCEPT !.proc[p].signals = v] \in Folk(k0, D, R, f)
    BY FolkField, Sets
  <1>4. cleared = [k EXCEPT !.proc[p].signals = k.proc[p].signals \ {s}]
    BY <1>1, Sets DEF KRecord
  <1>5. cleared \in Folk(k0, D, R, f)
    BY <1>2, <1>3, <1>4
  <1>6. cleared \in Still(k)
    BY <1>1, ClearedStill
  <1> HIDE DEF cleared
  <1>7. Calm(cleared, {})
    BY <1>1, <1>6, StillCalm
  <1>8. Resleep(cleared, p) \in Folk(k0, D, R, f)
    BY <1>5, <1>7, FolkResleep
  <1> QED
    BY <1>5, <1>8 DEF cleared

LEMMA DeliverKin ==
  ASSUME Stopless, NEW k0, Whole(k0), NEW f, Present(k0, {}, f), NEW p \in Users,
         NEW k \in Kin(k0, f, p), NEW s \in Known
  PROVE  Deliver(k, p, s) \in Kin(k0, f, p)
  <1> DEFINE handler == k.proc[p].handlers[s]
             handled == CASE handler = "USER"    -> Redirect(k, p, s)
                          [] handler = "DEFAULT" -> DefaultHandler(k, p, s)
                          [] OTHER               -> k
             cleared == [handled EXCEPT !.proc[p].signals = @ \ {s}]
             r       == Deliver(k, p, s)
             ignored == \/ s \notin k.proc[p].signals \/ ~ Alive(k, p)
                        \/ k.proc[p].state = "STOPPED" /\ s \notin {SIGKILL, SIGCONT}
  <1>1. k \in KState /\ Calm(k, {}) /\ s \notin {SIGCONT, SIGSTOP, SIGTSTP} /\ SIGCONT \notin Known
    BY DEF Kin, Stopless
  <1>2. r = IF ignored THEN k ELSE IF handler = "USER" THEN cleared ELSE Resleep(cleared, p)
    BY DEF Deliver
  <1>3. r \in KState /\ Calm(r, {})
    <2>1. r \in Signalled(k)
      BY <1>1, DeliverSignalled
    <2> HIDE DEF r
    <2> QED
      BY <2>1, SignalledFacts
  <1>4. CASE ignored
    <2>1. r = k
      BY <1>2, <1>4
    <2> QED
      BY <2>1
  <1>5. CASE ~ ignored
    <2>1. Alive(k, p)
      BY <1>5
    <2>2. k \in Folk(k0, {}, Parents(k0), f) /\ Alive(k0, p)
      <3>1. ASSUME k \in Mourning(k0, p)
            PROVE  FALSE
        <4>1. PICK R, g : k \in Folk(k0, {p}, R, g)
          BY <3>1 DEF Mourning
        <4> QED
          BY <2>1, <4>1, FolkFacts
      <3>2. k \in Folk(k0, {}, Parents(k0), f)
        BY <3>1 DEF Kin
      <3> QED
        BY <2>1, <3>2, FolkFacts
    <2>3. ASSUME NEW D, NEW R, NEW g, handled \in Folk(k0, D, R, g), Calm(handled, {})
          PROVE  r \in Folk(k0, D, R, g)
      <3> HIDE DEF handled
      <3>1. cleared \in Folk(k0, D, R, g) /\ Resleep(cleared, p) \in Folk(k0, D, R, g)
        BY <2>3, FolkCleared
      <3> HIDE DEF cleared, r
      <3> QED
        BY <1>2, <1>5, <3>1
    <2>4. CASE handler = "USER"
      <3>1. handled = Redirect(k, p, s)
        BY <2>4
      <3> HIDE DEF handled, handler
      <3>2. Redirect(k, p, s) \in Folk(k0, {}, Parents(k0), f)
        BY <1>1, <2>2, FolkRedirect
      <3>3. Redirect(k, p, s) \in Still(k)
        BY <1>1, RedirectStill
      <3>4. Calm(handled, {})
        BY <1>1, <3>1, <3>3, StillCalm
      <3> QED
        BY <1>3, <2>3, <3>1, <3>2, <3>4 DEF Kin
    <2>5. ASSUME handled = k
          PROVE  r \in Kin(k0, f, p)
      <3> HIDE DEF handled, handler
      <3> QED
        BY <1>1, <1>3, <2>2, <2>3, <2>5 DEF Kin
    <2>6. CASE handler = "DEFAULT"
      <3>1. handled = DefaultHandler(k, p, s)
        BY <2>6
      <3>2. k.proc[p].state = "STOPPED" => s = SIGKILL
        BY <1>1, <1>5
      <3> HIDE DEF handled, handler
      <3>3. \/ handled = k
            \/ handled \in Settled(k, p, "KILLED")
            \/ handled \in Settled(k, p, "STOPPED")
        BY <1>1, <2>1, <3>1, <3>2, DefaultHandlerSettled
      <3>4. Calm(handled, {})
        BY <1>1, <3>3, SettledFacts
      <3>5. handled = k \/ handled \in Mourning(k0, p)
        <4>1. CASE s \in {SIGHUP, SIGINT, SIGABRT, SIGTERM}
          <5>1. handled = Terminate(k, p)
            BY <3>1, <4>1
            DEF DefaultHandler, SIGHUP, SIGINT, SIGABRT, SIGTERM, SIGKILL, SIGTSTP, SIGSTOP, SIGCONT
          <5> QED
            BY <1>1, <2>2, <5>1, TerminateMourning
        <4>2. CASE s = SIGKILL
          <5>1. handled = KillNow(k, p)
            BY <3>1, <4>2
            DEF DefaultHandler, SIGHUP, SIGINT, SIGABRT, SIGTERM, SIGKILL, SIGTSTP, SIGSTOP, SIGCONT
          <5>2. ~ Unprivileged(k, p) => KillNow(k, p) = k
            BY DEF KillNow
          <5> QED
            BY <1>1, <2>2, <5>1, <5>2, KillNowMourning
        <4>3. CASE s \notin {SIGHUP, SIGINT, SIGABRT, SIGTERM, SIGKILL}
          BY <1>1, <3>1, <4>3 DEF DefaultHandler
        <4> QED
          BY <4>1, <4>2, <4>3
      <3>6. CASE handled \in Mourning(k0, p)
        <4>1. PICK R, g :
                /\ handled \in Folk(k0, {p}, R, g)
                /\ \A q \in Users : R[q] \in {k0.proc[q].ppid, 1}
                /\ Alive(k0, 1) /\ p # 1 => R = Reparented(k0, Parents(k0), k0.proc[p].pid, 1)
                /\ Present(k0, {p}, g)
          BY <3>6 DEF Mourning
        <4>2. r \in Folk(k0, {p}, R, g)
          BY <2>3, <3>4, <4>1
        <4>3. r \in Mourning(k0, p)
          BY <1>3, <4>1, <4>2 DEF Mourning
        <4> QED
          BY <1>3, <2>2, <4>3 DEF Kin
      <3> QED
        BY <2>5, <3>5, <3>6
    <2>7. CASE handler \notin {"USER", "DEFAULT"}
      <3>1. handled = k
        BY <2>7
      <3> QED
        BY <2>5, <3>1
    <2> QED
      BY <2>4, <2>6, <2>7
  <1> QED
    BY <1>4, <1>5

\* check_pending_signals
LEMMA CheckPendingKin ==
  ASSUME Stopless, NEW k0, Whole(k0), NEW f, Present(k0, {}, f), NEW p \in Users,
         NEW k \in Kin(k0, f, p)
  PROVE  CheckPendingSignals(k, p) \in Kin(k0, f, p)
  <1>1. SignalOrder \in Seq(Known)
    BY SignalOrderFacts DEF Queue
  <1>2. \A kk \in Kin(k0, f, p), s \in Known : Deliver(kk, p, s) \in Kin(k0, f, p)
    BY DeliverKin
  <1>3. DeliverSeq(k, SignalOrder, p) \in Kin(k0, f, p)
    BY <1>1, <1>2, DeliverLoop
  <1>4. CheckPendingSignals(k, p) = IF k.proc[p].signals = {} THEN k
                                    ELSE DeliverSeq(k, SignalOrder, p)
    BY DEF CheckPendingSignals, DeliverSeq, FoldLeft, MapThenFoldSet
  <1> QED
    BY <1>3, <1>4

-----------------------------------------------------------------------------
(***************************************************************************)
(* The other functions leave the family alone.                             *)
(***************************************************************************)
LEMMA FolkSchedule ==
  ASSUME NEW k0, NEW D, NEW R, NEW f, NEW k \in Folk(k0, D, R, f)
  PROVE  Schedule(k) \in Folk(k0, D, R, f)
  <1>1. {"choose", "scan"} \subseteq Mode \ {"kernel"}
    BY DEF Mode
  <1> QED
    BY <1>1, FolkMode DEF Schedule

LEMMA FolkSleep ==
  ASSUME NEW k0, NEW D, NEW R, NEW f, NEW k \in Folk(k0, D, R, f), k.curr \in Users,
         Alive(k, k.curr), NEW ev \in NONE .. MaxPid
  PROVE  Sleep(k, ev) \in Folk(k0, D, R, f)
  <1> DEFINE c  == k.curr
             k1 == [k EXCEPT !.proc[c].state = "SLEEP"]
             k2 == [k1 EXCEPT !.proc[c].event = ev]
             k3 == [k2 EXCEPT !.waiting = PushBack(k2.waiting, c)]
  <1>1. k \in KRecord /\ c \in Slots /\ k.proc[c].state \notin {"UNUSED", "KILLED"}
    BY FolkFacts, Sets DEF Alive
  <1>2. k1 \in Folk(k0, D, R, f) /\ k1.proc[c].state = "SLEEP"
    <2>1. \A v \in {"RUNNING", "READY", "SLEEP"} : [k EXCEPT !.proc[c].state = v] \in Folk(k0, D, R, f)
      BY <1>1, FolkField
    <2>2. k.proc[c] \in ProcessOK
      BY <1>1, StateAfter
    <2>3. k1.proc[c].state = "SLEEP"
      BY <1>1, <2>2 DEF KRecord, ProcessOK
    <2> QED
      BY <2>1, <2>3
  <1>3. Sleep(k, ev) = Schedule(k3)
    BY <1>1 DEF Sleep, KRecord
  <1> HIDE DEF k1, c
  <1>4. k2 \in Folk(k0, D, R, f)
    BY <1>1, <1>2, FolkField
  <1> HIDE DEF k2
  <1>5. k3 \in Folk(k0, D, R, f)
    <2>1. PushBack(k2.waiting, c) \in Queue(Users)
      BY <1>4, FolkFacts, PushBackFacts DEF KRecord, c
    <2> QED
      BY <1>4, <2>1, FolkQueue
  <1> HIDE DEF k3
  <1> QED
    BY <1>3, <1>5, FolkSchedule

LEMMA FolkPreempt ==
  ASSUME NEW k0, NEW D, NEW R, NEW f, NEW k \in Folk(k0, D, R, f),
         k.curr = Idle \/ (k.curr \in Users /\ Alive(k, k.curr))
  PROVE  Preempt(k) \in Folk(k0, D, R, f)
  <1> DEFINE c  == k.curr
             k1 == [k EXCEPT !.proc[c].state = "READY"]
             q  == IF c = Idle THEN k1.ready ELSE PushBack(k1.ready, c)
             k2 == [k1 EXCEPT !.ready = q]
  <1>1. k \in KRecord /\ c \in Slots /\ (k.proc[c].state \notin {"UNUSED", "KILLED"} \/ c = Idle)
    BY FolkFacts, Sets DEF Alive
  <1>2. k1 \in Folk(k0, D, R, f)
    <2>1. \A v \in {"RUNNING", "READY", "SLEEP"} : [k EXCEPT !.proc[c].state = v] \in Folk(k0, D, R, f)
      BY <1>1, FolkField
    <2> QED
      BY <2>1
  <1>3. Preempt(k) = IF k.ready = <<>> THEN k ELSE Schedule(k2)
    BY <1>1 DEF Preempt, KRecord
  <1>4. c = Idle \/ c \in Users
    OBVIOUS
  <1> HIDE DEF k1, c
  <1>5. k2 \in Folk(k0, D, R, f)
    <2>1. k1.ready \in Queue(Users)
      BY <1>2, FolkFacts DEF KRecord
    <2>2. q \in Queue(Users)
      BY <1>4, <2>1, PushBackFacts
    <2> HIDE DEF q
    <2> QED
      BY <1>2, <2>2, FolkQueue
  <1> HIDE DEF k2
  <1> QED
    BY <1>3, <1>5, FolkSchedule

LEMMA FolkEnter ==
  ASSUME NEW k0, NEW D, NEW R, NEW f, NEW k \in Folk(k0, D, R, f), NEW call \in CallOK
  PROVE  Enter(k, call) \in Folk(k0, D, R, f)
  <1> DEFINE c  == k.curr
             k1 == [k EXCEPT !.proc[c].call = call]
  <1>1. k \in KRecord /\ c \in Slots
    BY FolkFacts DEF KRecord
  <1>2. Enter(k, call) = [k1 EXCEPT !.proc[c].inKernel = TRUE]
    BY <1>1 DEF Enter, KRecord
  <1>3. k1 \in Folk(k0, D, R, f)
    BY <1>1, FolkField
  <1> HIDE DEF k1, c
  <1>4. \A b \in BOOLEAN : [k1 EXCEPT !.proc[c].inKernel = b] \in Folk(k0, D, R, f)
    BY <1>1, <1>3, FolkField
  <1> QED
    BY <1>2, <1>4

LEMMA FolkLeave ==
  ASSUME NEW k0, NEW D, NEW R, NEW f, NEW k \in Folk(k0, D, R, f)
  PROVE  Leave(k) \in Folk(k0, D, R, f)
  <1> DEFINE c  == k.curr
             k1 == [k EXCEPT !.proc[c].inKernel = FALSE]
             k2 == [k1 EXCEPT !.mode = "user"]
             v  == IF "signal" \in Calls THEN k2.proc[c].call ELSE NoCall
  <1>1. k \in KRecord /\ c \in Slots
    BY FolkFacts DEF KRecord
  <1>2. Leave(k) = [k2 EXCEPT !.proc[c].call = v]
    BY <1>1 DEF Leave, KRecord
  <1>3. k1 \in Folk(k0, D, R, f)
    <2>1. \A b \in BOOLEAN : [k EXCEPT !.proc[c].inKernel = b] \in Folk(k0, D, R, f)
      BY <1>1, FolkField
    <2> QED
      BY <2>1
  <1> HIDE DEF k1, c
  <1>4. k2 \in Folk(k0, D, R, f)
    BY <1>3, FolkMode DEF Mode
  <1> HIDE DEF k2
  <1>5. v \in CallOK
    <2>1. k2.proc[c] \in ProcessOK
      BY <1>1, <1>4, FolkFacts, StateAfter
    <2> QED
      BY <2>1, ProcessFacts, BlankType
  <1> HIDE DEF v
  <1>6. \A w \in CallOK : [k2 EXCEPT !.proc[c].call = w] \in Folk(k0, D, R, f)
    BY <1>1, <1>4, FolkField
  <1> QED
    BY <1>2, <1>5, <1>6

LEMMA FolkSleepLoop ==
  ASSUME NEW k0, NEW D, NEW R, NEW f, NEW k \in Folk(k0, D, R, f), k.curr \in Users,
         Alive(k, k.curr)
  PROVE  SleepLoop(k) \in Folk(k0, D, R, f)
  <1>1. SLEEP_SYSCALL \in NONE .. MaxPid
    BY EventFacts
  <1> QED
    BY <1>1, FolkSleep, FolkLeave DEF SleepLoop

LEMMA FolkBackground ==
  ASSUME NEW k0, NEW D, NEW R, NEW f, NEW k \in Folk(k0, D, R, f), NEW p \in Users
  PROVE  \E g \in {f, NULL} : Background(k, p) \in Folk(k0, D, R, g)
  <1> DEFINE parent == LookupLive(k, k.proc[p].ppid)
             y      == Yield(k, p)
             d      == [y EXCEPT !.proc[p].daemon = TRUE]
             r      == [d EXCEPT !.proc[parent].jobs = d.proc[parent].jobs + 1]
  <1>1. Background(k, p) = IF parent = NULL THEN d
                           ELSE [r EXCEPT !.proc[p].job = k.proc[parent].jobs + 1]
    BY DEF Background
  <1>2. k \in KRecord /\ p \in Slots /\ k.fg = f /\ parent \in Users \cup {NULL}
    BY FolkFacts, LookupLiveFacts, Sets
  <1> HIDE DEF parent
  <1>3. PICK g \in {f, NULL} : y \in Folk(k0, D, R, g)
    <2>1. NULL \in Users \cup {NULL}
      OBVIOUS
    <2>2. [k EXCEPT !.fg = NULL] \in Folk(k0, D, R, NULL)
      BY <2>1, FolkForeground
    <2> QED
      BY <2>2 DEF Yield
  <1> HIDE DEF y
  <1>4. \A v \in BOOLEAN : [y EXCEPT !.proc[p].daemon = v] \in Folk(k0, D, R, g)
    BY <1>2, <1>3, FolkField
  <1>5. d \in Folk(k0, D, R, g)
    BY <1>4
  <1> HIDE DEF d
  <1>6. ASSUME parent # NULL
        PROVE  [r EXCEPT !.proc[p].job = k.proc[parent].jobs + 1] \in Folk(k0, D, R, g)
    <2>1. parent \in Slots
      BY <1>2, <1>6, Sets
    <2>2. d.proc[parent].jobs \in Nat /\ k.proc[parent].jobs \in Nat
      <3>1. d.proc[parent] \in ProcessOK /\ k.proc[parent] \in ProcessOK
        BY <1>2, <1>5, <2>1, FolkFacts, StateAfter
      <3> QED
        BY <3>1, ProcessFacts
    <2>3. \A v \in Nat : [d EXCEPT !.proc[parent].jobs = v] \in Folk(k0, D, R, g)
      BY <1>5, <2>1, FolkField
    <2>4. r \in Folk(k0, D, R, g)
      BY <2>2, <2>3
    <2> HIDE DEF r
    <2>5. \A v \in Nat : [r EXCEPT !.proc[p].job = v] \in Folk(k0, D, R, g)
      BY <1>2, <2>4, FolkField
    <2>6. k.proc[parent].jobs + 1 \in Nat
      BY <2>2
    <2> QED
      BY <2>5, <2>6
  <1> QED
    BY <1>1, <1>5, <1>6

LEMMA FolkInitHandlers ==
  ASSUME NEW k0, NEW D, NEW R, NEW f, NEW k \in Folk(k0, D, R, f), NEW p \in Users
  PROVE  [InitHandlers(k, p) EXCEPT !.proc[p].proxied = <<>>] \in Folk(k0, D, R, f)
  <1> DEFINE k1 == [k EXCEPT !.proc[p].signals = {}]
             k2 == [k1 EXCEPT !.proc[p].handlers = DefHandlers]
             k3 == [k2 EXCEPT !.proc[p].proxied = <<>>]
  <1>1. k \in KRecord /\ p \in Slots /\ p # Idle
    BY FolkFacts, Sets
  <1>2. {} \in SignalSet /\ DefHandlers \in [Known -> {"NULL", "DEFAULT", "USER"}] /\ <<>> \in Seq(CallOK)
    BY BlankType DEF SignalSet
  <1>3. InitHandlers(k, p) = k2
    BY <1>1 DEF InitHandlers, KRecord
  <1>4. k1 \in Folk(k0, D, R, f)
    <2>1. \A v \in SignalSet : [k EXCEPT !.proc[p].signals = v] \in Folk(k0, D, R, f)
      BY <1>1, FolkField
    <2> QED
      BY <1>2, <2>1
  <1> HIDE DEF k1
  <1>5. k2 \in Folk(k0, D, R, f)
    <2>1. \A v \in [Known -> {"NULL", "DEFAULT", "USER"}] : [k1 EXCEPT !.proc[p].handlers = v] \in Folk(k0, D, R, f)
      BY <1>1, <1>4, FolkField
    <2> QED
      BY <1>2, <2>1
  <1> HIDE DEF k2
  <1>6. \A v \in Seq(CallOK) : [k2 EXCEPT !.proc[p].proxied = v] \in Folk(k0, D, R, f)
    BY <1>1, <1>5, FolkField
  <1> QED
    BY <1>2, <1>3, <1>6

LEMMA FolkMoveToBack ==
  ASSUME NEW k0, NEW D, NEW R, NEW f, NEW k \in Folk(k0, D, R, f), NEW p \in Users
  PROVE  MoveToBack(k, p) \in Folk(k0, D, R, f)
  BY FolkFacts DEF MoveToBack

LEMMA FolkMoveToFore ==
  ASSUME NEW k0, NEW D, NEW R, NEW f, NEW k \in Folk(k0, D, R, f), NEW p \in Users, Alive(k, p)
  PROVE  MoveToFore(k, p) \in Folk(k0, D, R, p)
  <1> DEFINE ev    == IF k.proc[p].event = DAEMON_INPUT THEN KEYBOARD_INPUT ELSE k.proc[p].event
             input == [k EXCEPT !.proc[p].event = ev]
             off   == [input EXCEPT !.waiting = Unlink(input.waiting, p)]
             up    == [off EXCEPT !.proc[p].state = "READY"]
             awake == IF k.proc[p].state # "SLEEP" THEN input ELSE up
             d     == [awake EXCEPT !.proc[p].daemon = FALSE]
             g     == [d EXCEPT !.fg = p]
             q     == IF Contains(g.ready, p) THEN g.ready ELSE PushBack(g.ready, p)
             all   == [g EXCEPT !.ready = q]
  <1>0. MoveToFore(k, p) = IF k.proc[p].state = "STOPPED"
                           THEN [k EXCEPT !.proc[p].daemon = FALSE] ELSE all
    <2>1. input = [k EXCEPT !.proc[p].event = IF @ = DAEMON_INPUT THEN KEYBOARD_INPUT ELSE @]
      OBVIOUS
    <2>2. awake = LET in == [k EXCEPT !.proc[p].event = IF @ = DAEMON_INPUT THEN KEYBOARD_INPUT ELSE @]
                  IN  IF k.proc[p].state # "SLEEP" THEN in
                      ELSE [in EXCEPT !.waiting = Unlink(@, p), !.proc[p].state = "READY"]
      BY <2>1
    <2> QED
      BY <2>2 DEF MoveToFore
  <1>1. /\ k \in KRecord /\ p \in Slots /\ k.proc[p] \in ProcessOK
        /\ k.proc[p].state \notin {"UNUSED", "KILLED", "STOPPED"}
    BY FolkFacts, StateAfter, Sets DEF Alive
  <1>2. ev \in NONE .. MaxPid
    BY <1>1, ProcessFacts, EventFacts
  <1>3. MoveToFore(k, p) = all
    BY <1>0, <1>1
  <1> HIDE DEF ev
  <1>4. input \in Folk(k0, D, R, f)
    BY <1>1, <1>2, FolkField
  <1>5. input.proc[p].state = k.proc[p].state
    BY <1>1 DEF KRecord, ProcessOK
  <1> HIDE DEF input
  <1>6. off \in Folk(k0, D, R, f)
    <2>1. Unlink(input.waiting, p) \in Queue(Users)
      BY <1>4, FolkFacts, UnlinkFacts DEF KRecord
    <2> QED
      BY <1>4, <2>1, FolkQueue
  <1>7. off.proc = input.proc
    <2>1. input \in KRecord
      BY <1>4, FolkFacts
    <2> QED
      BY <2>1 DEF KRecord
  <1> HIDE DEF off
  <1>8. up \in Folk(k0, D, R, f)
    <2>1. off.proc[p].state \notin {"UNUSED", "KILLED"}
      BY <1>1, <1>5, <1>7
    <2>2. \A v \in {"RUNNING", "READY", "SLEEP"} : [off EXCEPT !.proc[p].state = v] \in Folk(k0, D, R, f)
      BY <1>1, <1>6, <2>1, FolkField
    <2> QED
      BY <2>2
  <1> HIDE DEF up
  <1>9. awake \in Folk(k0, D, R, f)
    BY <1>4, <1>8
  <1> HIDE DEF awake
  <1>10. d \in Folk(k0, D, R, f)
    <2>1. \A b \in BOOLEAN : [awake EXCEPT !.proc[p].daemon = b] \in Folk(k0, D, R, f)
      BY <1>1, <1>9, FolkField
    <2> QED
      BY <2>1
  <1> HIDE DEF d
  <1>11. g \in Folk(k0, D, R, p)
    BY <1>10, FolkForeground
  <1> HIDE DEF g
  <1>12. q \in Queue(Users)
    <2>1. g.ready \in Queue(Users)
      BY <1>11, FolkFacts DEF KRecord
    <2> QED
      BY <2>1, PushBackFacts
  <1> HIDE DEF q
  <1> QED
    <2>1. \A w \in Queue(Users) : [g EXCEPT !.ready = w] \in Folk(k0, D, R, p)
      BY <1>11, FolkQueue
    <2> QED
      BY <1>3, <1>12, <2>1

-----------------------------------------------------------------------------
(***************************************************************************)
(* Steps that are neither fork nor wait: nothing happens to the family, or *)
(* one process dies and its children go to init.                           *)
(***************************************************************************)
\* init has no parent, or is its own.
Rooted(k) == k.proc[1].ppid \in {0, 1}

Clan(k) == /\ k \in Orderly /\ k \in Folk(k, {}, Parents(k), k.fg)
           /\ Whole(k) /\ Present(k, {}, k.fg) /\ Rooted(k)

Same(k) == {kk \in KState : \E f : kk \in Folk(k, {}, Parents(k), f) /\ Present(k, {}, f)}
Loss(k) == {kk \in KState : \E p \in Users : Alive(k, p) /\ kk \in Mourning(k, p)}

LEMMA SameIs ==
  ASSUME NEW k0, NEW f, NEW k \in Folk(k0, {}, Parents(k0), f), Present(k0, {}, f)
  PROVE  k \in Same(k0)
  BY FolkFacts DEF Same

LEMMA ClanFacts ==
  ASSUME NEW k, Clan(k)
  PROVE  /\ k \in Orderly /\ k \in Folk(k, {}, Parents(k), k.fg) /\ Whole(k) /\ Present(k, {}, k.fg)
         /\ k \in KState /\ k \in KRecord /\ k \in Near(k) /\ k \in Still(k) /\ Calm(k, {})
         /\ k \in Same(k) /\ k.suspended = <<>> /\ Rooted(k)
  BY OrderlyFacts, SameIs, FolkFacts DEF Clan

LEMMA KinIs ==
  ASSUME NEW k0, NEW f, Present(k0, {}, f), NEW p \in Users, NEW k \in Kin(k0, f, p)
  PROVE  k \in Same(k0) \cup Loss(k0)
  BY SameIs DEF Kin, Loss

LEMMA BecomeKin ==
  ASSUME NEW k \in Same(Now) \cup Loss(Now), Become(k)
  PROVE  Now' \in Same(Now) \cup Loss(Now)
  <1>1. k \in KState
    BY DEF Same, Loss
  <1> QED
    BY <1>1, BecomeFacts

\* The frame of a call that does not block.
LEMMA CalledKin ==
  ASSUME Clan(Now)
  PROVE  /\ Called \in Folk(Now, {}, Parents(Now), Now.fg) /\ Called \in Still(Now)
         /\ Present(Now, {}, Now.fg)
  <1>1. Now \in Folk(Now, {}, Parents(Now), Now.fg) /\ Now \in Orderly /\ Present(Now, {}, Now.fg)
    BY ClanFacts
  <1>2. curr \in Slots /\ NoCall \in CallOK
    BY <1>1, OrderlyNow, NowFacts, StateFacts, BlankType
  <1>3. \A v \in CallOK : [Now EXCEPT !.proc[curr].call = v] \in Folk(Now, {}, Parents(Now), Now.fg)
    BY <1>1, <1>2, FolkField
  <1> QED
    BY <1>1, <1>2, <1>3, CalledStill DEF Called

LEMMA FolkDispatch ==
  ASSUME NEW k0, NEW D, NEW R, NEW f, NEW k \in Folk(k0, D, R, f), NEW p \in Users,
         k.ready # <<>>, Alive(k, p)
  PROVE  \E g \in {f, p} : Dispatch(k, p) \in Folk(k0, D, R, g)
  <1> DEFINE k1 == [k EXCEPT !.proc[p].state = "RUNNING"]
             d  == Dispatch(k, p)
  <1>1. k \in KRecord /\ k \in Near(k) /\ k.fg = f /\ p \in Slots
    BY FolkFacts, Sets
  <1>2. k1 \in Folk(k0, D, R, f)
    <2>1. k.proc[p].state \notin {"UNUSED", "KILLED"}
      BY DEF Alive
    <2>2. \A v \in {"RUNNING", "READY", "SLEEP"} : [k EXCEPT !.proc[p].state = v] \in Folk(k0, D, R, f)
      BY <1>1, <2>1, FolkField
    <2> QED
      BY <2>2
  <1>3. d \in KState
    BY <1>1, DispatchType
  <1>4. /\ d.proc = k1.proc /\ d.pidNum = k1.pidNum /\ d.suspended = k1.suspended
        /\ d.fg \in {f, p}
    BY <1>1 DEF Dispatch, KRecord
  <1> HIDE DEF d, k1
  <1>5. d \in Folk(k0, D, R, d.fg)
    BY <1>2, <1>3, <1>4, FolkSame
  <1> QED
    BY <1>4, <1>5 DEF d

LEMMA ScanSuspendedKin ==
  ASSUME Clan(Now), ScanSuspended
  PROVE  Now' \in Same(Now) \cup Loss(Now)
  <1> DEFINE K == {Now}
             X == {}
             k == FoldLeft(CheckPendingSignals, Now, suspended)
  <1>1. Become([k EXCEPT !.mode = "choose"]) /\ suspended = <<>>
    BY ClanFacts, OrderlyNow DEF ScanSuspended
  <1>2. Now \in K /\ suspended \in Seq(X) /\ \A kk \in K, x \in X : CheckPendingSignals(kk, x) \in K
    BY <1>1
  <1>3. \A kk \in K : kk = Now
    OBVIOUS
  <1> HIDE DEF K, X
  <1>4. k = Now
    BY <1>2, <1>3, ScanLoop
  <1> HIDE DEF k
  <1>5. [Now EXCEPT !.mode = "choose"] \in Folk(Now, {}, Parents(Now), Now.fg)
    BY ClanFacts, FolkMode DEF Mode
  <1>6. [Now EXCEPT !.mode = "choose"] \in Same(Now)
    BY <1>5, ClanFacts, SameIs
  <1> QED
    BY <1>1, <1>4, <1>6, BecomeKin

LEMMA ConsiderHeadKin ==
  ASSUME Stopless, Clan(Now), ConsiderHead
  PROVE  Now' \in Same(Now) \cup Loss(Now)
  <1> DEFINE p == Head(ready)
             k == CheckPendingSignals(Now, p)
             F == Now.fg
  <1>1. /\ ready # <<>>
        /\ Become(IF k.ready # <<>> /\ Head(k.ready) = p THEN Dispatch(k, p) ELSE k)
    BY DEF ConsiderHead
  <1>2. p \in Users
    <2>1. ready \in Queue(Users)
      BY ClanFacts, OrderlyNow, NowFacts, StateFacts
    <2> QED
      BY <1>1, <2>1, TailFacts
  <1>3. Now \in Kin(Now, F, p)
    BY ClanFacts DEF Kin
  <1>4. k \in Kin(Now, F, p)
    BY <1>2, <1>3, ClanFacts, CheckPendingKin
  <1> HIDE DEF p, k
  <1>5. CASE k.ready # <<>> /\ Head(k.ready) = p
    <2>1. k \in KState /\ k \in KRecord /\ Calm(k, {})
      BY <1>4 DEF Kin, KState
    <2>2. Contains(k.ready, p)
      BY <1>5, <2>1, TailFacts DEF KRecord
    <2>3. Alive(k, p)
      BY <1>2, <2>1, <2>2 DEF Calm, Listed, Alive
    <2>4. k \in Folk(Now, {}, Parents(Now), F)
      <3>1. k \notin Mourning(Now, p)
        <4>1. SUFFICES ASSUME k \in Mourning(Now, p) PROVE FALSE
          OBVIOUS
        <4>2. PICK R, g : k \in Folk(Now, {p}, R, g)
          BY <4>1 DEF Mourning
        <4> QED
          BY <1>2, <2>3, <4>2, FolkFacts
      <3> QED
        BY <1>4, <3>1 DEF Kin
    <2>5. Alive(Now, p)
      BY <1>2, <2>3, <2>4, FolkFacts
    <2>6. PICK g \in {F, p} : Dispatch(k, p) \in Folk(Now, {}, Parents(Now), g)
      BY <1>2, <1>5, <2>3, <2>4, FolkDispatch
    <2>7. Present(Now, {}, g)
      BY <2>5, ClanFacts DEF Present
    <2>8. Dispatch(k, p) \in Same(Now)
      BY <2>6, <2>7, SameIs
    <2> QED
      BY <1>1, <1>5, <2>8, BecomeKin
  <1>6. CASE ~ (k.ready # <<>> /\ Head(k.ready) = p)
    <2>1. k \in Same(Now) \cup Loss(Now)
      BY <1>2, <1>4, ClanFacts, KinIs
    <2> QED
      BY <1>1, <1>6, <2>1, BecomeKin
  <1> QED
    BY <1>5, <1>6

LEMMA RunIdleKin ==
  ASSUME Clan(Now), RunIdle
  PROVE  Now' \in Same(Now) \cup Loss(Now)
  <1> DEFINE r == [Now EXCEPT !.proc[Idle].state = "RUNNING"]
             m == IF waiting = <<>> /\ SIGTERM \in proc[Idle].signals THEN "halt" ELSE "user"
             k == [r EXCEPT !.curr = Idle, !.mode = m]
  <1>1. Become(k)
    <2>1. k = [Now EXCEPT !.curr = Idle, !.proc[Idle].state = "RUNNING", !.mode = m]
      BY IdleTakes
    <2> QED
      BY <2>1 DEF RunIdle
  <1>2. r \in Folk(Now, {}, Parents(Now), Now.fg)
    <2>1. \A v \in {"RUNNING", "READY", "SLEEP"} :
             [Now EXCEPT !.proc[Idle].state = v] \in Folk(Now, {}, Parents(Now), Now.fg)
      BY ClanFacts, FolkField, Sets
    <2> QED
      BY <2>1
  <1>3. r \in KState /\ r \in KRecord /\ r.fg = Now.fg /\ m \in {"halt", "user"}
    BY <1>2, FolkFacts
  <1> HIDE DEF r, m
  <1>4. /\ k \in KState /\ k.proc = r.proc /\ k.pidNum = r.pidNum /\ k.suspended = r.suspended
        /\ k.fg = Now.fg
    BY <1>3, Sets DEF KState, KRecord, Mode
  <1> HIDE DEF k
  <1>5. k \in Folk(Now, {}, Parents(Now), k.fg)
    BY <1>2, <1>4, FolkSame
  <1>6. k \in Same(Now)
    BY <1>4, <1>5, ClanFacts, SameIs
  <1> QED
    BY <1>1, <1>6, BecomeKin

LEMMA TickKin ==
  ASSUME Clan(Now), Tick
  PROVE  Now' \in Same(Now) \cup Loss(Now)
  <1> DEFINE t     == [p \in Slots |-> [proc[p] EXCEPT !.left = IF @ > 0 THEN @ - 1 ELSE 0]]
             later == [Now EXCEPT !.proc = t]
             woken == WakeUp(later, SLEEP_SYSCALL)
             F     == Folk(Now, {}, Parents(Now), Now.fg)
  <1>0. Now \in Orderly
    BY ClanFacts
  <1>1. Become(Preempt(woken)) /\ OutsideScheduler(Now)
    BY <1>0, OrderlyNow DEF Tick
  <1>2. proc \in [Slots -> ProcessOK] /\ proc[Idle].proxied = <<>>
    BY <1>0, OrderlyNow, NowFacts, StateFacts
  <1>3. ASSUME NEW p \in Slots
        PROVE  LET r == [proc[p] EXCEPT !.left = IF @ > 0 THEN @ - 1 ELSE 0]
               IN  /\ r \in ProcessOK /\ r.proxied = proc[p].proxied /\ r.state = proc[p].state
                   /\ r.pid = proc[p].pid /\ r.ppid = proc[p].ppid /\ r.event = proc[p].event
    <2>1. proc[p] \in ProcessOK /\ proc[p].left \in 0 .. MaxSleep
      BY <1>2, ProcessFacts
    <2>2. (IF proc[p].left > 0 THEN proc[p].left - 1 ELSE 0) \in 0 .. MaxSleep
      BY <2>1, KernelAssumption
    <2> DEFINE v == IF proc[p].left > 0 THEN proc[p].left - 1 ELSE 0
               r == [proc[p] EXCEPT !.left = v]
    <2>3. r \in ProcessOK
      BY <2>1, <2>2, FieldFacts
    <2> HIDE DEF v
    <2>4. /\ r.proxied = proc[p].proxied /\ r.state = proc[p].state
          /\ r.pid = proc[p].pid /\ r.ppid = proc[p].ppid /\ r.event = proc[p].event
      BY <2>1 DEF ProcessOK
    <2> QED
      BY <2>3, <2>4 DEF v
  <1>4. /\ t \in [Slots -> ProcessOK] /\ t[Idle].proxied = <<>>
        /\ \A p \in Slots : t[p].state = Now.proc[p].state
        /\ \A p \in Users : Alike(Now.proc[p], t[p])
    <2>1. t \in [Slots -> ProcessOK] /\ t[Idle].proxied = <<>>
      BY <1>2, <1>3, Sets
    <2>2. Now.proc = proc
      BY <1>0, OrderlyNow
    <2>3. \A p \in Slots : /\ t[p].state = proc[p].state /\ t[p].pid = proc[p].pid
                           /\ t[p].ppid = proc[p].ppid /\ t[p].event = proc[p].event
      BY <1>3
    <2> HIDE DEF t
    <2> QED
      BY <2>1, <2>2, <2>3, Sets DEF Alike
  <1> HIDE DEF t
  <1>5. later \in Still(Now)
    BY <1>0, <1>4, OrderlyFacts, QuietTable
  <1>6. later \in F
    BY <1>4, ClanFacts, FolkTable
  <1> HIDE DEF later
  <1>7. later \in Mild(Now, {}) /\ Calm(later, {})
    BY <1>0, <1>5, StillAfter, MildFacts
  <1>8. woken \in F
    BY <1>6, <1>7, FolkWakeUp
  <1>9. woken \in Mild(Now, {})
    BY <1>7, WakeUpMild
  <1> HIDE DEF woken
  <1>10. woken \in Orderly /\ OutsideScheduler(woken)
    BY <1>0, <1>1, <1>9, MildAfter DEF OutsideScheduler
  <1>11. woken.curr = Idle \/ (woken.curr \in Users /\ Alive(woken, woken.curr))
    <2>1. woken.curr \in Slots
      BY <1>10, OrderlyFacts, StateFacts
    <2>2. woken.curr \in Users => Alive(woken, woken.curr)
      BY <1>10, RunningTransit DEF Alive
    <2> QED
      BY <2>1, <2>2 DEF Slots, Users, Idle
  <1>12. Preempt(woken) \in F
    BY <1>8, <1>11, FolkPreempt
  <1>13. Preempt(woken) \in Same(Now)
    BY <1>12, ClanFacts, SameIs
  <1> QED
    BY <1>1, <1>13, BecomeKin

\* The running process exits.
LEMMA ExitLoss ==
  ASSUME Clan(Now), mode = "user", curr # Idle, NEW f, Present(Now, {}, f),
         NEW k \in Still(Now), k \in Folk(Now, {}, Parents(Now), f)
  PROVE  Schedule(ExitProcess(k, curr)) \in Loss(Now)
  <1>1. /\ k \in Orderly /\ OutsideScheduler(k) /\ k.curr = curr /\ curr \in Users
        /\ k.proc[curr].state = "RUNNING" /\ Now.proc[curr].state = "RUNNING"
    <2>1. Now \in Orderly
      BY ClanFacts
    <2>2. OutsideScheduler(Now) /\ curr \in Users /\ Now.curr = curr /\ Now.proc[curr].state = "RUNNING"
      BY <2>1, CallerFacts
    <2> QED
      BY <2>1, <2>2, StillAfter DEF OutsideScheduler
  <1>2. k \in Transit(k, curr, "RUNNING") /\ Alive(Now, curr)
    BY <1>1, RunningTransit DEF Alive
  <1> DEFINE x == ExitProcess(k, curr)
  <1>3. x \in Mourning(Now, curr)
    BY <1>1, <1>2, ClanFacts, ExitMourning
  <1> HIDE DEF x
  <1>4. PICK R, g :
          /\ x \in Folk(Now, {curr}, R, g)
          /\ \A q \in Users : R[q] \in {Now.proc[q].ppid, 1}
          /\ Alive(Now, 1) /\ curr # 1 => R = Reparented(Now, Parents(Now), Now.proc[curr].pid, 1)
          /\ Present(Now, {curr}, g)
    BY <1>3 DEF Mourning
  <1>5. Schedule(x) \in Folk(Now, {curr}, R, g)
    BY <1>4, FolkSchedule
  <1>6. Schedule(x) \in KState
    BY <1>5, FolkFacts
  <1>7. Schedule(x) \in Mourning(Now, curr)
    BY <1>4, <1>5, <1>6 DEF Mourning
  <1> QED
    BY <1>1, <1>2, <1>6, <1>7 DEF Loss, x

LEMMA SysExecKin ==
  ASSUME Clan(Now), SysExec
  PROVE  Now' \in Same(Now) \cup Loss(Now)
  <1>0. Now \in Orderly
    BY ClanFacts
  <1>1. mode = "user" /\ curr # Idle /\ curr \in Users
    BY <1>0, OrderlyNow, UserFacts DEF SysExec, InUserCode
  <1>2. PICK background \in BOOLEAN, readable \in BOOLEAN :
           LET named == IF background THEN Background(Called, curr) ELSE Called
           IN  Become(IF readable
                      THEN [InitHandlers(named, curr) EXCEPT !.proc[curr].proxied = <<>>]
                      ELSE Schedule(ExitProcess(named, curr)))
    BY DEF SysExec
  <1> DEFINE named == IF background THEN Background(Called, curr) ELSE Called
  <1>3. \/ Become([InitHandlers(named, curr) EXCEPT !.proc[curr].proxied = <<>>])
        \/ Become(Schedule(ExitProcess(named, curr)))
    BY <1>2
  <1>4. named \in Still(Now)
    BY <1>1, CalledKin, BackgroundStill
  <1>5. PICK g \in {Now.fg, NULL} : named \in Folk(Now, {}, Parents(Now), g)
    <2>1. \E g \in {Now.fg, NULL} : Background(Called, curr) \in Folk(Now, {}, Parents(Now), g)
      BY <1>1, CalledKin, FolkBackground
    <2> QED
      BY <2>1, CalledKin
  <1> HIDE DEF named
  <1>6. Present(Now, {}, g)
    BY ClanFacts DEF Present
  <1>7. [InitHandlers(named, curr) EXCEPT !.proc[curr].proxied = <<>>] \in Same(Now)
    BY <1>1, <1>5, <1>6, FolkInitHandlers, SameIs
  <1>8. Schedule(ExitProcess(named, curr)) \in Loss(Now)
    BY <1>1, <1>4, <1>5, <1>6, ExitLoss
  <1> QED
    BY <1>3, <1>7, <1>8, BecomeKin

LEMMA SysExitKin ==
  ASSUME Clan(Now), SysExit
  PROVE  Now' \in Same(Now) \cup Loss(Now)
  <1>1. mode = "user" /\ curr # Idle /\ Become(Schedule(ExitProcess(Now, curr)))
    BY DEF SysExit, InUserCode
  <1>2. Schedule(ExitProcess(Now, curr)) \in Loss(Now)
    BY <1>1, ClanFacts, ExitLoss
  <1> QED
    BY <1>1, <1>2, BecomeKin

LEMMA SysKillKin ==
  ASSUME SIGHUP \in Sendable => -1 \notin Targets, Clan(Now), SysKill
  PROVE  Now' \in Same(Now) \cup Loss(Now)
  <1>1. PICK s \in Sendable, target \in Targets \cup 2 .. pidNum - 1 :
           Become(Kill(Called, curr, target, s))
    BY DEF SysKill
  <1>2. (target = -1 => s # SIGHUP) /\ s \in Known
    BY DEF Known
  <1>3. Called \in Folk(Now, {}, Parents(Now), Now.fg) /\ Present(Now, {}, Now.fg)
    BY CalledKin
  <1>4. Kill(Called, curr, target, s) \in Folk(Now, {}, Parents(Now), Now.fg)
    BY <1>2, <1>3, FolkKill
  <1>5. Kill(Called, curr, target, s) \in Same(Now)
    BY <1>3, <1>4, SameIs
  <1> QED
    BY <1>1, <1>5, BecomeKin

LEMMA SysSignalKin ==
  ASSUME Clan(Now), SysSignal
  PROVE  Now' \in Same(Now) \cup Loss(Now)
  <1>1. PICK s \in Sendable \ {SIGKILL, SIGSTOP}, handler \in {"NULL", "DEFAULT", "USER"} :
           Become([Called EXCEPT !.proc[curr].handlers[s] = handler])
    BY DEF SysSignal
  <1> DEFINE h == [Called.proc[curr].handlers EXCEPT ![s] = handler]
  <1>2. Become([Called EXCEPT !.proc[curr].handlers = h])
    BY <1>1
  <1>3. curr \in Slots /\ h \in [Known -> {"NULL", "DEFAULT", "USER"}]
    <2>1. curr \in Slots /\ Called.proc[curr] \in ProcessOK
      BY ClanFacts, CalledKin, FolkFacts, OrderlyNow, NowFacts, StateFacts
    <2>2. Called.proc[curr].handlers \in [Known -> {"NULL", "DEFAULT", "USER"}]
      BY <2>1, ProcessFacts
    <2> QED
      BY <2>1, <2>2
  <1> HIDE DEF h
  <1>4. [Called EXCEPT !.proc[curr].handlers = h] \in Folk(Now, {}, Parents(Now), Now.fg)
    <2>1. \A w \in [Known -> {"NULL", "DEFAULT", "USER"}] :
             [Called EXCEPT !.proc[curr].handlers = w] \in Folk(Now, {}, Parents(Now), Now.fg)
      BY <1>3, CalledKin, FolkField
    <2> QED
      BY <1>3, <2>1
  <1>5. [Called EXCEPT !.proc[curr].handlers = h] \in Same(Now)
    BY <1>4, ClanFacts, SameIs
  <1> QED
    BY <1>2, <1>5, BecomeKin

LEMMA SysPctrlKin ==
  ASSUME ForeStates \subseteq {"READY", "SLEEP", "STOPPED"}, Clan(Now), SysPctrl
  PROVE  Now' \in Same(Now) \cup Loss(Now)
  <1>1. PICK p \in Users : \/ proc[p].state \in ForeStates /\ Become(MoveToFore(Called, p))
                           \/ Become(MoveToBack(Called, p))
    BY LookupJobFacts DEF SysPctrl
  <1>2. Called \in Folk(Now, {}, Parents(Now), Now.fg) /\ Present(Now, {}, Now.fg)
    BY CalledKin
  <1>3. CASE proc[p].state \in ForeStates /\ Become(MoveToFore(Called, p))
    <2>1. Alive(Now, p) /\ Alive(Called, p)
      <3>1. Alive(Now, p)
        BY <1>3, ClanFacts, OrderlyNow DEF Alive
      <3> QED
        BY <1>2, <3>1, FolkFacts
    <2>2. MoveToFore(Called, p) \in Folk(Now, {}, Parents(Now), p)
      BY <1>2, <2>1, FolkMoveToFore
    <2>3. Present(Now, {}, p)
      BY <2>1 DEF Present
    <2>4. MoveToFore(Called, p) \in Same(Now)
      BY <2>2, <2>3, SameIs
    <2> QED
      BY <1>3, <2>4, BecomeKin
  <1>4. CASE Become(MoveToBack(Called, p))
    <2>1. MoveToBack(Called, p) \in Folk(Now, {}, Parents(Now), Now.fg)
      BY <1>2, FolkMoveToBack
    <2>2. MoveToBack(Called, p) \in Same(Now)
      BY <1>2, <2>1, SameIs
    <2> QED
      BY <1>4, <2>2, BecomeKin
  <1> QED
    BY <1>1, <1>3, <1>4

-----------------------------------------------------------------------------
(***************************************************************************)
(* wait.  init may take over some of the dead, and the caller may collect  *)
(* one of its dead children.                                               *)
(***************************************************************************)
DeadOf(k) == {q \in Users : k.proc[q].state = "KILLED"}

Taken(k, A) == [q \in Users |-> IF q \in A THEN 1 ELSE k.proc[q].ppid]

Relief(k) == {kk \in KState : \E A, f :
                                 /\ A \in SUBSET DeadOf(k)
                                 /\ kk \in Folk(k, {}, Taken(k, A), f) /\ Present(k, {}, f)}

\* z has been collected from kk.
Gone(k, z, R, f, kk) ==
  /\ kk.pidNum = k.pidNum /\ kk.suspended = <<>> /\ kk.fg = f
  /\ \A q \in Users \ {z} : Member(k.proc[q], kk.proc[q], FALSE, R[q])
  /\ kk.proc[z].state = "UNUSED" /\ kk.proc[z].pid = k.proc[z].pid /\ kk.proc[z].ppid = 0

Burial(k) == {kk \in KState :
  \E A, z, p, f :
     /\ A \in SUBSET DeadOf(k) /\ z \in DeadOf(k) \ {1} /\ p \in Users
     /\ Alive(k, p) /\ k.proc[p].pid = Taken(k, A)[z]
     /\ Gone(k, z, Taken(k, A), f, kk) /\ Present(k, {}, f)}

LEMMA FolkFoster ==
  ASSUME NEW k0, NEW f, NEW k \in Folk(k0, {}, Parents(k0), f), Calm(k, {})
  PROVE  \E A \in SUBSET DeadOf(k0) : Foster(k) \in Folk(k0, {}, Taken(k0, A), f)
  <1> DEFINE abandoned(z) ==
               LET parent == Lookup(k, k.proc[z].ppid)
               IN  \/ parent = NULL
                   \/ /\ k.proc[parent].wpid >= 0
                      /\ k.proc[parent].wpid # k.proc[z].pid
             taken(p) == Contains(k.zombies, p) /\ k.proc[p].ppid # 1 /\ abandoned(p)
             t == [p \in Slots |-> IF taken(p) THEN [k.proc[p] EXCEPT !.ppid = 1] ELSE k.proc[p]]
             A == {q \in Users : taken(q)}
             r == Foster(k)
  <1>1. r = [k EXCEPT !.proc = t]
    BY DEF Foster
  <1>2. A \in SUBSET DeadOf(k0)
    <2> SUFFICES ASSUME NEW q \in Users, taken(q) PROVE k0.proc[q].state = "KILLED"
      BY DEF DeadOf
    <2>1. Contains(k.zombies, q)
      OBVIOUS
    <2>2. k.proc[q].state = "KILLED"
      BY <2>1 DEF Calm, Listed
    <2> QED
      BY <2>2, FolkFacts
  <1>3. \A q \in Users : taken(q) <=> q \in A
    OBVIOUS
  <1> HIDE DEF taken
  <1>4. r \in KState
    <2>1. k \in Near(k)
      BY FolkFacts
    <2>2. r \in Near(k)
      BY <2>1, FosterType
    <2> HIDE DEF r
    <2> QED
      BY <2>2, StateFacts
  <1>5. k \in KRecord /\ k.fg = f /\ k.suspended = <<>> /\ k.pidNum = k0.pidNum
    BY FolkFacts
  <1>6. r.proc = t /\ r.pidNum = k.pidNum /\ r.suspended = k.suspended /\ r.fg = k.fg
    BY <1>1, <1>5 DEF KRecord
  <1> HIDE DEF r, A
  <1>7. ASSUME NEW q \in Users
        PROVE  Member(k0.proc[q], r.proc[q], q \in {}, Taken(k0, A)[q])
    <2>1. Member(k0.proc[q], k.proc[q], q \in {}, Parents(k0)[q])
      BY DEF Folk
    <2>2. r.proc[q] = IF q \in A THEN [k.proc[q] EXCEPT !.ppid = 1] ELSE k.proc[q]
      BY <1>3, <1>6, Sets
    <2>3. k.proc[q] \in ProcessOK
      BY <1>5, StateAfter, Sets
    <2>4. /\ r.proc[q].pid = k.proc[q].pid /\ r.proc[q].state = k.proc[q].state
          /\ r.proc[q].event = k.proc[q].event
          /\ r.proc[q].ppid = IF q \in A THEN 1 ELSE k.proc[q].ppid
      BY <2>2, <2>3 DEF ProcessOK
    <2>5. Parents(k0)[q] = k0.proc[q].ppid /\ Taken(k0, A)[q] = IF q \in A THEN 1 ELSE k0.proc[q].ppid
      BY DEF Parents, Taken
    <2> QED
      BY <2>1, <2>4, <2>5 DEF Member
  <1>8. r \in Folk(k0, {}, Taken(k0, A), f)
    BY <1>4, <1>5, <1>6, <1>7 DEF Folk
  <1> QED
    BY <1>2, <1>8 DEF r

LEMMA ReapGone ==
  ASSUME NEW k0, NEW R, NEW f, NEW k \in Folk(k0, {}, R, f), NEW z \in Users,
         k.proc[z].state = "KILLED"
  PROVE  Reap(k, z) \in KState /\ Gone(k0, z, R, f, Reap(k, z))
  <1> DEFINE b       == [Blank EXCEPT !.pid = k.proc[z].pid, !.event = k.proc[z].event]
             r       == Reap(k, z)
  <1>1. k \in KRecord /\ k \in Near(k) /\ k.fg = f /\ k.suspended = <<>> /\ k.pidNum = k0.pidNum /\ z \in Slots
    BY FolkFacts, Sets
  <1>2. r \in KState
    <2>1. r \in Near(k)
      BY <1>1, ReapType
    <2> HIDE DEF r
    <2> QED
      BY <2>1, StateFacts
  <1>3. /\ r.proc = [k.proc EXCEPT ![z] = b] /\ r.pidNum = k.pidNum
        /\ r.suspended = k.suspended /\ r.fg = k.fg
    BY <1>1 DEF Reap, Free, KRecord
  <1>4. b.state = "UNUSED" /\ b.pid = k.proc[z].pid /\ b.ppid = 0
    BY DEF Blank
  <1> HIDE DEF b, r
  <1>5. r.proc[z] = b /\ \A q \in Users \ {z} : r.proc[q] = k.proc[q]
    BY <1>1, <1>3, Sets DEF KRecord
  <1>6. /\ \A q \in Users : Member(k0.proc[q], k.proc[q], FALSE, R[q])
        /\ k.proc[z].pid = k0.proc[z].pid
    BY DEF Folk, Member
  <1> QED
    BY <1>1, <1>2, <1>3, <1>4, <1>5, <1>6 DEF Gone, r

LEMMA LeaveGone ==
  ASSUME NEW k0, NEW z \in Users, NEW R, NEW f, NEW k \in KState, Gone(k0, z, R, f, k)
  PROVE  Leave(k) \in KState /\ Gone(k0, z, R, f, Leave(k))
  <1> DEFINE c == k.curr
             r == Leave(k)
  <1>1. k \in KRecord /\ k \in Near(k) /\ c \in Slots
    BY NearSelf, StateFacts
  <1>2. r \in KState
    BY <1>1, LeaveType DEF Kept
  <1>3. /\ r.pidNum = k.pidNum /\ r.suspended = k.suspended /\ r.fg = k.fg
        /\ \A q \in Slots : q # c => r.proc[q] = k.proc[q]
    BY <1>1 DEF Leave, KRecord
  <1>4. k.proc[c] \in ProcessOK
    BY <1>1, StateAfter
  <1>5. \E v : r.proc[c] = [k.proc[c] EXCEPT !.inKernel = FALSE, !.call = v]
    <2> DEFINE v == IF "signal" \in Calls THEN [k.proc[c] EXCEPT !.inKernel = FALSE].call ELSE NoCall
    <2>1. r.proc[c] = [k.proc[c] EXCEPT !.inKernel = FALSE, !.call = v]
      BY <1>1, <1>4 DEF Leave, KRecord, ProcessOK
    <2> QED
      BY <2>1
  <1>6. /\ r.proc[c].pid = k.proc[c].pid /\ r.proc[c].ppid = k.proc[c].ppid
        /\ r.proc[c].state = k.proc[c].state /\ r.proc[c].event = k.proc[c].event
    BY <1>4, <1>5 DEF ProcessOK
  <1> HIDE DEF r
  <1>7. \A q \in Users : /\ r.proc[q].pid = k.proc[q].pid /\ r.proc[q].ppid = k.proc[q].ppid
                         /\ r.proc[q].state = k.proc[q].state /\ r.proc[q].event = k.proc[q].event
    BY <1>3, <1>6, Sets
  <1> QED
    BY <1>2, <1>3, <1>7 DEF Gone, Member, r

\* z is what process c, waiting for arg, finds on the zombie list
Found(k, c, arg, z) ==
  LET children == Children(k, k.proc[c].pid)
      dead     == {p \in children : Contains(k.zombies, p)}
      wpid     == IF arg = -1 /\ dead # {} THEN k.proc[Min(dead)].pid ELSE arg
  IN  /\ Contains(k.zombies, z) /\ k.proc[z].event = wpid
      /\ IF arg = -1 THEN children # {} ELSE Lookup(k, arg) \in children

\* Whoever the caller finds is a child of its own.
LEMMA FoundIsChild ==
  ASSUME NEW k0, Whole(k0), NEW R, NEW f, NEW k \in Folk(k0, {}, R, f), Calm(k, {}),
         NEW c \in Users, InUse(k, c), NEW arg \in Int,
         NEW z \in Users, Found(k, c, arg, z)
  PROVE  k.proc[z].state = "KILLED" /\ R[z] = k0.proc[c].pid
  <1> DEFINE children == Children(k, k.proc[c].pid)
             dead     == {p \in children : Contains(k.zombies, p)}
             wpid     == IF arg = -1 /\ dead # {} THEN k.proc[Min(dead)].pid ELSE arg
  <1>a. /\ Contains(k.zombies, z) /\ k.proc[z].event = wpid
        /\ IF arg = -1 THEN children # {} ELSE Lookup(k, arg) \in children
    BY DEF Found
  <1>b. /\ \A p : p \in dead <=> p \in children /\ Contains(k.zombies, p)
        /\ arg = -1 /\ dead # {} => wpid = k.proc[Min(dead)].pid
        /\ ~ (arg = -1 /\ dead # {}) => wpid = arg
    OBVIOUS
  <1> HIDE DEF wpid, dead
  <1>1. k.proc[z].state = "KILLED" /\ InUse(k, z)
    BY <1>a DEF Calm, Listed, InUse
  <1>2. k.proc[z].pid = wpid
    <2>1. k.proc[z].event = wpid
      BY <1>a
    <2>2. Member(k0.proc[z], k.proc[z], z \in {}, R[z])
      BY DEF Folk
    <2> QED
      BY <1>1, <2>1, <2>2 DEF Member
  <1>3. InUse(k0, z) /\ k.proc[z].pid = k0.proc[z].pid /\ k.proc[z].ppid = R[z]
        /\ k.proc[c].pid = k0.proc[c].pid
    BY <1>1, FolkFacts
  <1>4. k0.proc[z].pid >= 1
    BY <1>3 DEF Whole
  <1>5. ASSUME NEW x \in Users, x \in children, k.proc[x].pid = wpid
        PROVE  R[z] = k0.proc[c].pid
    <2>1. InUse(k, x) /\ k.proc[x].ppid = k.proc[c].pid
      BY <1>5 DEF Children, InUse
    <2>2. InUse(k0, x) /\ k.proc[x].pid = k0.proc[x].pid
      BY <2>1, FolkFacts
    <2>3. x = z
      BY <1>2, <1>3, <1>5, <2>2 DEF Whole
    <2> QED
      BY <1>3, <2>1, <2>3
  <1>6. CASE arg = -1 /\ dead # {}
    <2>1. dead \subseteq Users /\ dead \subseteq children
      BY <1>b DEF Children
    <2>2. wpid = k.proc[Min(dead)].pid
      BY <1>b, <1>6
    <2>3. dead \in SUBSET Nat
      BY <2>1, Sets
    <2>4. Min(dead) \in dead
      BY <1>6, <2>3, MinFacts
    <2> QED
      BY <1>1, <1>5, <2>1, <2>2, <2>4
  <1>7. CASE arg = -1 /\ dead = {}
    <2>1. wpid = -1
      BY <1>b, <1>7
    <2>2. k0.proc[z].pid = -1
      BY <1>2, <1>3, <2>1
    <2> QED
      BY <1>4, <2>2
  <1>8. CASE arg # -1
    <2>1. wpid = arg /\ Lookup(k, arg) \in children
      BY <1>a, <1>b, <1>8
    <2>2. children \subseteq Users
      BY DEF Children
    <2>3. Lookup(k, arg) # NULL
      BY <2>1, <2>2, Sets
    <2>4. k.proc[Lookup(k, arg)].pid = arg
      BY <2>3, LookupFacts
    <2> QED
      BY <1>1, <1>5, <2>1, <2>2, <2>4
  <1> QED
    BY <1>6, <1>7, <1>8

LEMMA WaitLoopKin ==
  ASSUME NEW k0, Clan(k0), NEW k \in Orderly, OutsideScheduler(k), k.curr \in Users,
         NEW f, k \in Folk(k0, {}, Parents(k0), f), Present(k0, {}, f)
  PROVE  WaitLoop(k) \in Relief(k0) \cup Burial(k0)
  <1> DEFINE c        == k.curr
             call     == k.proc[c].call
             known    == IF k.proc[c].wpid > 1 THEN Lookup(k, k.proc[c].wpid) ELSE NULL
             stopped  == known # NULL /\ k.proc[known].state = "STOPPED" /\ Contains(k.suspended, known)
             acked    == IF stopped THEN [k EXCEPT !.proc[c].wpid = call.arg] ELSE k
             own      == IF k.proc[c].pid = 1 THEN Foster(acked) ELSE acked
             children == Children(own, own.proc[c].pid)
             dead     == {p \in children : Contains(own.zombies, p)}
             wpid     == IF call.arg = -1 /\ dead # {} THEN own.proc[Min(dead)].pid ELSE call.arg
             hasChild == IF call.arg = -1 THEN children # {} ELSE Lookup(own, call.arg) \in children
             found    == Those(own.zombies, {p \in Users : own.proc[p].event = wpid})
             z        == Head(found)
  <1>1. ~ stopped
    <2>1. known \in Users \cup {NULL}
      BY LookupFacts
    <2> QED
      BY <2>1, FolkFacts
  <1>2. \/ WaitLoop(k) \in {Leave(own), Sleep(own, STATE_CHANGE)}
        \/ found # <<>> /\ hasChild /\ WaitLoop(k) = Leave(Reap(own, z))
    BY <1>1, Zenon DEF WaitLoop
  <1>a. acked = k
    BY <1>1
  <1> HIDE DEF stopped, known, acked
  <1>3. c \in Slots /\ call \in CallOK /\ call.arg \in Int /\ Whole(k0) /\ Calm(k, {}) /\ k \in Still(k)
    <2>1. c \in Slots /\ call \in CallOK
      BY OrderlyFacts, StateFacts, ProcessFacts, Sets
    <2>2. call.arg \in Int
      BY <2>1 DEF CallOK, Call
    <2>3. Whole(k0)
      BY DEF Clan
    <2> HIDE DEF c, call, own
    <2>4. Calm(k, {}) /\ k \in Still(k)
      BY OrderlyFacts
    <2> QED
      BY <2>1, <2>2, <2>3, <2>4
  <1>4. PICK A \in SUBSET DeadOf(k0) : own \in Folk(k0, {}, Taken(k0, A), f)
    <2>1. CASE k.proc[c].pid = 1
      BY <1>3, <1>a, <2>1, FolkFoster
    <2>2. CASE k.proc[c].pid # 1
      <3>1. \A q \in Users : Taken(k0, {})[q] = Parents(k0)[q]
        BY DEF Taken, Parents
      <3>2. k \in Folk(k0, {}, Taken(k0, {}), f)
        BY <3>1, FolkParents
      <3> QED
        BY <1>a, <2>2, <3>2
    <2> QED
      BY <2>1, <2>2
  <1>5. own \in Still(k)
    BY <1>3, <1>a, FosterStill
  <1> HIDE DEF own
  <1>6. own \in Orderly /\ own.curr = c /\ OutsideScheduler(own) /\ Calm(own, {})
    <2>1. own \in Orderly /\ own.curr = k.curr /\ own.mode = k.mode
      BY <1>5, StillAfter
    <2> QED
      BY <2>1, OrderlyFacts DEF OutsideScheduler
  <1>7. Alive(own, c) /\ Alive(k0, c) /\ InUse(own, c)
    <2>1. own.proc[c].state = "RUNNING"
      BY <1>6, RunningTransit
    <2>2. Alive(own, c) /\ InUse(own, c)
      BY <2>1 DEF Alive, InUse
    <2> QED
      BY <1>4, <2>2, FolkFacts
  <1>8. Leave(own) \in Relief(k0)
    <2>1. Leave(own) \in Folk(k0, {}, Taken(k0, A), f)
      BY <1>4, FolkLeave
    <2>2. Leave(own) \in KState
      BY <2>1, FolkFacts
    <2> QED
      BY <2>1, <2>2 DEF Relief
  <1>9. Sleep(own, STATE_CHANGE) \in Relief(k0)
    <2>1. Sleep(own, STATE_CHANGE) \in Folk(k0, {}, Taken(k0, A), f)
      BY <1>4, <1>6, <1>7, FolkSleep, EventFacts
    <2>2. Sleep(own, STATE_CHANGE) \in KState
      BY <2>1, FolkFacts
    <2> QED
      BY <2>1, <2>2 DEF Relief
  <1>10. ASSUME found # <<>>, hasChild
         PROVE  Leave(Reap(own, z)) \in Burial(k0)
    <2>1. own.zombies \in Queue(Users)
      BY <1>6, OrderlyFacts, StateFacts
    <2>2. z \in Users /\ Contains(own.zombies, z) /\ own.proc[z].event = wpid
      <3> DEFINE S == {p \in Users : own.proc[p].event = wpid}
      <3>1. found = Those(own.zombies, S) /\ \A p \in S : own.proc[p].event = wpid
        OBVIOUS
      <3> HIDE DEF S, found, wpid
      <3>2. found \in Queue(Users) /\ \A p : Contains(found, p) => Contains(own.zombies, p) /\ p \in S
        BY <2>1, <3>1, ThoseFacts
      <3>3. z \in Users /\ Contains(found, z)
        BY <1>10, <3>2, TailFacts
      <3> QED
        BY <3>1, <3>2, <3>3
    <2> HIDE DEF z, found
    <2>3. own.proc[z].state = "KILLED" /\ Taken(k0, A)[z] = k0.proc[c].pid
      <3>1. Found(own, c, call.arg, z)
        BY <1>10, <2>2 DEF Found
      <3>2. /\ Whole(k0) /\ own \in Folk(k0, {}, Taken(k0, A), f) /\ Calm(own, {})
            /\ c \in Users /\ InUse(own, c) /\ call.arg \in Int /\ z \in Users
        BY <1>3, <1>4, <1>6, <1>7, <2>2
      <3> HIDE DEF c, call
      <3> QED
        BY <3>1, <3>2, FoundIsChild
    <2>4. z \in DeadOf(k0)
      <3> HIDE DEF own
      <3>1. own.proc[z].state = "KILLED" => k0.proc[z].state = "KILLED"
        BY <1>4, <2>2, FolkFacts
      <3> QED
        BY <2>2, <2>3, <3>1 DEF DeadOf
    <2>5. z # 1
      <3>1. SUFFICES ASSUME z = 1 PROVE FALSE
        OBVIOUS
      <3>2. Taken(k0, A)[1] \in {0, 1}
        BY <2>2, <3>1 DEF Clan, Rooted, Taken
      <3>3. InUse(k0, c) /\ InUse(k0, 1) /\ k0.proc[1].pid = 1 /\ k0.proc[c].pid >= 1
        BY <1>3, <1>7, Sets DEF Whole, Alive, InUse
      <3>4. k0.proc[c].pid = 1
        BY <2>3, <3>1, <3>2, <3>3
      <3>5. c = 1
        BY <1>3, <3>3, <3>4, Sets DEF Whole
      <3> QED
        BY <1>7, <2>4, <3>1, <3>5 DEF Alive, DeadOf
    <2>6. Reap(own, z) \in KState /\ Gone(k0, z, Taken(k0, A), f, Reap(own, z))
      BY <1>4, <2>2, <2>3, ReapGone
    <2> DEFINE r == Reap(own, z)
    <2> HIDE DEF r
    <2>7. Leave(r) \in KState /\ Gone(k0, z, Taken(k0, A), f, Leave(r))
      BY <2>2, <2>6, LeaveGone DEF r
    <2>8. Leave(r) \in Burial(k0)
      BY <1>7, <2>3, <2>4, <2>5, <2>7 DEF Burial
    <2> QED
      BY <2>8 DEF r
  <1> QED
    BY <1>2, <1>8, <1>9, <1>10

LEMMA SameRelief ==
  ASSUME NEW k0, NEW k \in Same(k0)
  PROVE  k \in Relief(k0)
  <1>1. PICK f : k \in Folk(k0, {}, Parents(k0), f) /\ Present(k0, {}, f)
    BY DEF Same
  <1>2. \A q \in Users : Taken(k0, {})[q] = Parents(k0)[q]
    BY DEF Taken, Parents
  <1>3. k \in Folk(k0, {}, Taken(k0, {}), f)
    BY <1>1, <1>2, FolkParents
  <1>4. k \in KState /\ {} \in SUBSET DeadOf(k0)
    BY <1>1, FolkFacts
  <1> QED
    BY <1>1, <1>3, <1>4 DEF Relief

\* A system call that may block is made, or made again.
LEMMA StartKin ==
  ASSUME Clan(Now), OutsideScheduler(Now), Now.curr \in Users,
         NEW k \in Still(Now), k \in Folk(Now, {}, Parents(Now), Now.fg), NEW call \in CallOK
  PROVE  Start(k, call) \in Relief(Now) \cup Burial(Now)
  <1> DEFINE c    == k.curr
             e    == Enter(k, call)
             slp  == [e EXCEPT !.proc[c].left = call.arg]
             wt   == [e EXCEPT !.proc[c].wpid = call.arg]
             F    == Folk(Now, {}, Parents(Now), Now.fg)
  <1>1. Start(k, call) = CASE call.op = "sleep" -> SleepLoop(slp)
                           [] call.op = "wait"  -> WaitLoop(wt)
                           [] OTHER             -> k
    BY DEF Start
  <1>2. Now \in Orderly /\ Present(Now, {}, Now.fg)
    BY ClanFacts
  <1>3. k.curr = Now.curr /\ k \in Same(Now)
    BY <1>2, StillAfter, SameIs
  <1>4. e \in Still(Now) /\ e \in F
    BY EnterStill, FolkEnter
  <1>5. e.curr = c /\ c \in Slots /\ c \in Users
    BY <1>2, <1>3, <1>4, StillAfter, Sets
  <1>6. ASSUME NEW x \in Still(Now), x \in F
        PROVE  x \in Orderly /\ x.curr \in Users /\ OutsideScheduler(x) /\ Alive(x, x.curr)
    <2>1. x \in Orderly /\ x.curr = Now.curr /\ x.mode = Now.mode
      BY <1>2, <1>6, StillAfter
    <2>2. x.curr \in Users /\ OutsideScheduler(x)
      BY <2>1 DEF OutsideScheduler
    <2> QED
      BY <2>1, <2>2, RunningTransit DEF Alive
  <1>7. call.op = "sleep" => SleepLoop(slp) \in Relief(Now)
    <2> SUFFICES ASSUME call.op = "sleep" PROVE SleepLoop(slp) \in Relief(Now)
      OBVIOUS
    <2>1. call.arg \in 0 .. MaxSleep
      BY DEF CallOK
    <2> HIDE DEF e, c
    <2>2. slp \in Still(Now)
      BY <1>4, <1>5, <2>1, QuietField
    <2>3. slp \in F
      <3>1. \A v \in 0 .. MaxSleep : [e EXCEPT !.proc[c].left = v] \in F
        BY <1>4, <1>5, FolkField
      <3> QED
        BY <2>1, <3>1
    <2> HIDE DEF slp
    <2>4. SleepLoop(slp) \in F
      BY <1>6, <2>2, <2>3, FolkSleepLoop
    <2> QED
      BY <1>2, <2>4, SameIs, SameRelief
  <1>8. call.op = "wait" => WaitLoop(wt) \in Relief(Now) \cup Burial(Now)
    <2> SUFFICES ASSUME call.op = "wait" PROVE WaitLoop(wt) \in Relief(Now) \cup Burial(Now)
      OBVIOUS
    <2>1. call.arg \in -1 .. MaxPid
      BY DEF CallOK
    <2> HIDE DEF e, c
    <2>2. wt \in Still(Now)
      BY <1>4, <1>5, <2>1, QuietField
    <2>3. wt \in F
      <3>1. \A v \in -1 .. MaxPid : [e EXCEPT !.proc[c].wpid = v] \in F
        BY <1>4, <1>5, FolkField
      <3> QED
        BY <2>1, <3>1
    <2> HIDE DEF wt
    <2> QED
      BY <1>2, <1>6, <2>2, <2>3, WaitLoopKin
  <1>9. k \in Relief(Now)
    BY <1>3, SameRelief
  <1> HIDE DEF slp, wt
  <1> QED
    BY <1>1, <1>7, <1>8, <1>9

LEMMA BecomeWaiting ==
  ASSUME NEW k \in Relief(Now) \cup Burial(Now), Become(k)
  PROVE  Now' \in Relief(Now) \cup Burial(Now)
  <1>1. k \in KState
    BY DEF Relief, Burial
  <1> QED
    BY <1>1, BecomeFacts

LEMMA ResumeKin ==
  ASSUME Clan(Now), Resume
  PROVE  Now' \in Relief(Now) \cup Burial(Now)
  <1>0. Now \in Orderly /\ Now \in Folk(Now, {}, Parents(Now), Now.fg) /\ Present(Now, {}, Now.fg)
    BY ClanFacts
  <1>1. OutsideScheduler(Now) /\ Now.curr \in Users
    BY <1>0, OrderlyNow, NowFacts, StateFacts DEF Resume
  <1>2. Become(SleepLoop(Now)) \/ Become(WaitLoop(Now))
    BY DEF Resume
  <1>3. SleepLoop(Now) \in Relief(Now)
    <2>1. Alive(Now, Now.curr)
      BY <1>0, <1>1, RunningTransit DEF Alive
    <2>2. SleepLoop(Now) \in Folk(Now, {}, Parents(Now), Now.fg)
      BY <1>0, <1>1, <2>1, FolkSleepLoop
    <2> QED
      BY <1>0, <2>2, SameIs, SameRelief
  <1>4. WaitLoop(Now) \in Relief(Now) \cup Burial(Now)
    BY <1>0, <1>1, WaitLoopKin
  <1> QED
    BY <1>2, <1>3, <1>4, BecomeWaiting

LEMMA BlockingKin ==
  ASSUME Clan(Now), SysWait \/ SysSleep
  PROVE  Now' \in Relief(Now) \cup Burial(Now)
  <1>0. Now \in Orderly /\ Now \in Still(Now) /\ Now \in Folk(Now, {}, Parents(Now), Now.fg)
    BY ClanFacts
  <1>1. mode = "user" /\ curr # Idle /\ TypeInv
    BY <1>0, OrderlyNow DEF SysWait, SysSleep, InUserCode
  <1>2. PICK call \in CallOK : Become(Start(Now, call))
    <2>1. CASE SysSleep
      BY <1>1, <2>1, CallFacts DEF SysSleep
    <2>2. CASE SysWait
      BY <1>1, <2>2, CallFacts DEF SysWait
    <2> QED
      BY <2>1, <2>2
  <1>3. Start(Now, call) \in Relief(Now) \cup Burial(Now)
    BY <1>0, <1>1, CallerFacts, StartKin
  <1> QED
    BY <1>2, <1>3, BecomeWaiting

LEMMA SigProxyRestoreKin ==
  ASSUME Clan(Now), SigProxyRestore
  PROVE  Now' \in Relief(Now) \cup Burial(Now)
  <1> DEFINE q == Now.proc[curr].proxied
             j == [Now EXCEPT !.proc[curr].proxied = Front(q)]
             k == [j EXCEPT !.proc[curr].call = Last(q)]
             F == Folk(Now, {}, Parents(Now), Now.fg)
  <1>0. Now \in Orderly /\ Now \in Still(Now) /\ Now \in F /\ Present(Now, {}, Now.fg)
    BY ClanFacts
  <1>1. mode = "user" /\ q # <<>> /\ (Become(Start(k, Last(q))) \/ Become(k))
    <2>1. proc[curr].proxied = q
      BY <1>0, OrderlyNow
    <2> QED
      BY <2>1 DEF SigProxyRestore
  <1>2. curr # Idle /\ curr \in Users /\ curr \in Slots
    BY <1>0, <1>1, UserFacts, OrderlyNow, NowFacts, StateFacts
  <1>3. q \in Seq(CallOK)
    BY <1>0, <1>2, OrderlyNow, NowFacts, StateFacts, ProcessFacts
  <1> HIDE DEF q
  <1>4. Front(q) \in Seq(CallOK) /\ Last(q) \in CallOK
    BY <1>1, <1>3, FrontLastFacts
  <1>5. k \in Still(Now)
    <2>1. j \in Still(Now)
      BY <1>0, <1>2, <1>4, QuietField
    <2> HIDE DEF j
    <2> QED
      BY <1>0, <1>2, <1>4, <2>1, QuietField
  <1>6. k \in F
    <2>1. \A v \in Seq(CallOK) : [Now EXCEPT !.proc[curr].proxied = v] \in F
      BY <1>0, <1>2, FolkField
    <2>2. j \in F
      BY <1>4, <2>1
    <2> HIDE DEF j
    <2>3. \A v \in CallOK : [j EXCEPT !.proc[curr].call = v] \in F
      BY <1>2, <2>2, FolkField
    <2> QED
      BY <1>4, <2>3
  <1> HIDE DEF k
  <1>7. Start(k, Last(q)) \in Relief(Now) \cup Burial(Now)
    BY <1>0, <1>1, <1>2, <1>4, <1>5, <1>6, CallerFacts, StartKin
  <1>8. k \in Relief(Now)
    BY <1>0, <1>6, SameIs, SameRelief
  <1> QED
    BY <1>1, <1>7, <1>8, BecomeWaiting

-----------------------------------------------------------------------------
(***************************************************************************)
(* fork.  A living process gets a child, which takes the next PID.         *)
(***************************************************************************)
\* Two entries of the table that differ in the call, say
Kindred(a, b) == b.pid = a.pid /\ b.ppid = a.ppid /\ b.state = a.state /\ b.event = a.event

Born(k, c, p, f, kk) ==
  /\ kk.pidNum = k.pidNum + 1 /\ kk.suspended = <<>> /\ kk.fg = f
  /\ \A q \in Users \ {c} : Kindred(k.proc[q], kk.proc[q])
  /\ kk.proc[c].pid = k.pidNum /\ kk.proc[c].ppid = k.proc[p].pid
  /\ kk.proc[c].state \in {"READY", "INIT"}

Birth(k) == {kk \in KState :
  \E c, p \in Users, f \in {k.fg, NULL} :
     /\ Alive(k, p) /\ ~ InUse(k, c) /\ k.pidNum <= MaxPid /\ Born(k, c, p, f, kk)}

LEMMA AllocateBorn ==
  ASSUME Clan(Now), NEW c \in Users, c = Min(FreeSlots), NEW p \in Users, p = Now.curr,
         NEW state \in {"READY", "INIT"}
  PROVE  \E f \in {Now.fg, NULL} : Born(Now, c, p, f, Allocate(Called, state))
  <1> DEFINE y     == Yield(Called, Called.curr)
             child == Child(Called.pidNum, Called.proc[Called.curr].pid, state)
             r1    == [y EXCEPT !.proc[c] = child]
             r2    == [r1 EXCEPT !.zombies = CutAfter(r1.zombies, c)]
             a     == Allocate(Called, state)
  <1>0. /\ Called \in KRecord /\ Called.curr = Now.curr /\ Called.fg = Now.fg
        /\ Called.pidNum = Now.pidNum /\ Called.suspended = <<>>
        /\ \A q \in Users : Kindred(Now.proc[q], Called.proc[q])
    <2>1. Now \in KState /\ Now \in KRecord /\ Called \in KRecord /\ Now.suspended = <<>>
      BY ClanFacts, CalledKin, FolkFacts
    <2>2. \A q \in Users : q \in Slots /\ Now.proc[q] \in ProcessOK
      BY <2>1, Sets DEF KRecord
    <2>3. \A q \in Users : Kindred(Now.proc[q], Called.proc[q])
      <3>1. Now.proc = proc /\ DOMAIN proc = Slots
        BY <2>1 DEF Now, KRecord
      <3>2. Called.proc = [proc EXCEPT ![curr].call = NoCall]
        BY DEF Called, Now
      <3>3. ASSUME NEW q \in Users PROVE Kindred(proc[q], Called.proc[q])
        <4>1. q \in DOMAIN proc /\ proc[q] \in ProcessOK
          BY <2>2, <3>1
        <4>2. Called.proc[q] = IF q = curr THEN [proc[q] EXCEPT !.call = NoCall] ELSE proc[q]
          BY <3>2, <4>1
        <4> QED
          BY <4>1, <4>2 DEF Kindred, ProcessOK
      <3> QED
        BY <3>1, <3>3
    <2> QED
      BY <2>1, <2>3 DEF Called, KRecord
  <1>1. c \in Slots
    BY Sets
  <1> HIDE DEF Called
  <1>2. /\ y.proc = Called.proc /\ y.pidNum = Called.pidNum /\ y.suspended = Called.suspended
        /\ y.fg \in {Called.fg, NULL} /\ DOMAIN y = DOMAIN Called
    BY <1>0 DEF Yield, KRecord
  <1>3. child.pid = Now.pidNum /\ child.ppid = Now.proc[p].pid /\ child.state = state
    BY <1>0 DEF Child, Blank, Kindred
  <1>4. a = [r2 EXCEPT !.pidNum = r2.pidNum + 1]
    BY DEF Allocate
  <1>5. y \in [proc : {y.proc}, ready : {y.ready}, waiting : {y.waiting}, suspended : {y.suspended},
               zombies : {y.zombies}, curr : {y.curr}, fg : {y.fg}, pidNum : {y.pidNum}, mode : {y.mode}]
    BY <1>0 DEF Yield, KRecord
  <1> HIDE DEF y, child, a
  <1>6. /\ a.proc = [Called.proc EXCEPT ![c] = child] /\ a.pidNum = Now.pidNum + 1
        /\ a.suspended = <<>> /\ a.fg = y.fg
    BY <1>0, <1>1, <1>2, <1>4, <1>5
  <1>7. a.proc[c] = child /\ \A q \in Users \ {c} : a.proc[q] = Called.proc[q]
    BY <1>0, <1>1, <1>6, Sets DEF KRecord
  <1>8. Born(Now, c, p, y.fg, a)
    BY <1>0, <1>3, <1>6, <1>7 DEF Born
  <1> QED
    BY <1>0, <1>2, <1>8 DEF a

LEMMA ForkKin ==
  ASSUME Clan(Now), SysFork \/ SysForkFails
  PROVE  Now' \in Birth(Now)
  <1> DEFINE c == Min(FreeSlots)
             a == Allocate(Called, "READY")
             i == Allocate(Called, "INIT")
             b == [a EXCEPT !.ready = PushBack(a.ready, c)]
  <1>0. Now \in Orderly
    BY ClanFacts
  <1>1. FreeSlots # {} /\ pidNum <= MaxPid /\ mode = "user" /\ curr # Idle
    BY DEF SysFork, SysForkFails, InUserCode
  <1>2. c \in Users /\ ~ InUse(Now, c)
    <2>1. FreeSlots \subseteq Users
      BY DEF FreeSlots
    <2>2. c \in Users /\ c \in FreeSlots
      BY <1>1, <2>1, MinFacts, Sets
    <2> QED
      BY <1>0, <2>2, OrderlyNow DEF FreeSlots, InUse
  <1>3. curr \in Users /\ Now.curr = curr /\ Alive(Now, curr) /\ Now.pidNum <= MaxPid
    BY <1>0, <1>1, CallerFacts, OrderlyNow DEF Alive
  <1>4. Now' \in KState
    BY <1>0, ForkStep, OrderlyFacts DEF Step, After
  <1>5. SysFork => Become(b)
    BY DEF SysFork
  <1>6. SysForkFails => Become(i)
    BY DEF SysForkFails
  <1>7. PICK f \in {Now.fg, NULL} : Born(Now, c, curr, f, a)
    BY <1>2, <1>3, AllocateBorn
  <1>8. PICK g \in {Now.fg, NULL} : Born(Now, c, curr, g, i)
    BY <1>2, <1>3, AllocateBorn
  <1>9. /\ b.proc = a.proc /\ b.pidNum = a.pidNum /\ b.suspended = a.suspended /\ b.fg = a.fg
    OBVIOUS
  <1> HIDE DEF a, b, i, c
  <1>10. Born(Now, c, curr, f, b)
    BY <1>7, <1>9 DEF Born
  <1>11. ASSUME NEW k, Become(k), NEW h \in {Now.fg, NULL}, Born(Now, c, curr, h, k)
         PROVE  Now' \in Birth(Now)
    <2>1. Now'.proc = k.proc /\ Now'.pidNum = k.pidNum /\ Now'.suspended = k.suspended /\ Now'.fg = k.fg
      BY <1>11 DEF Become, Now
    <2>2. Born(Now, c, curr, h, Now')
      BY <1>11, <2>1 DEF Born
    <2> QED
      BY <1>2, <1>3, <1>4, <2>2 DEF Birth
  <1> QED
    BY <1>5, <1>6, <1>8, <1>10, <1>11

-----------------------------------------------------------------------------
(***************************************************************************)
(* Every step is one of these.                                             *)
(***************************************************************************)
LEMMA StepKin ==
  ASSUME FamilyUse, Clan(Now), [Next]_vars
  PROVE  Now' \in Relief(Now) \cup Burial(Now) \cup Loss(Now) \cup Birth(Now)
  <1> DEFINE outcome == Relief(Now) \cup Burial(Now) \cup Loss(Now) \cup Birth(Now)
  <1>1. OrderlyUse /\ Stopless
    BY DEF FamilyUse, OrderlyUse, Stopless, Known, SIGCONT, SIGTERM, SIGKILL, SIGCHLD, SIGSTOP, SIGTSTP
  <1>2. Same(Now) \subseteq outcome
    BY SameRelief
  <1>3. CASE UNCHANGED vars
    <2>1. Now' = Now
      BY <1>3 DEF vars, Now
    <2> QED
      BY <1>2, <2>1, ClanFacts
  <1>4. CASE Halted
    BY <1>3, <1>4 DEF Halted
  <1>5. CASE Tick \/ ScanSuspended \/ ConsiderHead \/ RunIdle
    BY <1>1, <1>2, <1>5, TickKin, ScanSuspendedKin, ConsiderHeadKin, RunIdleKin
  <1>6. CASE Resume \/ SysWait \/ SysSleep \/ SigProxyRestore
    BY <1>6, ResumeKin, BlockingKin, SigProxyRestoreKin
  <1>7. CASE SysFork \/ SysForkFails
    BY <1>7, ForkKin
  <1>8. CASE SysExec \/ SysExit \/ SysKill \/ SysSignal \/ SysPctrl
    BY <1>1, <1>2, <1>8, SysExecKin, SysExitKin, SysKillKin, SysSignalKin, SysPctrlKin DEF OrderlyUse
  <1> HIDE DEF outcome
  <1>9. Now' \in outcome
    BY <1>3, <1>4, <1>5, <1>6, <1>7, <1>8 DEF Next, outcome
  <1> QED
    BY <1>9 DEF outcome

-----------------------------------------------------------------------------
(***************************************************************************)
(* The family, as Family sees it.                                          *)
(***************************************************************************)
Stage == [p \in Users |-> CASE proc[p].state = "UNUSED" -> "none"
                            [] proc[p].state = "KILLED" -> "dead"
                            [] OTHER                    -> "alive"]
Pid  == [p \in Users |-> proc[p].pid]
Ppid == [p \in Users |-> proc[p].ppid]

View == INSTANCE FamilyProofs WITH stage <- Stage, pid <- Pid, ppid <- Ppid,
                                   HangUps <- SIGHUP \in Sendable /\ -1 \in Targets

LEMMA ViewSets ==
  /\ View!Slot = FamilyView!Slot /\ View!Alive = FamilyView!Alive
  /\ View!Dead = FamilyView!Dead /\ View!Slot = Users /\ View!FamilyAssumption
  BY KernelAssumption DEF View!Slot, FamilyView!Slot, View!Alive, FamilyView!Alive, View!Dead,
     FamilyView!Dead, Users, Stage, View!FamilyAssumption

\* It is the view Family is instantiated with.
LEMMA SameView == ImplementsFamily <=> View!Spec
  <1>1. View!Init <=> FamilyView!Init
    BY ViewSets DEF View!Init, FamilyView!Init, Stage, Pid, Ppid
  <1>2. \A p, c : View!Fork(p, c) <=> FamilyView!Fork(p, c)
    BY DEF View!Fork, FamilyView!Fork, Stage, Pid, Ppid
  <1>3. \A D, A : View!Settle(D, A) <=> FamilyView!Settle(D, A)
    BY ViewSets DEF View!Settle, FamilyView!Settle, Stage, Pid, Ppid
  <1>4. \A z, A : View!Collect(z, A) <=> FamilyView!Collect(z, A)
    BY ViewSets DEF View!Collect, FamilyView!Collect, Stage, Pid, Ppid
  <1>5. View!Collapse <=> FamilyView!Collapse
    BY ViewSets DEF View!Collapse, FamilyView!Collapse, Stage, Pid, Ppid
  <1>6. \A F : View!HangUp(F) <=> FamilyView!HangUp(F)
    BY ViewSets DEF View!HangUp, FamilyView!HangUp, Stage, Pid, Ppid
  <1>7. View!Next <=> FamilyView!Next
    BY <1>2, <1>3, <1>4, <1>5, <1>6, ViewSets DEF View!Next, FamilyView!Next
  <1>8. [View!Next]_(View!family) <=> [FamilyView!Next]_(FamilyView!family)
    BY <1>7 DEF View!family, FamilyView!family, Stage, Pid, Ppid
  <1> QED
    BY <1>1, <1>8, PTL DEF ImplementsFamily, FamilyView!Spec, View!Spec

\* What the view says of the state k of the process table.
Seen(k, stage, pid, ppid) ==
  /\ \A q \in Users : /\ stage[q] = "none" <=> ~ InUse(k, q)
                      /\ stage[q] = "dead" <=> k.proc[q].state = "KILLED"
                      /\ stage[q] = "alive" <=> Alive(k, q)
                      /\ pid[q] = k.proc[q].pid /\ ppid[q] = k.proc[q].ppid
  /\ stage \in [Users -> {"none", "alive", "dead"}]
  /\ DOMAIN pid = Users /\ pid = [q \in Users |-> pid[q]]
  /\ DOMAIN ppid = Users /\ ppid = [q \in Users |-> ppid[q]]

LEMMA SeenNow == Seen(Now, Stage, Pid, Ppid)
  BY DEF Seen, Stage, Pid, Ppid, Now, InUse, Alive

LEMMA SeenNext == Seen(Now', Stage', Pid', Ppid')
  BY DEF Seen, Stage, Pid, Ppid, Now, InUse, Alive

-----------------------------------------------------------------------------
(***************************************************************************)
(* What every state has, besides what Orderly and the promises of Family   *)
(* say.                                                                    *)
(***************************************************************************)
Steady(k) == k \in Folk(k, {}, Parents(k), k.fg) /\ Present(k, {}, k.fg) /\ Rooted(k)

LEMMA FolkSteady ==
  ASSUME NEW k0, Rooted(k0), NEW D, NEW R, NEW f, NEW k \in Folk(k0, D, R, f),
         Present(k0, D, f), \A q \in Users : R[q] \in {k0.proc[q].ppid, 1}
  PROVE  Steady(k)
  <1>1. k \in KState /\ k \in KRecord /\ k.fg = f /\ k.suspended = <<>> /\ k.pidNum = k0.pidNum
    BY FolkFacts
  <1>2. ASSUME NEW q \in Users
        PROVE  Member(k.proc[q], k.proc[q], q \in {}, Parents(k)[q])
    <2>1. Member(k0.proc[q], k.proc[q], q \in D, R[q])
      BY DEF Folk
    <2>2. Parents(k)[q] = k.proc[q].ppid
      BY DEF Parents
    <2> QED
      BY <2>1, <2>2 DEF Member
  <1>3. k \in Folk(k, {}, Parents(k), k.fg)
    BY <1>1, <1>2 DEF Folk
  <1>4. Present(k, {}, k.fg)
    <2>1. f \in Users \cup {NULL}
      BY <1>1 DEF KRecord
    <2>2. \A q \in Users : Alive(k, q) <=> Alive(k0, q) /\ q \notin D
      BY FolkFacts
    <2> QED
      BY <1>1, <2>1, <2>2, Sets DEF Present
  <1>5. Rooted(k)
    <2>1. \A q \in Users : k.proc[q].ppid = R[q]
      BY FolkFacts
    <2>2. \A q \in Users : k.proc[q].ppid \in {k0.proc[q].ppid, 1}
      BY <2>1
    <2> QED
      BY <2>2, Sets DEF Rooted
  <1> QED
    BY <1>3, <1>4, <1>5 DEF Steady

LEMMA GoneSteady ==
  ASSUME NEW k0, Rooted(k0), NEW R, NEW f, NEW z \in Users \ {1}, NEW k \in KState,
         k0.proc[z].state = "KILLED", Gone(k0, z, R, f, k), Present(k0, {}, f),
         \A q \in Users : R[q] \in {k0.proc[q].ppid, 1}
  PROVE  Steady(k)
  <1>1. k \in KRecord /\ k.fg = f /\ k.suspended = <<>> /\ k.pidNum = k0.pidNum
    BY DEF KState, Gone
  <1>2. /\ \A q \in Users \ {z} : Member(k0.proc[q], k.proc[q], FALSE, R[q])
        /\ k.proc[z].state = "UNUSED" /\ k.proc[z].ppid = 0
    BY DEF Gone
  <1>3. ASSUME NEW q \in Users
        PROVE  Member(k.proc[q], k.proc[q], q \in {}, Parents(k)[q])
    <2>1. Parents(k)[q] = k.proc[q].ppid
      BY DEF Parents
    <2>2. CASE q = z
      BY <1>2, <2>1, <2>2 DEF Member
    <2>3. CASE q # z
      BY <1>2, <2>1, <2>3 DEF Member
    <2> QED
      BY <2>2, <2>3
  <1>4. k \in Folk(k, {}, Parents(k), k.fg)
    BY <1>1, <1>3 DEF Folk
  <1>5. Present(k, {}, k.fg)
    <2>1. f \in Users \cup {NULL}
      BY <1>1 DEF KRecord
    <2>2. \A q \in Users \ {z} : Alive(k, q) <=> Alive(k0, q)
      BY <1>2 DEF Member, Alive
    <2>3. ~ Alive(k0, z)
      BY DEF Alive
    <2> QED
      BY <1>1, <2>1, <2>2, <2>3, Sets DEF Present
  <1>6. Rooted(k)
    <2>1. \A q \in Users \ {z} : k.proc[q].ppid \in {k0.proc[q].ppid, 1}
      BY <1>2 DEF Member
    <2> QED
      BY <2>1, Sets DEF Rooted
  <1> QED
    BY <1>4, <1>5, <1>6 DEF Steady

LEMMA BornSteady ==
  ASSUME NEW k0, Clan(k0), NEW c \in Users, NEW p \in Users, NEW f \in {k0.fg, NULL},
         NEW k \in KState, ~ InUse(k0, c), k0.proc[p].pid < k0.pidNum, Born(k0, c, p, f, k)
  PROVE  Steady(k)
  <1>0. /\ Rooted(k0) /\ Present(k0, {}, k0.fg) /\ InUse(k0, 1) /\ k0 \in KRecord
        /\ \A q \in Users : Member(k0.proc[q], k0.proc[q], FALSE, k0.proc[q].ppid)
    <2>1. /\ Rooted(k0) /\ Present(k0, {}, k0.fg) /\ Whole(k0) /\ k0 \in KRecord
          /\ k0 \in Folk(k0, {}, Parents(k0), k0.fg)
      BY ClanFacts
    <2> QED
      BY <2>1 DEF Folk, Member, Parents, Whole
  <1>1. /\ k \in KRecord /\ k.fg = f /\ k.suspended = <<>> /\ k.pidNum = k0.pidNum + 1
        /\ \A q \in Users \ {c} : Kindred(k0.proc[q], k.proc[q])
        /\ k.proc[c].ppid = k0.proc[p].pid /\ k.proc[c].state \in {"READY", "INIT"}
    BY DEF KState, Born
  <1>2. c # 1
    BY <1>0
  <1>3. ASSUME NEW q \in Users
        PROVE  Member(k.proc[q], k.proc[q], q \in {}, Parents(k)[q])
    <2>1. Parents(k)[q] = k.proc[q].ppid
      BY DEF Parents
    <2>2. CASE q = c
      BY <1>1, <2>1, <2>2 DEF Member
    <2>3. CASE q # c
      BY <1>0, <1>1, <2>1, <2>3 DEF Member, Kindred
    <2> QED
      BY <2>2, <2>3
  <1>4. k \in Folk(k, {}, Parents(k), k.fg)
    BY <1>1, <1>3 DEF Folk
  <1>5. Present(k, {}, k.fg)
    <2>1. f \in Users \cup {NULL}
      BY <1>1 DEF KRecord
    <2>2. \A q \in Users \ {c} : Alive(k, q) <=> Alive(k0, q)
      BY <1>1 DEF Alive, Kindred
    <2>3. ~ Alive(k0, c)
      BY DEF Alive, InUse
    <2> QED
      BY <1>0, <1>1, <1>2, <2>1, <2>2, <2>3, Sets DEF Present
  <1>6. Rooted(k)
    BY <1>0, <1>1, <1>2, Sets DEF Rooted, Kindred
  <1> QED
    BY <1>4, <1>5, <1>6 DEF Steady

-----------------------------------------------------------------------------
(***************************************************************************)
(* Each outcome is a step of Family.  While init lives, a death and the    *)
(* relief of the dead are a Settle, what wait collects is a Collect; once  *)
(* init is dead nothing more is promised.                                  *)
(***************************************************************************)
ViewStep == [View!Next]_(View!family)

LEMMA NumbersFacts ==
  ASSUME NEW k, Steady(k)
  PROVE  /\ k.pidNum \in Nat
         /\ \A q \in Users : k.proc[q].pid \in Nat /\ k.proc[q].ppid \in 0 .. MaxPid
  <1>1. k \in KRecord
    BY FolkFacts DEF Steady
  <1>2. \A q \in Users : k.proc[q] \in ProcessOK
    BY <1>1, Sets DEF KRecord
  <1> QED
    BY <1>1, <1>2, ProcessFacts DEF KRecord

\* init is dead.
LEMMA CollapseView ==
  ASSUME Steady(Now'), pidNum' = pidNum, ~ Alive(Now', 1), InUse(Now', 1),
         \A q \in Users : /\ Now'.proc[q].pid = Now.proc[q].pid
                          /\ InUse(Now', q) => InUse(Now, q)
                          /\ Alive(Now', q) => Alive(Now, q)
  PROVE  ViewStep
  <1>1. Seen(Now, Stage, Pid, Ppid) /\ Seen(Now', Stage', Pid', Ppid') /\ Now'.pidNum = pidNum'
    BY SeenNow, SeenNext DEF Now
  <1>2. Stage' \in [Users -> {"none", "alive", "dead"}] /\ Stage'[1] = "dead"
    BY <1>1, Sets DEF Seen, Alive, InUse
  <1>3. \A q \in Users : /\ Stage[q] = "none" => Stage'[q] = "none"
                         /\ Stage[q] = "dead" => Stage'[q] # "alive"
    BY <1>1 DEF Seen, Alive
  <1>4. Ppid' \in [Users -> 0 .. MaxPid]
    <2>1. \A q \in Users : Ppid'[q] \in 0 .. MaxPid
      BY <1>1, NumbersFacts DEF Seen
    <2> QED
      BY <1>1, <2>1 DEF Seen
  <1>5. Pid' = Pid
    <2>1. \A q \in Users : Pid'[q] = Pid[q]
      BY <1>1 DEF Seen
    <2> QED
      BY <1>1, <2>1 DEF Seen
  <1> QED
    BY <1>2, <1>3, <1>4, <1>5, ViewSets DEF ViewStep, View!Next, View!Collapse

\* Some of the dead change their parent, and some of the living die.
LEMMA SettleView ==
  ASSUME Alive(Now, 1), NEW D \in SUBSET Users, \A d \in D : Alive(Now, d), 1 \notin D,
         NEW A \in SUBSET DeadOf(Now), pidNum' = pidNum,
         \A q \in Users : /\ Now'.proc[q].pid = Now.proc[q].pid
                          /\ InUse(Now', q) <=> InUse(Now, q)
                          /\ Alive(Now', q) <=> Alive(Now, q) /\ q \notin D
                          /\ Now'.proc[q].ppid =
                               IF \/ q \in A
                                  \/ InUse(Now, q) /\ \E d \in D : Now.proc[q].ppid = Now.proc[d].pid
                               THEN 1 ELSE Now.proc[q].ppid
  PROVE  ViewStep
  <1>1. Seen(Now, Stage, Pid, Ppid) /\ Seen(Now', Stage', Pid', Ppid')
    BY SeenNow, SeenNext
  <1>2. Stage' = [q \in Users |-> IF q \in D THEN "dead" ELSE Stage[q]]
    <2>1. \A q \in Users : Stage'[q] = IF q \in D THEN "dead" ELSE Stage[q]
      BY <1>1 DEF Seen, Alive, InUse
    <2>2. Stage' \in [Users -> {"none", "alive", "dead"}]
      BY <1>1 DEF Seen
    <2> QED
      BY <2>1, <2>2
  <1>3. Ppid' = [q \in Users |->
                   IF q \in A \/ (Stage[q] # "none" /\ \E d \in D : Ppid[q] = Pid[d])
                   THEN 1 ELSE Ppid[q]]
    <2>1. \A q \in Users : Ppid'[q] =
             IF q \in A \/ (Stage[q] # "none" /\ \E d \in D : Ppid[q] = Pid[d])
             THEN 1 ELSE Ppid[q]
      BY <1>1 DEF Seen
    <2>2. Ppid' = [q \in Users |-> Ppid'[q]]
      BY <1>1 DEF Seen
    <2> QED
      BY <2>1, <2>2
  <1>4. Pid' = Pid
    <2>1. \A q \in Users : Pid'[q] = Pid[q]
      BY <1>1 DEF Seen
    <2> QED
      BY <1>1, <2>1 DEF Seen
  <1>5. Stage[1] = "alive" /\ D \in SUBSET View!Alive /\ A \in SUBSET View!Dead
    BY <1>1, ViewSets, Sets DEF Seen, View!Alive, View!Dead, DeadOf
  <1>6. View!Settle(D, A)
    BY <1>2, <1>3, <1>4, <1>5, ViewSets DEF View!Settle
  <1> QED
    BY <1>5, <1>6 DEF ViewStep, View!Next

LEMMA ReliefView ==
  ASSUME Clan(Now), Now' \in Relief(Now)
  PROVE  Steady(Now') /\ ViewStep
  <1>1. PICK A, f :
           /\ A \in SUBSET DeadOf(Now)
           /\ Now' \in Folk(Now, {}, Taken(Now, A), f) /\ Present(Now, {}, f)
    BY DEF Relief
  <1>2. \A q \in Users : /\ Taken(Now, A)[q] = IF q \in A THEN 1 ELSE Now.proc[q].ppid
                         /\ Taken(Now, A)[q] \in {Now.proc[q].ppid, 1}
    BY DEF Taken
  <1>3. Steady(Now')
    BY <1>1, <1>2, ClanFacts, FolkSteady
  <1>4. /\ pidNum' = pidNum
        /\ \A q \in Users : /\ InUse(Now', q) <=> InUse(Now, q)
                            /\ Alive(Now', q) <=> Alive(Now, q)
                            /\ Now'.proc[q].pid = Now.proc[q].pid
                            /\ Now'.proc[q].ppid = IF q \in A THEN 1 ELSE Now.proc[q].ppid
    <2>1. Now'.pidNum = pidNum' /\ Now.pidNum = pidNum
      BY DEF Now
    <2> QED
      BY <1>1, <1>2, <2>1, FolkFacts
  <1>5. CASE Alive(Now, 1)
    <2> DEFINE D == {}
    <2>1. D \in SUBSET Users /\ (\A d \in D : Alive(Now, d)) /\ 1 \notin D /\ \A q : q \notin D
      OBVIOUS
    <2> HIDE DEF D
    <2>2. \A q \in Users :
             /\ Now'.proc[q].pid = Now.proc[q].pid
             /\ InUse(Now', q) <=> InUse(Now, q)
             /\ Alive(Now', q) <=> Alive(Now, q) /\ q \notin D
             /\ Now'.proc[q].ppid =
                  IF \/ q \in A
                     \/ InUse(Now, q) /\ \E d \in D : Now.proc[q].ppid = Now.proc[d].pid
                  THEN 1 ELSE Now.proc[q].ppid
      BY <1>4, <2>1
    <2>3. ViewStep
      BY <1>1, <1>4, <1>5, <2>1, <2>2, SettleView
    <2> QED
      BY <1>3, <2>3
  <1>6. CASE ~ Alive(Now, 1)
    <2>1. InUse(Now', 1) /\ ~ Alive(Now', 1)
      BY <1>4, <1>6, ClanFacts, Sets DEF Whole
    <2>2. ViewStep
      BY <1>3, <1>4, <2>1, CollapseView
    <2> QED
      BY <1>3, <2>2
  <1> QED
    BY <1>5, <1>6

LEMMA LossView ==
  ASSUME Clan(Now), Now' \in Loss(Now)
  PROVE  Steady(Now') /\ ViewStep
  <1>1. PICK p \in Users : Alive(Now, p) /\ Now' \in Mourning(Now, p)
    BY DEF Loss
  <1>2. PICK R, f : /\ Now' \in Folk(Now, {p}, R, f)
                    /\ \A q \in Users : R[q] \in {Now.proc[q].ppid, 1}
                    /\ Alive(Now, 1) /\ p # 1 => R = Reparented(Now, Parents(Now), Now.proc[p].pid, 1)
                    /\ Present(Now, {p}, f)
    BY <1>1 DEF Mourning
  <1>3. Steady(Now')
    BY <1>2, ClanFacts, FolkSteady
  <1>4. /\ pidNum' = pidNum
        /\ \A q \in Users : /\ InUse(Now', q) <=> InUse(Now, q)
                            /\ Alive(Now', q) <=> Alive(Now, q) /\ q \notin {p}
                            /\ Now'.proc[q].pid = Now.proc[q].pid
                            /\ Now'.proc[q].ppid = R[q]
    <2>1. Now'.pidNum = pidNum' /\ Now.pidNum = pidNum
      BY DEF Now
    <2> QED
      BY <1>2, <2>1, FolkFacts
  <1>5. CASE Alive(Now, 1) /\ p # 1
    <2>1. \A q \in Users :
             R[q] = IF InUse(Now, q) /\ Now.proc[q].ppid = Now.proc[p].pid THEN 1 ELSE Now.proc[q].ppid
      BY <1>2, <1>5 DEF Reparented, Parents
    <2> DEFINE D == {p}
               A == {}
    <2>2. /\ D \in SUBSET Users /\ (\A d \in D : Alive(Now, d)) /\ 1 \notin D
          /\ \A q : q \in D <=> q = p
          /\ A \in SUBSET DeadOf(Now) /\ \A q : q \notin A
      BY <1>1, <1>5
    <2> HIDE DEF D, A
    <2>3. \A q \in Users :
             /\ Now'.proc[q].pid = Now.proc[q].pid
             /\ InUse(Now', q) <=> InUse(Now, q)
             /\ Alive(Now', q) <=> Alive(Now, q) /\ q \notin D
             /\ Now'.proc[q].ppid =
                  IF \/ q \in A
                     \/ InUse(Now, q) /\ \E d \in D : Now.proc[q].ppid = Now.proc[d].pid
                  THEN 1 ELSE Now.proc[q].ppid
      BY <1>4, <2>1, <2>2
    <2>4. ViewStep
      BY <1>4, <1>5, <2>2, <2>3, SettleView
    <2> QED
      BY <1>3, <2>4
  <1>6. CASE ~ (Alive(Now, 1) /\ p # 1)
    <2>1. InUse(Now', 1) /\ ~ Alive(Now', 1)
      BY <1>4, <1>6, ClanFacts, Sets DEF Whole
    <2>2. ViewStep
      BY <1>3, <1>4, <2>1, CollapseView
    <2> QED
      BY <1>3, <2>2
  <1> QED
    BY <1>5, <1>6

\* A dead child of a living process is collected.
LEMMA BurialView ==
  ASSUME Clan(Now), Now' \in Burial(Now)
  PROVE  Steady(Now') /\ ViewStep
  <1>1. PICK A, z, p, f :
           /\ A \in SUBSET DeadOf(Now) /\ z \in DeadOf(Now) \ {1} /\ p \in Users
           /\ Alive(Now, p) /\ Now.proc[p].pid = Taken(Now, A)[z]
           /\ Gone(Now, z, Taken(Now, A), f, Now') /\ Present(Now, {}, f)
    BY DEF Burial
  <1>2. Now' \in KState /\ z \in Users \ {1} /\ Now.proc[z].state = "KILLED"
    BY <1>1 DEF Burial, DeadOf
  <1>3. \A q \in Users : /\ Taken(Now, A)[q] = IF q \in A THEN 1 ELSE Now.proc[q].ppid
                         /\ Taken(Now, A)[q] \in {Now.proc[q].ppid, 1}
    BY DEF Taken
  <1>4. Steady(Now')
    BY <1>1, <1>2, <1>3, ClanFacts, GoneSteady
  <1>5. pidNum' = pidNum
    <2>1. Now'.pidNum = pidNum' /\ Now.pidNum = pidNum
      BY DEF Now
    <2> QED
      BY <1>1, <2>1 DEF Gone
  <1>6. ASSUME NEW q \in Users, q # z
        PROVE  /\ InUse(Now', q) <=> InUse(Now, q)
               /\ Alive(Now', q) <=> Alive(Now, q)
               /\ Now'.proc[q].pid = Now.proc[q].pid
               /\ Now'.proc[q].ppid = IF q \in A THEN 1 ELSE Now.proc[q].ppid
    <2>1. Member(Now.proc[q], Now'.proc[q], FALSE, Taken(Now, A)[q])
      BY <1>1, <1>6 DEF Gone
    <2> QED
      BY <1>3, <2>1 DEF Member, InUse, Alive
  <1>7. /\ ~ InUse(Now', z) /\ ~ Alive(Now', z) /\ InUse(Now, z) /\ ~ Alive(Now, z)
        /\ Now'.proc[z].pid = Now.proc[z].pid /\ Now'.proc[z].ppid = 0
    BY <1>1, <1>2 DEF Gone, InUse, Alive
  <1>8. CASE Alive(Now, 1)
    <2>1. Seen(Now, Stage, Pid, Ppid) /\ Seen(Now', Stage', Pid', Ppid')
      BY SeenNow, SeenNext
    <2>2. Stage' = [Stage EXCEPT ![z] = "none"]
      <3>1. \A q \in Users : Stage'[q] = IF q = z THEN "none" ELSE Stage[q]
        BY <1>6, <1>7, <2>1 DEF Seen, Alive, InUse
      <3>2. Stage' \in [Users -> {"none", "alive", "dead"}] /\ Stage \in [Users -> {"none", "alive", "dead"}]
        BY <2>1 DEF Seen
      <3> QED
        BY <1>2, <3>1, <3>2
    <2>3. Ppid' = [q \in Users |-> IF q = z THEN 0 ELSE IF q \in A THEN 1 ELSE Ppid[q]]
      <3>1. \A q \in Users : Ppid'[q] = IF q = z THEN 0 ELSE IF q \in A THEN 1 ELSE Ppid[q]
        BY <1>6, <1>7, <2>1 DEF Seen
      <3>2. Ppid' = [q \in Users |-> Ppid'[q]]
        BY <2>1 DEF Seen
      <3> QED
        BY <3>1, <3>2
    <2>4. Pid' = Pid
      <3>1. \A q \in Users : Pid'[q] = Pid[q]
        BY <1>6, <1>7, <2>1 DEF Seen
      <3> QED
        BY <2>1, <3>1 DEF Seen
    <2>5. Stage[1] = "alive" /\ Stage[z] = "dead" /\ A \in SUBSET View!Dead /\ z \in View!Dead
      BY <1>1, <1>2, <1>8, <2>1, ViewSets, Sets DEF Seen, View!Dead, DeadOf
    <2>6. Stage[p] = "alive" /\ Pid[p] = IF z \in A THEN 1 ELSE Ppid[z]
      BY <1>1, <1>2, <1>3, <2>1 DEF Seen
    <2>7. View!Collect(z, A)
      BY <1>1, <1>5, <2>2, <2>3, <2>4, <2>5, <2>6, ViewSets DEF View!Collect
    <2>8. ViewStep
      BY <2>5, <2>7 DEF ViewStep, View!Next
    <2> QED
      BY <1>4, <2>8
  <1>9. CASE ~ Alive(Now, 1)
    <2>1. InUse(Now', 1) /\ ~ Alive(Now', 1)
      BY <1>2, <1>6, <1>9, ClanFacts, Sets DEF Whole
    <2>2. ViewStep
      BY <1>4, <1>5, <1>6, <1>7, <2>1, CollapseView
    <2> QED
      BY <1>4, <2>2
  <1> QED
    BY <1>8, <1>9

\* A child is born.
LEMMA BirthView ==
  ASSUME Clan(Now), Now' \in Birth(Now),
         \A q \in Users : InUse(Now, q) => Now.proc[q].pid < Now.pidNum
  PROVE  Steady(Now') /\ ViewStep
  <1>1. PICK c \in Users, p \in Users, f \in {Now.fg, NULL} :
           /\ Alive(Now, p) /\ ~ InUse(Now, c) /\ Now.pidNum <= MaxPid /\ Born(Now, c, p, f, Now')
    BY DEF Birth
  <1>2. Now' \in KState /\ Now.proc[p].pid < Now.pidNum
    BY <1>1 DEF Birth, Alive, InUse
  <1>3. Steady(Now')
    BY <1>1, <1>2, BornSteady
  <1>4. /\ Now'.pidNum = pidNum' /\ Now.pidNum = pidNum
        /\ Seen(Now, Stage, Pid, Ppid) /\ Seen(Now', Stage', Pid', Ppid')
    BY SeenNow, SeenNext DEF Now
  <1>5. /\ pidNum' = pidNum + 1
        /\ \A q \in Users \ {c} : Kindred(Now.proc[q], Now'.proc[q])
        /\ Now'.proc[c].pid = pidNum /\ Now'.proc[c].ppid = Now.proc[p].pid
        /\ Alive(Now', c)
    BY <1>1, <1>4 DEF Born, Alive
  <1>6. Stage' = [Stage EXCEPT ![c] = "alive"]
    <2>1. \A q \in Users : Stage'[q] = IF q = c THEN "alive" ELSE Stage[q]
      BY <1>4, <1>5 DEF Seen, Alive, InUse, Kindred
    <2>2. Stage' \in [Users -> {"none", "alive", "dead"}] /\ Stage \in [Users -> {"none", "alive", "dead"}]
      BY <1>4 DEF Seen
    <2> QED
      BY <2>1, <2>2
  <1>7. Pid' = [Pid EXCEPT ![c] = pidNum]
    <2>1. \A q \in Users : Pid'[q] = IF q = c THEN pidNum ELSE Pid[q]
      BY <1>4, <1>5 DEF Seen, Kindred
    <2> QED
      BY <1>4, <2>1 DEF Seen
  <1>8. Ppid' = [Ppid EXCEPT ![c] = Pid[p]]
    <2>1. \A q \in Users : Ppid'[q] = IF q = c THEN Pid[p] ELSE Ppid[q]
      BY <1>4, <1>5 DEF Seen, Kindred
    <2> QED
      BY <1>4, <2>1 DEF Seen
  <1>9. Stage[p] = "alive" /\ Stage[c] = "none"
    BY <1>1, <1>4 DEF Seen
  <1>10. View!Fork(p, c)
    BY <1>1, <1>4, <1>5, <1>6, <1>7, <1>8, <1>9 DEF View!Fork
  <1>11. ViewStep
    BY <1>10, ViewSets DEF ViewStep, View!Next
  <1> QED
    BY <1>3, <1>11

-----------------------------------------------------------------------------
(***************************************************************************)
(* The inductive invariant, and the theorems.                              *)
(***************************************************************************)
KinInv == Now \in Orderly /\ Steady(Now) /\ View!FamilyInv

LEMMA KinIsClan ==
  ASSUME KinInv
  PROVE  Clan(Now) /\ \A q \in Users : InUse(Now, q) => Now.proc[q].pid < Now.pidNum
  <1>1. /\ Seen(Now, Stage, Pid, Ppid) /\ View!Slot = Users /\ Now.pidNum = pidNum
        /\ \A q \in Users : Now.proc[q].pid \in Nat
    BY SeenNow, ViewSets, NumbersFacts DEF Now, KinInv
  <1>2. View!InUse = {q \in Users : InUse(Now, q)}
    BY <1>1 DEF View!InUse, Seen
  <1>3. /\ \A q, t \in Users : InUse(Now, q) /\ InUse(Now, t) /\ Now.proc[q].pid = Now.proc[t].pid => q = t
        /\ \A q \in Users : InUse(Now, q) => /\ Now.proc[q].pid < Now.pidNum
                                              /\ Now.proc[q].pid >= 1
    BY <1>1, <1>2 DEF KinInv, View!FamilyInv, View!PidsUnique, View!Numbered, Seen
  <1>4. InUse(Now, 1) /\ Now.proc[1].pid = 1
    BY <1>1, <1>2, Sets DEF KinInv, View!FamilyInv, View!Parented, View!InitFirst, Seen
  <1>5. ASSUME Alive(Now, 1), NEW q \in Users \ {1}, InUse(Now, q)
        PROVE  \E t \in Users : Alive(Now, t) /\ Now.proc[t].pid = Now.proc[q].ppid /\ t # q
    <2>1. Stage[1] = "alive" /\ q \in View!InUse \ {1}
      BY <1>1, <1>2, <1>5, Sets DEF Seen
    <2>2. PICK t \in View!Alive : Pid[t] = Ppid[q]
      BY <2>1 DEF KinInv, View!FamilyInv, View!Parented, View!ParentAlive
    <2>3. t \in Users /\ Alive(Now, t)
      BY <1>1, <2>2 DEF View!Alive, Seen
    <2>4. Ppid[q] < Pid[q]
      BY <2>1 DEF KinInv, View!FamilyInv, View!ParentOlder
    <2>5. Now.proc[t].pid = Now.proc[q].ppid /\ Now.proc[q].ppid < Now.proc[q].pid
      BY <1>1, <2>2, <2>3, <2>4 DEF Seen
    <2> QED
      BY <1>1, <2>3, <2>5
  <1>6. Whole(Now)
    BY <1>3, <1>4, <1>5 DEF Whole
  <1> QED
    BY <1>3, <1>6 DEF KinInv, Steady, Clan

LEMMA InitKin == Init => KinInv /\ View!Init
  <1> SUFFICES ASSUME Init PROVE KinInv /\ View!Init
    OBVIOUS
  <1>1. Now \in Orderly /\ Now \in KState
    BY InitOrderly, OrderlyFacts
  <1>2. Now.proc = proc /\ Now.suspended = <<>> /\ Now.fg = NULL /\ Now.pidNum = 2 /\ pidNum = 2
    BY DEF Init, Now
  <1>3. ASSUME NEW q \in Users
        PROVE  /\ proc[q].state = IF q = 1 THEN "READY" ELSE "UNUSED"
               /\ proc[q].pid = IF q = 1 THEN 1 ELSE 0
               /\ proc[q].ppid = 0
    <2>1. q \in Slots /\ q # Idle
      BY <1>3, Sets
    <2>2. proc[q] = IF q = 1 THEN [Child(1, 0, "READY") EXCEPT !.daemon = TRUE] ELSE Blank
      BY <2>1 DEF Init
    <2> QED
      BY <2>2 DEF Child, Blank
  <1>4. Steady(Now)
    <2>1. \A q \in Users : Member(Now.proc[q], Now.proc[q], q \in {}, Parents(Now)[q])
      BY <1>2, <1>3 DEF Member, Parents
    <2>2. Now \in Folk(Now, {}, Parents(Now), Now.fg)
      BY <1>1, <1>2, <2>1 DEF Folk
    <2>3. Present(Now, {}, Now.fg)
      BY <1>2 DEF Present
    <2>4. Rooted(Now)
      BY <1>2, <1>3, Sets DEF Rooted
    <2> QED
      BY <2>2, <2>3, <2>4 DEF Steady
  <1>5. View!Init
    <2>1. Stage = [q \in Users |-> IF q = 1 THEN "alive" ELSE "none"]
      BY <1>3 DEF Stage
    <2>2. Pid = [q \in Users |-> IF q = 1 THEN 1 ELSE 0] /\ Ppid = [q \in Users |-> 0]
      BY <1>3 DEF Pid, Ppid
    <2> QED
      BY <1>2, <2>1, <2>2, ViewSets DEF View!Init
  <1>6. View!FamilyInv
    BY <1>5, ViewSets, View!FamilyInit
  <1> QED
    BY <1>1, <1>4, <1>5, <1>6 DEF KinInv

LEMMA KinStep ==
  ASSUME FamilyUse, KinInv, [Next]_vars
  PROVE  KinInv' /\ ViewStep
  <1>1. Clan(Now) /\ \A q \in Users : InUse(Now, q) => Now.proc[q].pid < Now.pidNum
    BY KinIsClan
  <1>2. Now' \in Relief(Now) \cup Burial(Now) \cup Loss(Now) \cup Birth(Now)
    BY <1>1, StepKin
  <1>3. Steady(Now') /\ ViewStep
    BY <1>1, <1>2, ReliefView, BurialView, LossView, BirthView
  <1>4. Now' \in Orderly
    <2>1. OrderlyUse /\ Now \in Orderly
      BY DEF FamilyUse, KinInv
    <2> QED
      BY <2>1, StepOrderly DEF Step, After
  <1>5. View!FamilyInv'
    <2>1. ~ (SIGHUP \in Sendable /\ -1 \in Targets)
      BY DEF FamilyUse, OrderlyUse
    <2> QED
      BY <1>3, <2>1, ViewSets, View!FamilyStep DEF ViewStep, KinInv
  <1> QED
    BY <1>3, <1>4, <1>5 DEF KinInv

LEMMA KinKept == ASSUME FamilyUse PROVE Spec => []KinInv
  <1>1. Init => KinInv
    BY InitKin
  <1>2. KinInv /\ [Next]_vars => KinInv'
    BY KinStep
  <1> QED
    BY <1>1, <1>2, PTL DEF Spec

\* The kernel implements Family: whatever the interleaving, a process is born,
\* dies, is given to another parent and is collected only as Family allows.
THEOREM FamilyKept == ASSUME FamilyUse PROVE Spec => ImplementsFamily
  <1>1. Init => View!Init
    BY InitKin
  <1>2. KinInv /\ [Next]_vars => [View!Next]_(View!family)
    BY KinStep DEF ViewStep
  <1>3. Spec => View!Spec
    BY <1>1, <1>2, KinKept, PTL DEF Spec, View!Spec
  <1> QED
    BY <1>3, SameView, PTL

\* While init lives, the foreground process, whom the keyboard talks to, is a
\* living process.
THEOREM KeyboardHeard == ASSUME FamilyUse PROVE Spec => []ForegroundAlive
  <1>1. KinInv => ForegroundAlive
    BY Sets DEF KinInv, Steady, Present, ForegroundAlive, InitAlive, Now
  <1> QED
    BY <1>1, KinKept, PTL

\* What FamilyProofs says of Family holds of the process table: init has PID 1, a
\* PID names one process, and while init lives every other process, living or
\* dead, has a living parent other than itself, who can collect it.
THEOREM TableWhole == ASSUME FamilyUse PROVE Spec => []Whole(Now)
  <1>1. KinInv => Whole(Now)
    BY KinIsClan DEF Clan
  <1> QED
    BY <1>1, KinKept, PTL
=============================================================================
