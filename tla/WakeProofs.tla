------------------------------ MODULE WakeProofs ------------------------------
(***************************************************************************)
(* No wakeup is lost: nobody sleeps in wait beside a child it waits for    *)
(* that is dead, or beside a stop that has been reported to it.            *)
(*                                                                         *)
(* A process leaves that sleep in two ways.  wake_up clears its event, and *)
(* wait looks at the children again.  A signal makes it ready with its     *)
(* event set, and if the signal is over with the process goes back to      *)
(* sleep without a look (Resleep).  So whoever was woken up by a signal    *)
(* must be doomed: it is stopped or killed before it could go back.        *)
(*                                                                         *)
(* As in KinProofs a state is compared with the one the step begins in:    *)
(* Watch(k, loud) are the states in which nobody has gone to sleep in wait *)
(* and, unless the step is loud, nobody has died or been stopped.  A loud  *)
(* step wakes up everybody who sleeps in wait (Roused).                    *)
(***************************************************************************)
EXTENDS QueueProofs

-----------------------------------------------------------------------------
\* What programs must not do for every wakeup to arrive: in addition to
\* OrderlyUse, no process catches signals, nobody sends SIGCHLD, and no sleeping
\* job is brought to the foreground.  (Each leaves a process that was woken up
\* from wait for another reason than a child, and goes back to sleep.)
WakefulUse ==
  /\ OrderlyUse
  /\ "signal" \notin Calls /\ SIGCHLD \notin Sendable /\ "SLEEP" \notin ForeStates

-----------------------------------------------------------------------------
(***************************************************************************)
(* The processes.                                                          *)
(***************************************************************************)
\* The signals that stop or kill a process without handlers, unless it is init
Fatal == {SIGHUP, SIGINT, SIGABRT, SIGKILL, SIGTERM, SIGSTOP, SIGTSTP}

Doomed(r) == r.pid \notin {0, 1} /\ r.signals \cap Fatal # {}

Napping(r) == r.state = "SLEEP" /\ r.event = STATE_CHANGE

Alert(r) ==
  /\ r.handlers = DefHandlers
  /\ r.state = "READY" /\ r.event = STATE_CHANGE => Doomed(r)
  /\ r.state = "RUNNING" => r.event # STATE_CHANGE
  /\ r.state = "KILLED" => r.event = r.pid
  /\ r.state = "STOPPED" => r.pid \notin {0, 1}

\* b is the process that a was before a few functions.  Nothing has happened to
\* it that somebody asleep in wait has to hear about.
Peaceful(a, b) ==
  /\ b.state = "KILLED" => a.state = "KILLED" /\ b.ppid = a.ppid
  /\ b.state = "STOPPED" => a.state = "STOPPED"
  /\ Napping(b) => b.wpid = a.wpid

Attends(a, b, loud) ==
  /\ b.pid = a.pid
  /\ b.state = "UNUSED" <=> a.state = "UNUSED"
  /\ Alert(a) => Alert(b)
  /\ Napping(b) => Napping(a) /\ b.call = a.call
  /\ loud \/ Peaceful(a, b)

Watch(k, loud) ==
  {kk \in KState : /\ kk.pidNum = k.pidNum
                   /\ \A q \in Users : Attends(k.proc[q], kk.proc[q], loud)}

\* Nobody sleeps in wait.
Roused(k) == \A q \in Users : ~ Napping(k.proc[q])

LEMMA AttendsSelf ==
  ASSUME NEW a, NEW loud
  PROVE  Attends(a, a, loud)
  BY DEF Attends, Peaceful

LEMMA AttendsTrans ==
  ASSUME NEW a, NEW b, NEW c, NEW loud, Attends(a, b, loud), Attends(b, c, loud)
  PROVE  Attends(a, c, loud)
  BY DEF Attends, Peaceful

LEMMA WatchFacts ==
  ASSUME NEW k0, NEW loud, NEW k \in Watch(k0, loud)
  PROVE  /\ k \in KState /\ k \in KRecord /\ k \in Near(k) /\ k.pidNum = k0.pidNum
         /\ \A q \in Users : /\ k.proc[q].pid = k0.proc[q].pid
                             /\ k.proc[q].state = "UNUSED" <=> k0.proc[q].state = "UNUSED"
                             /\ Alert(k0.proc[q]) => Alert(k.proc[q])
  BY DEF Watch, Attends, KState, Near

LEMMA WatchSelf ==
  ASSUME NEW k \in KState, NEW loud
  PROVE  k \in Watch(k, loud)
  BY AttendsSelf DEF Watch

LEMMA WatchAlike ==
  ASSUME NEW k0, NEW loud, NEW k \in Watch(k0, loud), NEW kk \in KState, kk.pidNum = k.pidNum,
         \A q \in Users : Attends(k.proc[q], kk.proc[q], loud)
  PROVE  kk \in Watch(k0, loud)
  <1>1. \A q \in Users : Attends(k0.proc[q], k.proc[q], loud)
    BY DEF Watch
  <1>2. \A q \in Users : Attends(k0.proc[q], kk.proc[q], loud)
    BY <1>1, AttendsTrans
  <1> QED
    BY <1>2, WatchFacts DEF Watch

LEMMA WatchTrans ==
  ASSUME NEW k0, NEW loud, NEW k \in Watch(k0, loud), NEW kk \in Watch(k, loud)
  PROVE  kk \in Watch(k0, loud)
  <1>1. kk \in KState /\ kk.pidNum = k.pidNum
    BY DEF Watch
  <1>2. \A q \in Users : Attends(k.proc[q], kk.proc[q], loud)
    BY DEF Watch
  <1> QED
    BY <1>1, <1>2, WatchAlike

LEMMA WatchLoud ==
  ASSUME NEW k0, NEW loud, NEW k \in Watch(k0, loud)
  PROVE  k \in Watch(k0, TRUE)
  BY DEF Watch, Attends

\* Only lists, the CPU, the mode and the foreground change.
LEMMA WatchSame ==
  ASSUME NEW k0, NEW loud, NEW k \in Watch(k0, loud), NEW kk \in KState,
         kk.pidNum = k.pidNum, kk.proc = k.proc
  PROVE  kk \in Watch(k0, loud)
  BY DEF Watch

LEMMA WatchQueue ==
  ASSUME NEW k0, NEW loud, NEW k \in Watch(k0, loud), NEW v \in Queue(Users)
  PROVE  /\ [k EXCEPT !.ready = v] \in Watch(k0, loud)
         /\ [k EXCEPT !.waiting = v] \in Watch(k0, loud)
         /\ [k EXCEPT !.suspended = v] \in Watch(k0, loud)
         /\ [k EXCEPT !.zombies = v] \in Watch(k0, loud)
  <1>1. k \in KState /\ k \in KRecord
    BY WatchFacts
  <1>2. [k EXCEPT !.ready = v] \in Watch(k0, loud)
    <2>1. [k EXCEPT !.ready = v] \in KState
      BY <1>1 DEF KState, KRecord
    <2> QED
      BY <1>1, <2>1, WatchSame DEF KRecord
  <1>3. [k EXCEPT !.waiting = v] \in Watch(k0, loud)
    <2>1. [k EXCEPT !.waiting = v] \in KState
      BY <1>1 DEF KState, KRecord
    <2> QED
      BY <1>1, <2>1, WatchSame DEF KRecord
  <1>4. [k EXCEPT !.suspended = v] \in Watch(k0, loud)
    <2>1. [k EXCEPT !.suspended = v] \in KState
      BY <1>1 DEF KState, KRecord
    <2> QED
      BY <1>1, <2>1, WatchSame DEF KRecord
  <1>5. [k EXCEPT !.zombies = v] \in Watch(k0, loud)
    <2>1. [k EXCEPT !.zombies = v] \in KState
      BY <1>1 DEF KState, KRecord
    <2> QED
      BY <1>1, <2>1, WatchSame DEF KRecord
  <1> QED
    BY <1>2, <1>3, <1>4, <1>5

LEMMA WatchForeground ==
  ASSUME NEW k0, NEW loud, NEW k \in Watch(k0, loud), NEW f \in Users \cup {NULL}
  PROVE  [k EXCEPT !.fg = f] \in Watch(k0, loud)
  <1>1. k \in KState /\ k \in KRecord
    BY WatchFacts
  <1>2. [k EXCEPT !.fg = f] \in KState
    BY <1>1 DEF KState, KRecord
  <1> QED
    BY <1>1, <1>2, WatchSame DEF KRecord

LEMMA WatchMode ==
  ASSUME NEW k0, NEW loud, NEW k \in Watch(k0, loud), NEW m \in Mode \ {"kernel"}
  PROVE  [k EXCEPT !.mode = m] \in Watch(k0, loud)
  <1>1. k \in KState /\ k \in KRecord
    BY WatchFacts
  <1>2. [k EXCEPT !.mode = m] \in KState
    BY <1>1 DEF KState, KRecord
  <1> QED
    BY <1>1, <1>2, WatchSame DEF KRecord

LEMMA WatchTable ==
  ASSUME NEW k0, NEW loud, NEW k \in Watch(k0, loud), NEW t \in [Slots -> ProcessOK],
         t[Idle].proxied = <<>>, \A q \in Users : Attends(k.proc[q], t[q], loud)
  PROVE  [k EXCEPT !.proc = t] \in Watch(k0, loud)
  <1> DEFINE kk == [k EXCEPT !.proc = t]
  <1>1. k \in KRecord /\ k \in Near(k)
    BY WatchFacts
  <1>2. kk \in KState
    <2>1. kk \in Near(k)
      BY <1>1, SetTable
    <2> QED
      BY <2>1, StateFacts
  <1>3. kk.pidNum = k.pidNum /\ kk.proc = t
    BY <1>1 DEF KRecord
  <1> HIDE DEF kk
  <1>4. kk \in Watch(k0, loud)
    BY <1>2, <1>3, WatchAlike
  <1> QED
    BY <1>4 DEF kk

LEMMA WatchProcess ==
  ASSUME NEW k0, NEW loud, NEW k \in Watch(k0, loud), NEW p \in Slots, NEW r \in ProcessOK,
         p = Idle => r.proxied = <<>>, p \in Users => Attends(k.proc[p], r, loud)
  PROVE  [k EXCEPT !.proc[p] = r] \in Watch(k0, loud)
  <1> DEFINE kk == [k EXCEPT !.proc[p] = r]
  <1>1. k \in KRecord /\ k \in Near(k)
    BY WatchFacts
  <1>2. kk \in KState
    <2>1. kk \in Near(k)
      BY <1>1, SetProcess
    <2> QED
      BY <2>1, StateFacts
  <1>3. kk.pidNum = k.pidNum /\ \A q \in Users : kk.proc[q] = IF q = p THEN r ELSE k.proc[q]
    BY <1>1, Sets DEF KRecord
  <1> HIDE DEF kk
  <1>4. \A q \in Users : Attends(k.proc[q], kk.proc[q], loud)
    BY <1>3, AttendsSelf
  <1>5. kk \in Watch(k0, loud)
    BY <1>2, <1>3, <1>4, WatchAlike
  <1> QED
    BY <1>5 DEF kk

\* A change of a field that nobody asleep has to hear about.
LEMMA FieldAttends ==
  ASSUME NEW r \in ProcessOK, NEW loud, NEW v
  PROVE  /\ loud => Attends(r, [r EXCEPT !.ppid = v], loud)
         /\ loud \/ ~ Napping(r) => Attends(r, [r EXCEPT !.wpid = v], loud)
         /\ Attends(r, [r EXCEPT !.daemon = v], loud)
         /\ Attends(r, [r EXCEPT !.jobs = v], loud)
         /\ Attends(r, [r EXCEPT !.job = v], loud)
         /\ r.signals \cap Fatal \subseteq v => Attends(r, [r EXCEPT !.signals = v], loud)
         /\ ~ Napping(r) => Attends(r, [r EXCEPT !.call = v], loud)
         /\ Attends(r, [r EXCEPT !.inKernel = v], loud)
         /\ Attends(r, [r EXCEPT !.left = v], loud)
         /\ Attends(r, [r EXCEPT !.proxied = v], loud)
  <1>1. loud => Attends(r, [r EXCEPT !.ppid = v], loud)
    BY DEF ProcessOK, Attends, Alert, Doomed, Napping
  <1>2. loud \/ ~ Napping(r) => Attends(r, [r EXCEPT !.wpid = v], loud)
    BY DEF ProcessOK, Attends, Alert, Doomed, Napping, Peaceful
  <1>3. Attends(r, [r EXCEPT !.daemon = v], loud)
    BY DEF ProcessOK, Attends, Alert, Doomed, Napping, Peaceful
  <1>4. Attends(r, [r EXCEPT !.jobs = v], loud)
    BY DEF ProcessOK, Attends, Alert, Doomed, Napping, Peaceful
  <1>5. Attends(r, [r EXCEPT !.job = v], loud)
    BY DEF ProcessOK, Attends, Alert, Doomed, Napping, Peaceful
  <1>6. r.signals \cap Fatal \subseteq v => Attends(r, [r EXCEPT !.signals = v], loud)
    BY DEF ProcessOK, Attends, Alert, Doomed, Napping, Peaceful
  <1>7. ~ Napping(r) => Attends(r, [r EXCEPT !.call = v], loud)
    BY DEF ProcessOK, Attends, Alert, Doomed, Napping, Peaceful
  <1>8. Attends(r, [r EXCEPT !.inKernel = v], loud)
    BY DEF ProcessOK, Attends, Alert, Doomed, Napping, Peaceful
  <1>9. Attends(r, [r EXCEPT !.left = v], loud)
    BY DEF ProcessOK, Attends, Alert, Doomed, Napping, Peaceful
  <1>10. Attends(r, [r EXCEPT !.proxied = v], loud)
    BY DEF ProcessOK, Attends, Alert, Doomed, Napping, Peaceful
  <1> QED
    BY <1>1, <1>2, <1>3, <1>4, <1>5, <1>6, <1>7, <1>8, <1>9, <1>10

LEMMA WatchField ==
  ASSUME NEW k0, NEW loud, NEW k \in Watch(k0, loud), NEW p \in Slots
  PROVE  /\ loud =>
               \A v \in 0 .. MaxPid : [k EXCEPT !.proc[p].ppid = v] \in Watch(k0, loud)
         /\ loud \/ p = Idle \/ ~ Napping(k.proc[p]) =>
               \A v \in -1 .. MaxPid : [k EXCEPT !.proc[p].wpid = v] \in Watch(k0, loud)
         /\ \A v \in BOOLEAN : [k EXCEPT !.proc[p].daemon = v] \in Watch(k0, loud)
         /\ \A v \in Nat : [k EXCEPT !.proc[p].jobs = v] \in Watch(k0, loud)
         /\ \A v \in Nat : [k EXCEPT !.proc[p].job = v] \in Watch(k0, loud)
         /\ \A v \in SignalSet : k.proc[p].signals \cap Fatal \subseteq v =>
               [k EXCEPT !.proc[p].signals = v] \in Watch(k0, loud)
         /\ p = Idle \/ ~ Napping(k.proc[p]) =>
               \A v \in CallOK : [k EXCEPT !.proc[p].call = v] \in Watch(k0, loud)
         /\ \A v \in BOOLEAN : [k EXCEPT !.proc[p].inKernel = v] \in Watch(k0, loud)
         /\ \A v \in 0 .. MaxSleep : [k EXCEPT !.proc[p].left = v] \in Watch(k0, loud)
         /\ p # Idle =>
               \A v \in Seq(CallOK) : [k EXCEPT !.proc[p].proxied = v] \in Watch(k0, loud)
  <1> DEFINE o == k.proc[p]
  <1>1. o \in ProcessOK /\ (p = Idle => o.proxied = <<>>) /\ (p \in Users => p # Idle)
    BY WatchFacts, StateFacts, Sets
  <1>2. ASSUME NEW r \in ProcessOK, p = Idle => r.proxied = <<>>, p \in Users => Attends(o, r, loud)
        PROVE  [k EXCEPT !.proc[p] = r] \in Watch(k0, loud)
    BY <1>2, WatchProcess
  <1>3. ASSUME NEW v \in 0 .. MaxPid, loud
        PROVE  [k EXCEPT !.proc[p].ppid = v] \in Watch(k0, loud)
    <2> DEFINE r == [o EXCEPT !.ppid = v]
    <2>1. r \in ProcessOK
      BY <1>1, FieldFacts
    <2>2. p = Idle => r.proxied = <<>>
      BY <1>1, FieldKept
    <2>3. p \in Users => Attends(o, r, loud)
      BY <1>3, <1>1, FieldAttends
    <2> HIDE DEF r
    <2>4. [k EXCEPT !.proc[p] = r] \in Watch(k0, loud)
      BY <1>2, <2>1, <2>2, <2>3
    <2> QED
      BY <2>4 DEF r
  <1>4. ASSUME NEW v \in -1 .. MaxPid, loud \/ p = Idle \/ ~ Napping(k.proc[p])
        PROVE  [k EXCEPT !.proc[p].wpid = v] \in Watch(k0, loud)
    <2> DEFINE r == [o EXCEPT !.wpid = v]
    <2>1. r \in ProcessOK
      BY <1>1, FieldFacts
    <2>2. p = Idle => r.proxied = <<>>
      BY <1>1, FieldKept
    <2>3. p \in Users => Attends(o, r, loud)
      BY <1>4, <1>1, FieldAttends
    <2> HIDE DEF r
    <2>4. [k EXCEPT !.proc[p] = r] \in Watch(k0, loud)
      BY <1>2, <2>1, <2>2, <2>3
    <2> QED
      BY <2>4 DEF r
  <1>5. ASSUME NEW v \in BOOLEAN
        PROVE  [k EXCEPT !.proc[p].daemon = v] \in Watch(k0, loud)
    <2> DEFINE r == [o EXCEPT !.daemon = v]
    <2>1. r \in ProcessOK
      BY <1>1, FieldFacts
    <2>2. p = Idle => r.proxied = <<>>
      BY <1>1, FieldKept
    <2>3. p \in Users => Attends(o, r, loud)
      BY <1>1, FieldAttends
    <2> HIDE DEF r
    <2>4. [k EXCEPT !.proc[p] = r] \in Watch(k0, loud)
      BY <1>2, <2>1, <2>2, <2>3
    <2> QED
      BY <2>4 DEF r
  <1>6. ASSUME NEW v \in Nat
        PROVE  [k EXCEPT !.proc[p].jobs = v] \in Watch(k0, loud)
    <2> DEFINE r == [o EXCEPT !.jobs = v]
    <2>1. r \in ProcessOK
      BY <1>1, FieldFacts
    <2>2. p = Idle => r.proxied = <<>>
      BY <1>1, FieldKept
    <2>3. p \in Users => Attends(o, r, loud)
      BY <1>1, FieldAttends
    <2> HIDE DEF r
    <2>4. [k EXCEPT !.proc[p] = r] \in Watch(k0, loud)
      BY <1>2, <2>1, <2>2, <2>3
    <2> QED
      BY <2>4 DEF r
  <1>7. ASSUME NEW v \in Nat
        PROVE  [k EXCEPT !.proc[p].job = v] \in Watch(k0, loud)
    <2> DEFINE r == [o EXCEPT !.job = v]
    <2>1. r \in ProcessOK
      BY <1>1, FieldFacts
    <2>2. p = Idle => r.proxied = <<>>
      BY <1>1, FieldKept
    <2>3. p \in Users => Attends(o, r, loud)
      BY <1>1, FieldAttends
    <2> HIDE DEF r
    <2>4. [k EXCEPT !.proc[p] = r] \in Watch(k0, loud)
      BY <1>2, <2>1, <2>2, <2>3
    <2> QED
      BY <2>4 DEF r
  <1>8. ASSUME NEW v \in SignalSet, k.proc[p].signals \cap Fatal \subseteq v
        PROVE  [k EXCEPT !.proc[p].signals = v] \in Watch(k0, loud)
    <2> DEFINE r == [o EXCEPT !.signals = v]
    <2>1. r \in ProcessOK
      BY <1>1, FieldFacts
    <2>2. p = Idle => r.proxied = <<>>
      BY <1>1, FieldKept
    <2>3. p \in Users => Attends(o, r, loud)
      BY <1>8, <1>1, FieldAttends
    <2> HIDE DEF r
    <2>4. [k EXCEPT !.proc[p] = r] \in Watch(k0, loud)
      BY <1>2, <2>1, <2>2, <2>3
    <2> QED
      BY <2>4 DEF r
  <1>9. ASSUME NEW v \in CallOK, p = Idle \/ ~ Napping(k.proc[p])
        PROVE  [k EXCEPT !.proc[p].call = v] \in Watch(k0, loud)
    <2> DEFINE r == [o EXCEPT !.call = v]
    <2>1. r \in ProcessOK
      BY <1>1, FieldFacts
    <2>2. p = Idle => r.proxied = <<>>
      BY <1>1, FieldKept
    <2>3. p \in Users => Attends(o, r, loud)
      BY <1>9, <1>1, FieldAttends
    <2> HIDE DEF r
    <2>4. [k EXCEPT !.proc[p] = r] \in Watch(k0, loud)
      BY <1>2, <2>1, <2>2, <2>3
    <2> QED
      BY <2>4 DEF r
  <1>10. ASSUME NEW v \in BOOLEAN
        PROVE  [k EXCEPT !.proc[p].inKernel = v] \in Watch(k0, loud)
    <2> DEFINE r == [o EXCEPT !.inKernel = v]
    <2>1. r \in ProcessOK
      BY <1>1, FieldFacts
    <2>2. p = Idle => r.proxied = <<>>
      BY <1>1, FieldKept
    <2>3. p \in Users => Attends(o, r, loud)
      BY <1>1, FieldAttends
    <2> HIDE DEF r
    <2>4. [k EXCEPT !.proc[p] = r] \in Watch(k0, loud)
      BY <1>2, <2>1, <2>2, <2>3
    <2> QED
      BY <2>4 DEF r
  <1>11. ASSUME NEW v \in 0 .. MaxSleep
        PROVE  [k EXCEPT !.proc[p].left = v] \in Watch(k0, loud)
    <2> DEFINE r == [o EXCEPT !.left = v]
    <2>1. r \in ProcessOK
      BY <1>1, FieldFacts
    <2>2. p = Idle => r.proxied = <<>>
      BY <1>1, FieldKept
    <2>3. p \in Users => Attends(o, r, loud)
      BY <1>1, FieldAttends
    <2> HIDE DEF r
    <2>4. [k EXCEPT !.proc[p] = r] \in Watch(k0, loud)
      BY <1>2, <2>1, <2>2, <2>3
    <2> QED
      BY <2>4 DEF r
  <1>12. ASSUME NEW v \in Seq(CallOK), p # Idle
        PROVE  [k EXCEPT !.proc[p].proxied = v] \in Watch(k0, loud)
    <2> DEFINE r == [o EXCEPT !.proxied = v]
    <2>1. r \in ProcessOK
      BY <1>1, FieldFacts
    <2>2. p = Idle => r.proxied = <<>>
      BY <1>12
    <2>3. p \in Users => Attends(o, r, loud)
      BY <1>12, <1>1, FieldAttends
    <2> HIDE DEF r
    <2>4. [k EXCEPT !.proc[p] = r] \in Watch(k0, loud)
      BY <1>2, <2>1, <2>2, <2>3
    <2> QED
      BY <2>4 DEF r
  <1> QED
    BY <1>3, <1>4, <1>5, <1>6, <1>7, <1>8, <1>9, <1>10, <1>11, <1>12

-----------------------------------------------------------------------------
(***************************************************************************)
(* Posting a signal, and events.                                           *)
(***************************************************************************)
\* No process but init has the PID of idle or of init.
InUse(k, q) == k.proc[q].state # "UNUSED"
Rooted(k) == \A q \in Users \ {1} : InUse(k, q) => k.proc[q].pid \notin {0, 1}

LEMMA WatchRooted ==
  ASSUME NEW k0, Rooted(k0), NEW loud, NEW k \in Watch(k0, loud)
  PROVE  Rooted(k) /\ \A q \in Users : InUse(k, q) <=> InUse(k0, q)
  BY WatchFacts DEF Rooted, InUse

\* Whoever is made ready by a signal that stops or kills is doomed.
LEMMA WatchPost ==
  ASSUME NEW k0, NEW loud, NEW k \in Watch(k0, loud), NEW t \in Users, NEW s \in Known \cap Fatal,
         k.proc[t].pid \notin {0, 1}
  PROVE  Post(k, t, s) \in Watch(k0, loud)
  <1> DEFINE o    == k.proc[t]
             sigs == (o.signals \ Cancelled(s)) \cup {s}
             r    == [o EXCEPT !.signals = sigs, !.state = IF o.state = "SLEEP" THEN "READY" ELSE @]
             kk   == Post(k, t, s)
  <1>1. k \in KRecord /\ k \in Near(k) /\ t \in Slots /\ o \in ProcessOK
    BY WatchFacts, StateAfter, Sets
  <1>2. kk \in KState
    BY <1>1, PostType, StateFacts
  <1>3. /\ kk.pidNum = k.pidNum
        /\ \A q \in Users : kk.proc[q] = IF q = t THEN r ELSE k.proc[q]
    <2>1. CASE o.state = "SLEEP"
      <3>1. /\ kk.pidNum = k.pidNum
            /\ kk.proc = [[k.proc EXCEPT ![t].signals = (@ \ Cancelled(s)) \cup {s}]
                             EXCEPT ![t].state = "READY"]
        BY <1>1, <2>1 DEF Post, KRecord
      <3>2. r = [[o EXCEPT !.signals = sigs] EXCEPT !.state = "READY"]
        BY <2>1
      <3> HIDE DEF kk
      <3>3. kk.proc = [k.proc EXCEPT ![t] = r]
        BY <1>1, <3>1, <3>2 DEF KRecord
      <3> HIDE DEF r
      <3> QED
        BY <1>1, <3>1, <3>3, Sets DEF KRecord
    <2>2. CASE o.state # "SLEEP"
      <3>1. /\ kk.pidNum = k.pidNum
            /\ kk.proc = [k.proc EXCEPT ![t].signals = (@ \ Cancelled(s)) \cup {s}]
        BY <1>1, <2>2 DEF Post, KRecord
      <3>2. r = [o EXCEPT !.signals = sigs]
        BY <1>1, <2>2 DEF ProcessOK
      <3> HIDE DEF kk
      <3>3. kk.proc = [k.proc EXCEPT ![t] = r]
        BY <1>1, <3>1, <3>2 DEF KRecord
      <3> HIDE DEF r
      <3> QED
        BY <1>1, <3>1, <3>3, Sets DEF KRecord
    <2> QED
      BY <2>1, <2>2
  <1>4. /\ r.pid = o.pid /\ r.event = o.event /\ r.handlers = o.handlers /\ r.signals = sigs
        /\ r.ppid = o.ppid /\ r.wpid = o.wpid
        /\ r.state = IF o.state = "SLEEP" THEN "READY" ELSE o.state
    BY <1>1 DEF ProcessOK
  <1>5. Doomed(r)
    BY <1>4 DEF Doomed
  <1> HIDE DEF r, kk, sigs
  <1>6. Attends(o, r, loud)
    BY <1>4, <1>5 DEF Attends, Alert, Napping, Peaceful
  <1>7. \A q \in Users : Attends(k.proc[q], kk.proc[q], loud)
    BY <1>3, <1>6, AttendsSelf
  <1>8. kk \in Watch(k0, loud)
    BY <1>2, <1>3, <1>7, WatchAlike
  <1> QED
    BY <1>8 DEF kk

LEMMA WatchPostAll ==
  ASSUME NEW k0, NEW loud, NEW k \in Watch(k0, loud), NEW P, NEW s \in Known \cap Fatal,
         \A q \in Users \cap P : k.proc[q].pid \notin {0, 1}
  PROVE  PostAll(k, P, s) \in Watch(k0, loud)
  <1>1. \A q \in Users \cap P : k0.proc[q].pid \notin {0, 1}
    BY WatchFacts
  <1>2. ASSUME NEW kk \in Watch(k0, loud), NEW q \in Users \cap P
        PROVE  Post(kk, q, s) \in Watch(k0, loud)
    <2>1. kk.proc[q].pid \notin {0, 1}
      BY <1>1, WatchFacts
    <2> QED
      BY <2>1, WatchPost
  <1> QED
    BY <1>2, PostAllLoop

LEMMA WatchKillChildren ==
  ASSUME NEW k0, Rooted(k0), NEW loud, NEW k \in Watch(k0, loud), NEW p, NEW s \in Known \cap Fatal
  PROVE  KillChildren(k, p, s) \in Watch(k0, loud)
  <1> DEFINE P == {q \in Others(k, p) : Alive(k, q) /\ k.proc[q].ppid = k.proc[p].pid}
  <1>1. \A q \in Users \cap P : k.proc[q].pid \notin {0, 1}
    BY WatchRooted DEF Rooted, InUse, Others, Alive
  <1>2. KillChildren(k, p, s) = PostAll(k, P, s)
    BY DEF KillChildren
  <1> HIDE DEF P
  <1> QED
    BY <1>1, <1>2, WatchPostAll

LEMMA WatchSignal ==
  ASSUME NEW k0, NEW loud, NEW k \in Watch(k0, loud), NEW p \in Slots,
         NEW s \in {SIGCHLD, SIGTERM}
  PROVE  [k EXCEPT !.proc[p].signals = k.proc[p].signals \cup {s}] \in Watch(k0, loud)
  <1>1. k.proc[p] \in ProcessOK
    BY WatchFacts, StateAfter
  <1>2. k.proc[p].signals \cup {s} \in SignalSet
    BY <1>1, ProcessFacts, SignalFacts
  <1>3. k.proc[p].signals \cap Fatal \subseteq k.proc[p].signals \cup {s}
    OBVIOUS
  <1> QED
    BY <1>2, <1>3, WatchField

\* kill, except a hang-up to everybody.
LEMMA WatchKill ==
  ASSUME NEW k0, Rooted(k0), NEW loud, NEW k \in Watch(k0, loud), NEW p, NEW target \in Int,
         NEW s \in Known \cap Fatal, target # 1, target = -1 => s # SIGHUP
  PROVE  Kill(k, p, target, s) \in Watch(k0, loud)
  <1> DEFINE t  == Lookup(k, target)
             A  == {q \in Others(k, p) : Alive(k, q)}
             po == PostAll(k, A, s)
             r1 == [po EXCEPT !.proc[1].signals = po.proc[1].signals \cup {SIGTERM}]
             r2 == [r1 EXCEPT !.proc[Idle].signals = r1.proc[Idle].signals \cup {SIGTERM}]
  <1>1. t \in Users \cup {NULL} /\ (t # NULL => k.proc[t].pid = target)
    BY LookupFacts
  <1>2. \A q \in Users \cap A : k.proc[q].pid \notin {0, 1}
    BY WatchRooted DEF Rooted, InUse, Others, Alive
  <1> HIDE DEF t
  <1>3. t # NULL /\ target # 0 => Post(k, t, s) \in Watch(k0, loud)
    BY <1>1, WatchPost
  <1>4. target = -1 => KillAll(k, p, s) \in {po, r2}
    <2> SUFFICES ASSUME target = -1 PROVE KillAll(k, p, s) \in {po, r2}
      OBVIOUS
    <2>1. s = SIGTERM => [po EXCEPT !.proc[1].signals = @ \cup {s},
                                    !.proc[Idle].signals = @ \cup {s}] = r2
      OBVIOUS
    <2> HIDE DEF r2
    <2> QED
      BY <2>1 DEF KillAll, po, A, SIGHUP, SIGTERM
  <1> HIDE DEF A
  <1>5. po \in Watch(k0, loud)
    BY <1>2, WatchPostAll
  <1> HIDE DEF po
  <1>6. r1 \in Watch(k0, loud)
    BY <1>5, WatchSignal, Sets
  <1> HIDE DEF r1
  <1>7. r2 \in Watch(k0, loud)
    BY <1>6, WatchSignal, Sets
  <1> HIDE DEF r2
  <1>8. Kill(k, p, target, s) = CASE target = -1 -> KillAll(k, p, s)
                                  [] target = 0  -> KillChildren(k, p, s)
                                  [] OTHER       -> IF t = NULL THEN k ELSE Post(k, t, s)
    BY DEF Kill, t
  <1>9. KillChildren(k, p, s) \in Watch(k0, loud)
    BY WatchKillChildren
  <1> QED
    BY <1>3, <1>4, <1>5, <1>7, <1>8, <1>9

\* wake_up clears the event of everybody it makes ready; after wake_up for a
\* change of state nobody sleeps in wait.
LEMMA WatchWakeUp ==
  ASSUME NEW k0, NEW loud, NEW k \in Watch(k0, loud), NEW X, Calm(k, X), NEW ev
  PROVE  /\ WakeUp(k, ev) \in Watch(k0, loud)
         /\ ev = STATE_CHANGE /\ (\A q \in X : k.proc[q].state # "SLEEP") => Roused(WakeUp(k, ev))
  <1> DEFINE called  == {p \in Users : k.proc[p].event = ev}
             resting == Without(k.waiting, ToSet(k.ready))
             woken   == Those(resting, called)
             table   == [p \in Slots |-> IF p \in ToSet(woken)
                                         THEN [k.proc[p] EXCEPT !.event = NONE, !.state = "READY"]
                                         ELSE k.proc[p]]
             kk      == WakeUp(k, ev)
  <1>1. /\ k \in KRecord /\ k \in Near(k) /\ k.waiting \in Queue(Users)
        /\ k.ready \in Queue(Users) /\ k.ready \in Seq(Users)
    BY WatchFacts, StateFacts DEF Queue
  <1>2. kk \in KState
    BY <1>1, WakeUpType, StateFacts
  <1>3. /\ \A q \in Users : q \in ToSet(woken) => k.proc[q].state = "SLEEP"
        /\ \A q \in Users \ X : k.proc[q].state = "SLEEP" /\ k.proc[q].event = ev => q \in ToSet(woken)
    <2>1. resting \in Queue(Users) /\ \A q : Contains(resting, q) <=> Contains(k.waiting, q) /\ q \notin ToSet(k.ready)
      BY <1>1, WithoutFacts
    <2>2. woken \in Seq(Users) /\ \A q : Contains(woken, q) <=> Contains(resting, q) /\ q \in called
      BY <2>1, ThoseFacts DEF Queue
    <2>3. \A q : q \in ToSet(woken) <=> Contains(woken, q)
      BY <2>2, ToSetFacts
    <2>4. \A q : q \in ToSet(k.ready) <=> Contains(k.ready, q)
      BY <1>1, ToSetFacts
    <2> HIDE DEF woken, resting
    <2>5. \A q \in Users : q \in ToSet(woken) => k.proc[q].state = "SLEEP"
      BY <2>1, <2>2, <2>3 DEF Calm, Listed, Held
    <2>6. \A q \in Users \ X : k.proc[q].state = "SLEEP" /\ k.proc[q].event = ev => q \in ToSet(woken)
      BY <2>1, <2>2, <2>3, <2>4 DEF Calm, Listed
    <2> QED
      BY <2>5, <2>6
  <1>4. kk = [k EXCEPT !.waiting = Without(k.waiting, called), !.ready = k.ready \o woken,
                       !.proc = table]
    BY DEF WakeUp
  <1> HIDE DEF woken, called, kk
  <1>5. /\ \A q \in Users : Attends(k.proc[q], table[q], loud)
        /\ \A q \in Users : q \in ToSet(woken) => ~ Napping(table[q])
        /\ \A q \in Users : q \notin ToSet(woken) => table[q] = k.proc[q]
    <2> SUFFICES ASSUME NEW q \in Users
                 PROVE  /\ Attends(k.proc[q], table[q], loud)
                        /\ q \in ToSet(woken) => ~ Napping(table[q])
                        /\ q \notin ToSet(woken) => table[q] = k.proc[q]
      OBVIOUS
    <2>1. k.proc[q] \in ProcessOK /\ q \in Slots
      BY <1>1, Sets, StateAfter
    <2>2. CASE q \in ToSet(woken)
      <3> DEFINE o == k.proc[q]
                 r == [o EXCEPT !.event = NONE, !.state = "READY"]
      <3>1. table[q] = r /\ o.state = "SLEEP"
        BY <1>3, <2>1, <2>2
      <3>2. r.pid = o.pid /\ r.state = "READY" /\ r.event = NONE /\ r.handlers = o.handlers
        BY <2>1 DEF ProcessOK
      <3> HIDE DEF r, table
      <3> QED
        BY <2>2, <3>1, <3>2 DEF Attends, Alert, Napping, Peaceful, NONE, STATE_CHANGE
    <2>3. CASE q \notin ToSet(woken)
      BY <2>1, <2>3, AttendsSelf
    <2> QED
      BY <2>2, <2>3
  <1> HIDE DEF table
  <1>6. kk.pidNum = k.pidNum /\ kk.proc = table
    BY <1>1, <1>4 DEF KRecord
  <1>7. kk \in Watch(k0, loud)
    BY <1>2, <1>5, <1>6, WatchAlike
  <1>8. ASSUME ev = STATE_CHANGE, \A q \in X : k.proc[q].state # "SLEEP"
        PROVE  Roused(kk)
    BY <1>3, <1>5, <1>6, <1>8 DEF Roused, Napping
  <1> QED
    BY <1>7, <1>8 DEF kk


LEMMA WakeUpRouses ==
  ASSUME NEW k0, NEW loud, NEW k \in Watch(k0, loud), Calm(k, {})
  PROVE  WakeUp(k, STATE_CHANGE) \in Watch(k0, loud) /\ Roused(WakeUp(k, STATE_CHANGE))
  <1> DEFINE X == {}
  <1>1. Calm(k, X) /\ \A q \in X : k.proc[q].state # "SLEEP"
    OBVIOUS
  <1> HIDE DEF X
  <1> QED
    BY <1>1, WatchWakeUp

LEMMA WatchNotify ==
  ASSUME NEW k0, NEW loud, NEW k \in Watch(k0, loud), NEW parent \in Users \cup {NULL}
  PROVE  Notify(k, parent) \in Watch(k0, loud)
  BY WatchSignal, Sets DEF Notify

LEMMA WatchUnpause ==
  ASSUME NEW k0, NEW loud, NEW k \in Watch(k0, loud), NEW X, Calm(k, X), NEW p
  PROVE  Unpause(k, p) \in Watch(k0, loud)
  BY WatchWakeUp DEF Unpause

LEMMA WatchHandOver ==
  ASSUME NEW k0, NEW loud, NEW k \in Watch(k0, loud), NEW p, NEW parent \in Users \cup {NULL}
  PROVE  HandOver(k, p, parent) \in Watch(k0, loud) /\ Yield(k, p) \in Watch(k0, loud)
  <1>1. \A f \in Users \cup {NULL} : [k EXCEPT !.fg = f] \in Watch(k0, loud)
    BY WatchForeground
  <1> QED
    BY <1>1 DEF HandOver, Yield

LEMMA WatchDequeue ==
  ASSUME NEW k0, NEW loud, NEW k \in Watch(k0, loud), NEW p
  PROVE  Dequeue(k, p) \in Watch(k0, loud)
  <1>1. k \in KRecord
    BY WatchFacts
  <1>2. Unlink(k.ready, p) \in Queue(Users) /\ Unlink(k.waiting, p) \in Queue(Users)
    BY <1>1, UnlinkFacts DEF KRecord
  <1> QED
    BY <1>2, WatchQueue DEF Dequeue

-----------------------------------------------------------------------------
(***************************************************************************)
(* exit, and the default handlers.  They are loud.                         *)
(***************************************************************************)
LEMMA WatchAdopted ==
  ASSUME NEW k0, NEW k \in Watch(k0, TRUE), NEW c \in Users,
         NEW v \in 0 .. MaxPid, NEW transferJobs, NEW parent \in Users
  PROVE  Adopted(k, c, v, transferJobs, parent) \in Watch(k0, TRUE)
  <1> DEFINE moved == [k EXCEPT !.proc[c].ppid = v]
             m1 == [moved EXCEPT !.proc[parent].jobs = moved.proc[parent].jobs + 1]
             m2 == [m1 EXCEPT !.proc[c].job = k.proc[parent].jobs + 1]
  <1>1. /\ c \in Slots /\ parent \in Slots
        /\ k.proc[parent].jobs \in Nat
    BY WatchFacts, StateAfter, ProcessFacts, Sets
  <1>2. moved \in Watch(k0, TRUE)
    BY <1>1, WatchField
  <1> HIDE DEF moved
  <1>3. moved.proc[parent].jobs + 1 \in Nat /\ k.proc[parent].jobs + 1 \in Nat
    <2>1. moved.proc[parent].jobs \in Nat
      BY <1>1, <1>2, WatchFacts, StateAfter, ProcessFacts
    <2> QED
      BY <1>1, <2>1
  <1>4. m1 \in Watch(k0, TRUE)
    BY <1>1, <1>2, <1>3, WatchField
  <1> HIDE DEF m1
  <1>5. m2 \in Watch(k0, TRUE)
    BY <1>1, <1>3, <1>4, WatchField
  <1>6. Adopted(k, c, v, transferJobs, parent) \in {moved, m2}
    BY DEF Adopted, moved, m1
  <1> QED
    BY <1>2, <1>5, <1>6

LEMMA WatchSwitchParent ==
  ASSUME NEW k0, NEW k \in Watch(k0, TRUE), NEW old, NEW v \in 0 .. MaxPid, NEW transferJobs
  PROVE  SwitchParent(k, old, v, transferJobs) \in Watch(k0, TRUE)
  <1> DEFINE parent == LookupLive(k, v)
  <1>1. parent \in Users \cup {NULL} /\ Children(k, old) \subseteq Users
    BY LookupLiveFacts DEF Children
  <1> HIDE DEF parent
  <1>2. parent # NULL => \A kk \in Watch(k0, TRUE), c \in Children(k, old) :
                           Adopted(kk, c, v, transferJobs, parent) \in Watch(k0, TRUE)
    BY <1>1, WatchAdopted
  <1> QED
    BY <1>2, SwitchParentLoop DEF parent

LEMMA WatchMarkKilled ==
  ASSUME NEW k0, NEW k \in Watch(k0, TRUE), NEW p \in Users, InUse(k, p)
  PROVE  MarkKilled(k, p) \in Watch(k0, TRUE)
  <1> DEFINE o  == k.proc[p]
             r  == [o EXCEPT !.state = "KILLED", !.event = k.proc[p].pid]
             kk == MarkKilled(k, p)
  <1>1. k \in KRecord /\ k \in Near(k) /\ p \in Slots /\ o \in ProcessOK
    BY WatchFacts, Sets, StateAfter
  <1>2. kk \in KState
    BY <1>1, MarkKilledType, StateFacts
  <1>3. r.pid = o.pid /\ r.state = "KILLED" /\ r.event = o.pid /\ r.handlers = o.handlers
    BY <1>1 DEF ProcessOK
  <1>4. /\ kk.pidNum = k.pidNum
        /\ \A q \in Users : kk.proc[q] = IF q = p THEN r ELSE k.proc[q]
    BY <1>1, Sets DEF MarkKilled, KRecord
  <1> HIDE DEF r, kk
  <1>5. Attends(o, r, TRUE)
    BY <1>3 DEF Attends, Alert, Napping, InUse
  <1>6. \A q \in Users : Attends(k.proc[q], kk.proc[q], TRUE)
    BY <1>4, <1>5, AttendsSelf
  <1>7. kk \in Watch(k0, TRUE)
    BY <1>2, <1>4, <1>6, WatchAlike
  <1> QED
    BY <1>7 DEF kk

LEMMA FatalFacts ==
  /\ SIGTERM \in Known \cap Fatal /\ SIGKILL \in Known \cap Fatal
  /\ SIGTERM \in {SIGCHLD, SIGTERM} /\ SIGCHLD \in {SIGCHLD, SIGTERM} /\ SIGCHLD \notin Fatal
  BY Sets DEF Fatal, SIGHUP, SIGINT, SIGABRT, SIGKILL, SIGTERM, SIGSTOP, SIGTSTP, SIGCHLD

LEMMA WatchKillJob ==
  ASSUME NEW k0, Rooted(k0), NEW k \in Watch(k0, TRUE), NEW j \in Users, InUse(k, j)
  PROVE  KillJob(k, j) \in Watch(k0, TRUE)
  <1> DEFINE m == MarkKilled(k, j)
             c == KillChildren(m, j, SIGTERM)
             u == [c EXCEPT !.suspended = Unlink(c.suspended, j)]
             r == [u EXCEPT !.zombies = PushBack(u.zombies, j)]
  <1>1. m \in Watch(k0, TRUE)
    BY WatchMarkKilled
  <1> HIDE DEF m
  <1>2. c \in Watch(k0, TRUE)
    BY <1>1, WatchKillChildren, FatalFacts
  <1>3. KillJob(k, j) = [c EXCEPT !.suspended = Unlink(c.suspended, j),
                                  !.zombies = PushBack(c.zombies, j)]
    BY DEF KillJob, m
  <1> HIDE DEF c
  <1>4. c \in KRecord
    BY <1>2, WatchFacts
  <1>5. r = KillJob(k, j)
    BY <1>3, <1>4 DEF KRecord
  <1>6. u \in Watch(k0, TRUE)
    <2>1. Unlink(c.suspended, j) \in Queue(Users)
      BY <1>4, UnlinkFacts DEF KRecord
    <2> QED
      BY <1>2, <2>1, WatchQueue
  <1> HIDE DEF u
  <1>7. r \in Watch(k0, TRUE)
    <2>1. u \in KRecord
      BY <1>6, WatchFacts
    <2>2. PushBack(u.zombies, j) \in Queue(Users)
      BY <2>1, PushBackFacts DEF KRecord
    <2> QED
      BY <1>6, <2>2, WatchQueue
  <1> QED
    BY <1>5, <1>7

LEMMA WatchKillJobs ==
  ASSUME NEW k0, Rooted(k0), NEW k \in Watch(k0, TRUE), NEW q \in Queue(Users),
         \A j \in Users : Contains(q, j) => InUse(k, j)
  PROVE  FoldLeft(KillJob, k, q) \in Watch(k0, TRUE)
  <1> DEFINE X == {j \in Users : InUse(k0, j)}
  <1>1. q \in Seq(X)
    <2>1. \A j : Contains(q, j) => j \in Users
      BY DEF Queue, Contains
    <2>2. \A j : Contains(q, j) => j \in X
      BY <2>1, WatchRooted
    <2> QED
      BY <2>2, ElementsIn
  <1>2. ASSUME NEW kk \in Watch(k0, TRUE), NEW j \in X
        PROVE  KillJob(kk, j) \in Watch(k0, TRUE)
    BY WatchRooted, WatchKillJob
  <1> HIDE DEF X
  <1> QED
    BY <1>1, <1>2, KillJobLoop

LEMMA WatchInformOfStop ==
  ASSUME NEW k0, NEW k \in Watch(k0, TRUE), NEW p \in Users, NEW parent \in Users \cup {NULL}
  PROVE  InformOfStop(k, p, parent) \in Watch(k0, TRUE)
  <1> DEFINE noted == Notify(k, parent)
             told  == [noted EXCEPT !.proc[parent].wpid = k.proc[p].pid]
             m1    == [told EXCEPT !.proc[parent].jobs = told.proc[parent].jobs + 1]
             m2    == [m1 EXCEPT !.proc[p].job = k.proc[parent].jobs + 1]
  <1>1. CASE parent = NULL
    BY <1>1 DEF InformOfStop
  <1>2. CASE parent # NULL
    <2>1. /\ p \in Slots /\ parent \in Slots /\ parent \in Users
          /\ k.proc[parent].jobs \in Nat /\ k.proc[p].pid \in -1 .. MaxPid
      BY <1>2, WatchFacts, StateAfter, ProcessFacts, EventFacts, Sets
    <2>2. noted \in Watch(k0, TRUE)
      BY WatchNotify
    <2>3. InformOfStop(k, p, parent) \in {told, m2}
      BY <1>2 DEF InformOfStop
    <2> HIDE DEF noted
    <2>4. told \in Watch(k0, TRUE)
      BY <2>1, <2>2, WatchField
    <2> HIDE DEF told
    <2>5. told.proc[parent].jobs + 1 \in Nat /\ k.proc[parent].jobs + 1 \in Nat
      <3>1. told.proc[parent].jobs \in Nat
        BY <2>1, <2>4, WatchFacts, StateAfter, ProcessFacts
      <3> QED
        BY <2>1, <3>1
    <2>6. m1 \in Watch(k0, TRUE)
      BY <2>1, <2>4, <2>5, WatchField
    <2> HIDE DEF m1
    <2>7. m2 \in Watch(k0, TRUE)
      BY <2>1, <2>5, <2>6, WatchField
    <2> QED
      BY <2>3, <2>4, <2>7
  <1> QED
    BY <1>1, <1>2


-----------------------------------------------------------------------------
\* What functions that are quiet, or that wake up whoever sleeps in wait, make
\* of k
Heard(k) == Watch(k, FALSE) \cup {kk \in Watch(k, TRUE) : Roused(kk)}

LEMMA HeardFacts ==
  ASSUME NEW k0, NEW k \in Heard(k0)
  PROVE  k \in Watch(k0, TRUE) /\ k \in KState /\ k \in KRecord /\ k \in Near(k)
  BY WatchLoud, WatchFacts DEF Heard

LEMMA WatchRoused ==
  ASSUME NEW k, Roused(k), NEW loud, NEW kk \in Watch(k, loud)
  PROVE  Roused(kk)
  BY DEF Watch, Attends, Roused

LEMMA HeardTrans ==
  ASSUME NEW k0, NEW k \in Heard(k0), NEW kk \in Heard(k)
  PROVE  kk \in Heard(k0)
  <1>1. kk \in Watch(k0, TRUE)
    BY HeardFacts, WatchTrans
  <1>2. CASE k \in Watch(k0, FALSE) /\ kk \in Watch(k, FALSE)
    BY <1>2, WatchTrans DEF Heard
  <1>3. CASE ~ (k \in Watch(k0, FALSE) /\ kk \in Watch(k, FALSE))
    <2>1. Roused(k) \/ Roused(kk)
      BY <1>3 DEF Heard
    <2>2. Roused(kk)
      BY <2>1, HeardFacts, WatchRoused
    <2> QED
      BY <1>1, <2>2 DEF Heard
  <1> QED
    BY <1>2, <1>3

LEMMA HeardQuiet ==
  ASSUME NEW k0, NEW k \in Heard(k0), NEW kk \in Watch(k, FALSE)
  PROVE  kk \in Heard(k0)
  <1>1. kk \in Heard(k)
    BY DEF Heard
  <1> QED
    BY <1>1, HeardTrans

\* What a death or a stop makes of k
Announced(k) == {kk \in Watch(k, TRUE) : Roused(kk)}

\* exit
LEMMA ExitAnnounced ==
  ASSUME NEW k0, Rooted(k0), NEW k \in Watch(k0, TRUE), NEW p \in Users, InUse(k, p),
         NEW k1, NEW v, k \in Transit(k1, p, v)
  PROVE  ExitProcess(k, p) \in Announced(k0)
  <1> DEFINE me       == k.proc[p]
             parent   == LookupLive(k, me.ppid)
             heir     == Lookup(k, me.ppid)
             marked   == MarkKilled(k, p)
             informed == IF parent # NULL THEN Notify(marked, parent)
                         ELSE [marked EXCEPT !.proc[p].ppid = 1]
             jobs     == {j \in Users : k.proc[j].state = "STOPPED" /\ k.proc[j].ppid = me.pid}
             doomed   == Those(k.suspended, jobs)
             jobless  == FoldLeft(KillJob, informed, doomed)
             orphaned == SwitchParent(jobless, me.pid, 1, TRUE)
             handed   == HandOver(orphaned, p, heir)
             released == Unpause(handed, p)
             buried   == [released EXCEPT !.zombies = PushBack(released.zombies, p)]
  <1>1. ExitProcess(k, p) = WakeUp(buried, STATE_CHANGE)
    BY DEF ExitProcess
  <1>2. k \in KRecord /\ Off(k, p) /\ k.suspended \in Queue(Users)
    BY TransitFacts, StateFacts
  <1>3. parent \in Users \cup {NULL} /\ heir \in Users \cup {NULL}
    BY LookupFacts, LookupLiveFacts
  <1>4. marked \in Watch(k0, TRUE) /\ marked \in Transit(k1, p, "KILLED")
    BY WatchMarkKilled, MarkKilledTransit
  <1>5. \A j \in Users : j # p => marked.proc[j].state = k.proc[j].state
    BY <1>2, Sets DEF MarkKilled, KRecord
  <1> HIDE DEF marked, parent, heir
  <1>6. informed \in Still(marked)
    <2>1. marked \in Still(marked)
      BY <1>4, TransitFacts, NearSelf
    <2>2. parent # NULL => Notify(marked, parent) \in Still(marked)
      BY <1>3, <2>1, NotifyStill
    <2>3. [marked EXCEPT !.proc[p].ppid = 1] \in Still(marked)
      BY <2>1, QuietField, EventFacts, Sets
    <2> QED
      BY <2>2, <2>3
  <1>7. informed \in Watch(k0, TRUE)
    <2>1. parent # NULL => Notify(marked, parent) \in Watch(k0, TRUE)
      BY <1>3, <1>4, WatchNotify
    <2>2. [marked EXCEPT !.proc[p].ppid = 1] \in Watch(k0, TRUE)
      BY <1>4, WatchField, EventFacts, Sets
    <2> QED
      BY <2>1, <2>2
  <1>8. doomed \in Queue(Users) /\ \A j : Contains(doomed, j) <=> Contains(k.suspended, j) /\ j \in jobs
    BY <1>2, ThoseFacts
  <1>9. \A j \in Users : Contains(doomed, j) =>
           j # p /\ informed.proc[j].state = "STOPPED" /\ InUse(informed, j)
    <2>1. \A j \in Users : informed.proc[j].state = marked.proc[j].state
      BY <1>6, Sets DEF Still
    <2> QED
      BY <1>2, <1>5, <1>8, <2>1 DEF Off, InUse
  <1> HIDE DEF informed, doomed
  <1>10. informed \in Transit(k1, p, "KILLED")
    BY <1>4, <1>6, StillTransit
  <1>11. jobless \in Transit(k1, p, "KILLED") /\ jobless \in Watch(k0, TRUE)
    BY <1>7, <1>8, <1>9, <1>10, KillJobsTransit, WatchKillJobs
  <1> HIDE DEF jobless
  <1>12. orphaned \in Transit(k1, p, "KILLED") /\ orphaned \in Watch(k0, TRUE)
    <2>1. jobless \in Still(jobless)
      BY <1>11, TransitFacts, NearSelf
    <2>2. orphaned \in Still(jobless)
      BY <2>1, SwitchParentStill, EventFacts
    <2>3. orphaned \in Watch(k0, TRUE)
      BY <1>11, WatchSwitchParent, EventFacts
    <2> QED
      BY <1>11, <2>2, <2>3, StillTransit
  <1> HIDE DEF orphaned
  <1>13. handed \in Transit(k1, p, "KILLED") /\ handed \in Watch(k0, TRUE)
    <2>1. orphaned \in Still(orphaned)
      BY <1>12, TransitFacts, NearSelf
    <2>2. handed \in Still(orphaned)
      BY <1>3, <2>1, HandOverStill
    <2>3. handed \in Watch(k0, TRUE)
      BY <1>3, <1>12, WatchHandOver
    <2> QED
      BY <1>12, <2>2, <2>3, StillTransit
  <1>14. released \in Transit(k1, p, "KILLED")
    BY <1>3, <1>12, ReleaseTransit
  <1> HIDE DEF handed
  <1>15. released \in Watch(k0, TRUE)
    BY <1>13, TransitFacts, WatchUnpause
  <1> HIDE DEF released
  <1>16. buried \in Settled(k1, p, "KILLED") /\ buried \in Watch(k0, TRUE)
    <2>1. released \in KRecord
      BY <1>15, WatchFacts
    <2>2. PushBack(released.zombies, p) \in Queue(Users)
      BY <2>1, PushBackFacts DEF KRecord
    <2>3. buried \in Watch(k0, TRUE)
      BY <1>15, <2>2, WatchQueue
    <2> QED
      BY <1>14, <2>3, PutOn
  <1> HIDE DEF buried
  <1>17. Calm(buried, {})
    BY <1>16, SettledFacts
  <1>18. /\ WakeUp(buried, STATE_CHANGE) \in Watch(k0, TRUE)
         /\ Roused(WakeUp(buried, STATE_CHANGE))
    BY <1>16, <1>17, WakeUpRouses
  <1> QED
    BY <1>1, <1>18 DEF Announced

\* The handler of the signals that terminate
LEMMA TerminateAnnounced ==
  ASSUME NEW k \in KState, Rooted(k), Calm(k, {}), NEW p \in Users, Alive(k, p),
         k.proc[p].state # "STOPPED"
  PROVE  Terminate(k, p) \in Announced(k) /\ Over(Terminate(k, p), p)
  <1>1. k.proc[p].state \notin {"STOPPED", "KILLED", "UNUSED"}
    BY DEF Alive
  <1>2. Dequeue(k, p) \in Transit(k, p, k.proc[p].state)
    BY <1>1, DequeueTransit
  <1>3. k \in Watch(k, TRUE)
    BY WatchSelf
  <1>4. Dequeue(k, p) \in Watch(k, TRUE)
    BY <1>3, WatchDequeue
  <1>5. InUse(Dequeue(k, p), p)
    BY <1>1, <1>4, WatchRooted DEF InUse
  <1>6. Terminate(k, p) \in Announced(k)
    BY <1>2, <1>4, <1>5, ExitAnnounced DEF Terminate
  <1>7. Terminate(k, p).proc[p].state = "KILLED"
    <2>1. Terminate(k, p) \in Settled(k, p, "KILLED")
      BY <1>1, TerminateSettled
    <2> QED
      BY <2>1 DEF Settled
  <1> QED
    BY <1>6, <1>7 DEF Over

\* The SIGKILL handler
LEMMA KillNowAnnounced ==
  ASSUME NEW k \in KState, Rooted(k), Calm(k, {}), NEW p \in Users, Alive(k, p), Unprivileged(k, p)
  PROVE  KillNow(k, p) \in Announced(k) /\ Over(KillNow(k, p), p)
  <1> DEFINE me       == k.proc[p]
             v        == me.state
             parent   == LookupLive(k, me.ppid)
             heir     == Lookup(k, me.ppid)
             informed == Notify(k, parent)
             off      == Dequeue(informed, p)
             handed   == HandOver(off, p, heir)
             released == Unpause(handed, p)
             removed  == IF me.state = "STOPPED"
                         THEN [informed EXCEPT !.suspended = Unlink(informed.suspended, p)]
                         ELSE released
             switched == SwitchParent(removed, me.pid, 1, FALSE)
             orphaned == KillChildren(switched, p, SIGKILL)
             marked   == MarkKilled(orphaned, p)
             r        == [marked EXCEPT !.proc[p].daemon = FALSE]
             dead     == [r EXCEPT !.zombies = PushBack(r.zombies, p)]
  <1>1. KillNow(k, p) = WakeUp(dead, STATE_CHANGE)
    BY DEF KillNow
  <1>2. parent \in Users \cup {NULL} /\ heir \in Users \cup {NULL}
    BY LookupFacts, LookupLiveFacts
  <1>3. v \notin {"KILLED", "UNUSED"} /\ k \in Watch(k, TRUE)
    BY WatchSelf DEF Alive
  <1> HIDE DEF parent, heir
  <1>4. informed \in Still(k) /\ informed \in Watch(k, TRUE)
    BY <1>2, <1>3, NearSelf, NotifyStill, WatchNotify
  <1>5. informed \in KState /\ Calm(informed, {}) /\ informed.proc[p].state = v
    BY <1>4, StillCalm
  <1> HIDE DEF informed
  <1>6. removed \in Transit(informed, p, v) /\ removed \in Watch(k, TRUE)
    <2>1. CASE v = "STOPPED"
      <3> DEFINE cut == [informed EXCEPT !.suspended = Unlink(informed.suspended, p)]
      <3>1. Unlink(informed.suspended, p) \in Queue(Users)
        <4>1. informed.suspended \in Queue(Users)
          <5>1. informed \in KRecord
            BY <1>5 DEF KState
          <5> QED
            BY <5>1 DEF KRecord
        <4> QED
          BY <4>1, UnlinkFacts
      <3>2. cut \in Watch(k, TRUE)
        BY <1>4, <3>1, WatchQueue
      <3>3. cut \in Transit(informed, p, v)
        BY <1>5, <2>1, TakeOff
      <3> QED
        BY <2>1, <3>2, <3>3
    <2>2. CASE v # "STOPPED"
      <3>1. off \in Transit(informed, p, v) /\ off \in Watch(k, TRUE)
        BY <1>3, <1>4, <1>5, <2>2, DequeueTransit, WatchDequeue
      <3> HIDE DEF off
      <3>2. released \in Transit(informed, p, v)
        BY <1>2, <3>1, ReleaseTransit
      <3>3. handed \in Transit(informed, p, v) /\ handed \in Watch(k, TRUE)
        <4>1. off \in Still(off)
          BY <3>1, TransitFacts, NearSelf
        <4>2. handed \in Still(off)
          BY <1>2, <4>1, HandOverStill
        <4>3. handed \in Watch(k, TRUE)
          BY <1>2, <3>1, WatchHandOver
        <4> QED
          BY <3>1, <4>2, <4>3, StillTransit
      <3> HIDE DEF handed
      <3>4. released \in Watch(k, TRUE)
        BY <3>3, TransitFacts, WatchUnpause
      <3> HIDE DEF released
      <3> QED
        BY <2>2, <3>2, <3>4
    <2> QED
      BY <2>1, <2>2
  <1> HIDE DEF removed
  <1>7. switched \in Transit(informed, p, v) /\ switched \in Watch(k, TRUE)
    <2>1. removed \in Still(removed)
      BY <1>6, TransitFacts, NearSelf
    <2>2. switched \in Still(removed)
      BY <2>1, SwitchParentStill, EventFacts
    <2>3. switched \in Watch(k, TRUE)
      BY <1>6, WatchSwitchParent, EventFacts
    <2> QED
      BY <1>6, <2>2, <2>3, StillTransit
  <1> HIDE DEF switched
  <1>8. orphaned \in Transit(informed, p, v) /\ orphaned \in Watch(k, TRUE)
    <2>1. switched \in Mild(switched, {p})
      BY <1>7, TransitFacts
    <2>2. orphaned \in Mild(switched, {p})
      BY <2>1, KillChildrenMild, Sets
    <2>3. orphaned \in Watch(k, TRUE)
      BY <1>7, WatchKillChildren, FatalFacts
    <2> QED
      BY <1>7, <2>2, <2>3, MildTransit
  <1> HIDE DEF orphaned
  <1>9. marked \in Transit(informed, p, "KILLED") /\ marked \in Watch(k, TRUE)
    <2>1. InUse(orphaned, p)
      BY <1>3, <1>8, WatchRooted DEF InUse
    <2> QED
      BY <1>8, <2>1, MarkKilledTransit, WatchMarkKilled
  <1> HIDE DEF marked
  <1>10. r \in Transit(informed, p, "KILLED") /\ r \in Watch(k, TRUE)
    <2>1. marked \in Still(marked)
      BY <1>9, TransitFacts, NearSelf
    <2>2. \A b \in BOOLEAN : [marked EXCEPT !.proc[p].daemon = b] \in Still(marked)
      BY <2>1, QuietField, Sets
    <2>3. \A b \in BOOLEAN : [marked EXCEPT !.proc[p].daemon = b] \in Watch(k, TRUE)
      BY <1>9, WatchField, Sets
    <2>4. r \in Still(marked) /\ r \in Watch(k, TRUE)
      BY <2>2, <2>3
    <2> QED
      BY <1>9, <2>4, StillTransit
  <1> HIDE DEF r
  <1>11. dead \in Settled(informed, p, "KILLED") /\ dead \in Watch(k, TRUE)
    <2>1. r \in KRecord
      BY <1>10, WatchFacts
    <2>2. PushBack(r.zombies, p) \in Queue(Users)
      BY <2>1, PushBackFacts DEF KRecord
    <2>3. dead \in Watch(k, TRUE)
      BY <1>10, <2>2, WatchQueue
    <2> QED
      BY <1>10, <2>3, PutOn
  <1> HIDE DEF dead
  <1>12. Calm(dead, {})
    BY <1>11, SettledFacts
  <1>13. WakeUp(dead, STATE_CHANGE) \in Watch(k, TRUE) /\ Roused(WakeUp(dead, STATE_CHANGE))
    BY <1>11, <1>12, WakeUpRouses
  <1>14. KillNow(k, p).proc[p].state = "KILLED"
    <2>1. KillNow(k, p) \in Settled(k, p, "KILLED")
      BY KillNowSettled
    <2> QED
      BY <2>1 DEF Settled
  <1> QED
    BY <1>1, <1>13, <1>14 DEF Announced, Over

\* The stop handler
LEMMA StopAnnounced ==
  ASSUME NEW k \in KState, Rooted(k), Calm(k, {}), NEW p \in Users, Alive(k, p), Unprivileged(k, p),
         k.proc[p].state # "STOPPED"
  PROVE  Stop(k, p) \in Announced(k) /\ Over(Stop(k, p), p)
  <1> DEFINE ppid     == k.proc[p].ppid
             v        == k.proc[p].state
             parent   == LookupLive(k, ppid)
             heir     == Lookup(k, ppid)
             off      == Dequeue(k, p)
             informed == InformOfStop(off, p, parent)
             handed   == HandOver(informed, p, heir)
             released == Unpause(handed, p)
             r        == [released EXCEPT !.proc[p].state = "STOPPED"]
             stopped  == [r EXCEPT !.suspended = PushBack(r.suspended, p)]
  <1>1. Stop(k, p) = WakeUp(stopped, STATE_CHANGE)
    BY DEF Stop
  <1>2. parent \in Users \cup {NULL} /\ heir \in Users \cup {NULL}
    BY LookupFacts, LookupLiveFacts
  <1>3. v \notin {"STOPPED", "KILLED", "UNUSED"} /\ k \in Watch(k, TRUE)
    BY WatchSelf DEF Alive
  <1> HIDE DEF parent, heir
  <1>4. off \in Transit(k, p, v) /\ off \in Watch(k, TRUE)
    BY <1>3, DequeueTransit, WatchDequeue
  <1> HIDE DEF off
  <1>5. informed \in Transit(k, p, v) /\ informed \in Watch(k, TRUE)
    <2>1. off \in Still(off)
      BY <1>4, TransitFacts, NearSelf
    <2>2. informed \in Still(off)
      BY <1>2, <2>1, InformOfStopStill
    <2>3. informed \in Watch(k, TRUE)
      BY <1>2, <1>4, WatchInformOfStop
    <2> QED
      BY <1>4, <2>2, <2>3, StillTransit
  <1> HIDE DEF informed
  <1>6. released \in Transit(k, p, v)
    BY <1>2, <1>5, ReleaseTransit
  <1>7. handed \in Transit(k, p, v) /\ handed \in Watch(k, TRUE)
    <2>1. informed \in Still(informed)
      BY <1>5, TransitFacts, NearSelf
    <2>2. handed \in Still(informed)
      BY <1>2, <2>1, HandOverStill
    <2>3. handed \in Watch(k, TRUE)
      BY <1>2, <1>5, WatchHandOver
    <2> QED
      BY <1>5, <2>2, <2>3, StillTransit
  <1> HIDE DEF handed
  <1>8. released \in Watch(k, TRUE)
    BY <1>7, TransitFacts, WatchUnpause
  <1> HIDE DEF released
  <1>9. r \in Transit(k, p, "STOPPED") /\ r \in Watch(k, TRUE)
    <2> DEFINE o == released.proc[p]
               s == [o EXCEPT !.state = "STOPPED"]
    <2>1. o \in ProcessOK /\ p \in Slots /\ p # Idle
      BY <1>8, WatchFacts, StateAfter, Sets
    <2>2. s \in ProcessOK
      BY <2>1, FieldFacts DEF States
    <2>3. /\ s.pid = o.pid /\ s.state = "STOPPED" /\ s.handlers = o.handlers
      BY <2>1 DEF ProcessOK
    <2>4. o.pid \notin {0, 1} /\ o.state # "UNUSED"
      <3>1. /\ o.pid = k.proc[p].pid
            /\ o.state = "UNUSED" <=> k.proc[p].state = "UNUSED"
        BY <1>8, WatchFacts
      <3> HIDE DEF o
      <3> QED
        BY <1>3, <3>1 DEF Unprivileged
    <2> HIDE DEF s
    <2>5. Attends(o, s, TRUE)
      BY <2>3, <2>4 DEF Attends, Alert, Napping
    <2>6. [released EXCEPT !.proc[p] = s] \in Watch(k, TRUE)
      BY <1>8, <2>1, <2>2, <2>5, WatchProcess
    <2>7. r \in Transit(k, p, "STOPPED")
      BY <1>6, SetState DEF States
    <2> QED
      BY <2>6, <2>7 DEF s
  <1> HIDE DEF r
  <1>10. stopped \in Settled(k, p, "STOPPED") /\ stopped \in Watch(k, TRUE)
    <2>1. r \in KRecord
      BY <1>9, WatchFacts
    <2>2. PushBack(r.suspended, p) \in Queue(Users)
      BY <2>1, PushBackFacts DEF KRecord
    <2>3. stopped \in Watch(k, TRUE)
      BY <1>9, <2>2, WatchQueue
    <2> QED
      BY <1>9, <2>3, PutOn
  <1> HIDE DEF stopped
  <1>11. Calm(stopped, {})
    BY <1>10, SettledFacts
  <1>12. WakeUp(stopped, STATE_CHANGE) \in Watch(k, TRUE) /\ Roused(WakeUp(stopped, STATE_CHANGE))
    BY <1>10, <1>11, WakeUpRouses
  <1>13. Stop(k, p).proc[p].state = "STOPPED"
    <2>1. Stop(k, p) \in Settled(k, p, "STOPPED")
      BY <1>3, StopSettled
    <2> QED
      BY <2>1 DEF Settled
  <1> QED
    BY <1>1, <1>12, <1>13 DEF Announced, Over


-----------------------------------------------------------------------------
(***************************************************************************)
(* Acting on signals.  Whoever was woken up from wait by a signal dies or  *)
(* is stopped; whoever goes back to sleep sleeps for another reason.       *)
(***************************************************************************)
Nudged(r) == r.state = "READY" /\ r.event = STATE_CHANGE

LEMMA DefaultHandlerAnnounced ==
  ASSUME NEW k \in KState, Rooted(k), Calm(k, {}), NEW p \in Users, Alive(k, p),
         NEW s \in Known, s # SIGCONT, k.proc[p].state = "STOPPED" => s = SIGKILL
  PROVE  LET r == DefaultHandler(k, p, s)
         IN  /\ r = k \/ (r \in Announced(k) /\ Over(r, p))
             /\ s \in Fatal /\ Unprivileged(k, p) => r \in Announced(k) /\ Over(r, p)
  <1>1. CASE s \in {SIGHUP, SIGINT, SIGABRT, SIGTERM}
    <2>1. k.proc[p].state # "STOPPED"
      BY <1>1 DEF SIGHUP, SIGINT, SIGABRT, SIGTERM, SIGKILL
    <2>2. DefaultHandler(k, p, s) = Terminate(k, p)
      BY <1>1 DEF DefaultHandler, SIGHUP, SIGINT, SIGABRT, SIGTERM, SIGKILL, SIGTSTP, SIGSTOP, SIGCONT
    <2> QED
      BY <2>1, <2>2, TerminateAnnounced
  <1>2. CASE s = SIGKILL
    <2>1. DefaultHandler(k, p, s) = KillNow(k, p)
      BY <1>2 DEF DefaultHandler, SIGHUP, SIGINT, SIGABRT, SIGTERM, SIGKILL, SIGTSTP, SIGSTOP, SIGCONT
    <2>2. ~ Unprivileged(k, p) => KillNow(k, p) = k
      BY DEF KillNow
    <2> QED
      BY <2>1, <2>2, KillNowAnnounced
  <1>3. CASE s \in {SIGTSTP, SIGSTOP}
    <2>1. k.proc[p].state # "STOPPED"
      BY <1>3 DEF SIGTSTP, SIGSTOP, SIGKILL
    <2>2. DefaultHandler(k, p, s) = Stop(k, p)
      BY <1>3 DEF DefaultHandler, SIGHUP, SIGINT, SIGABRT, SIGTERM, SIGKILL, SIGTSTP, SIGSTOP, SIGCONT
    <2>3. ~ Unprivileged(k, p) => Stop(k, p) = k
      BY DEF Stop
    <2> QED
      BY <2>1, <2>2, <2>3, StopAnnounced
  <1>4. CASE s \notin {SIGHUP, SIGINT, SIGABRT, SIGTERM, SIGKILL, SIGTSTP, SIGSTOP}
    BY <1>4 DEF DefaultHandler, Fatal
  <1> QED
    BY <1>1, <1>2, <1>3, <1>4

\* A turn of the loop, for a process that catches no signal
LEMMA DeliverDefault ==
  ASSUME NEW k, NEW p, k.proc[p].handlers = DefHandlers, NEW s \in Known, s # SIGCONT
  PROVE  LET ignored == \/ s \notin k.proc[p].signals \/ ~ Alive(k, p)
                        \/ k.proc[p].state = "STOPPED" /\ s # SIGKILL
             handled == IF s \in Default THEN DefaultHandler(k, p, s) ELSE k
             cleared == [handled EXCEPT !.proc[p].signals = @ \ {s}]
         IN  Deliver(k, p, s) = IF ignored THEN k ELSE Resleep(cleared, p)
  <1> DEFINE h == DefaultHandler(k, p, s)
  <1>1. k.proc[p].handlers[s] = IF s \in Default THEN "DEFAULT" ELSE "NULL"
    BY DEF DefHandlers
  <1>2. Deliver(k, p, s) =
          LET handled == CASE k.proc[p].handlers[s] = "USER"    -> Redirect(k, p, s)
                           [] k.proc[p].handlers[s] = "DEFAULT" -> h
                           [] OTHER                             -> k
              cleared == [handled EXCEPT !.proc[p].signals = @ \ {s}]
          IN  IF \/ s \notin k.proc[p].signals \/ ~ Alive(k, p)
                 \/ k.proc[p].state = "STOPPED" /\ s \notin {SIGKILL, SIGCONT}
              THEN k
              ELSE IF k.proc[p].handlers[s] = "USER" THEN cleared ELSE Resleep(cleared, p)
    BY DEF Deliver
  <1> HIDE DEF h
  <1>3. CASE s \in Default
    BY <1>1, <1>2, <1>3 DEF h
  <1>4. CASE s \notin Default
    BY <1>1, <1>2, <1>4
  <1> QED
    BY <1>3, <1>4

LEMMA ClearedQuiet ==
  ASSUME NEW k \in KState, Calm(k, {}), NEW p \in Users, ~ Nudged(k.proc[p]), NEW s
  PROVE  LET c == [k EXCEPT !.proc[p].signals = @ \ {s}]
         IN  /\ c \in Watch(k, FALSE) /\ c \in KState /\ Calm(c, {}) /\ ~ Nudged(c.proc[p])
             /\ c.proc[p].state = k.proc[p].state
  <1> DEFINE o == k.proc[p]
             v == o.signals \ {s}
             r == [o EXCEPT !.signals = v]
             c == [k EXCEPT !.proc[p].signals = @ \ {s}]
  <1>1. k \in Near(k) /\ k \in KRecord /\ p \in Slots /\ p # Idle /\ o \in ProcessOK /\ k \in Watch(k, FALSE)
    BY NearSelf, StateFacts, StateAfter, Sets, WatchSelf
  <1>2. r \in ProcessOK
    <2>1. v \in SignalSet
      BY <1>1, ProcessFacts, SignalFacts
    <2> QED
      BY <1>1, <2>1, FieldFacts
  <1>3. /\ r.pid = o.pid /\ r.state = o.state /\ r.event = o.event /\ r.handlers = o.handlers
        /\ r.ppid = o.ppid /\ r.wpid = o.wpid /\ r.call = o.call
    BY <1>1 DEF ProcessOK
  <1>4. c = [k EXCEPT !.proc[p] = r]
    OBVIOUS
  <1>5. c \in Still(k)
    BY ClearedStill
  <1>6. c.proc[p] = r
    BY <1>1, <1>4 DEF KRecord
  <1> HIDE DEF r, c
  <1>7. Attends(o, r, FALSE)
    BY <1>3 DEF Attends, Alert, Napping, Peaceful, Nudged
  <1>8. [k EXCEPT !.proc[p] = r] \in Watch(k, FALSE)
    BY <1>1, <1>2, <1>7, WatchProcess
  <1>9. c \in KState /\ Calm(c, {})
    BY <1>5, StillCalm
  <1>10. ~ Nudged(c.proc[p]) /\ c.proc[p].state = k.proc[p].state
    BY <1>3, <1>6 DEF Nudged
  <1> QED
    BY <1>4, <1>8, <1>9, <1>10 DEF c

LEMMA ResleepQuiet ==
  ASSUME NEW k \in KState, Calm(k, {}), NEW p \in Users, ~ Nudged(k.proc[p])
  PROVE  Resleep(k, p) \in Watch(k, FALSE) /\ ~ Nudged(Resleep(k, p).proc[p])
  <1> DEFINE o  == k.proc[p]
             r1 == [k EXCEPT !.ready = Unlink(k.ready, p)]
             r2 == [r1 EXCEPT !.waiting = PushBack(r1.waiting, p)]
             r3 == [r2 EXCEPT !.proc[p].state = "SLEEP"]
             s  == [o EXCEPT !.state = "SLEEP"]
  <1>1. k \in KRecord /\ p \in Slots /\ p # Idle /\ o \in ProcessOK /\ k \in Watch(k, FALSE)
    BY NearSelf, StateFacts, StateAfter, Sets, WatchSelf
  <1>2. r1 \in Watch(k, FALSE) /\ r1.proc = k.proc
    <2>1. Unlink(k.ready, p) \in Queue(Users)
      BY <1>1, UnlinkFacts DEF KRecord
    <2> QED
      BY <1>1, <2>1, WatchQueue DEF KRecord
  <1> HIDE DEF r1
  <1>3. r2 \in Watch(k, FALSE) /\ r2.proc = k.proc
    <2>1. r1 \in KRecord
      BY <1>2, WatchFacts
    <2>2. PushBack(r1.waiting, p) \in Queue(Users)
      BY <2>1, PushBackFacts DEF KRecord
    <2> QED
      BY <1>2, <2>1, <2>2, WatchQueue DEF KRecord
  <1> HIDE DEF r2
  <1>4. Contains(k.ready, p) => r3 \in Watch(k, FALSE) /\ r3.proc[p].state = "SLEEP"
    <2> SUFFICES ASSUME Contains(k.ready, p)
                 PROVE  r3 \in Watch(k, FALSE) /\ r3.proc[p].state = "SLEEP"
      OBVIOUS
    <2>1. o.state = "READY" /\ o.event # STATE_CHANGE
      BY DEF Calm, Listed, Nudged
    <2>2. s \in ProcessOK
      BY <1>1, FieldFacts DEF States
    <2>3. s.pid = o.pid /\ s.state = "SLEEP" /\ s.event = o.event /\ s.handlers = o.handlers
      BY <1>1 DEF ProcessOK
    <2>4. r3 = [r2 EXCEPT !.proc[p] = s]
      BY <1>3
    <2>5. r3.proc[p] = s
      BY <1>1, <1>3, <2>4, WatchFacts DEF KRecord
    <2> HIDE DEF s, r3
    <2>6. Attends(o, s, FALSE)
      BY <2>1, <2>3 DEF Attends, Alert, Napping, Peaceful
    <2>7. [r2 EXCEPT !.proc[p] = s] \in Watch(k, FALSE)
      BY <1>1, <1>3, <2>2, <2>6, WatchProcess
    <2> QED
      BY <2>3, <2>4, <2>5, <2>7
  <1>5. Resleep(k, p) = IF Contains(k.ready, p) /\ k.proc[p].event # NONE THEN r3 ELSE k
    BY DEF Resleep, r1, r2
  <1> HIDE DEF r3
  <1> QED
    BY <1>1, <1>4, <1>5 DEF Nudged

\* A process that is over with its signals, or was not woken up by one
LEMMA DeliverHeard ==
  ASSUME SIGCONT \notin Known, NEW k \in KState, Rooted(k), Calm(k, {}), NEW p \in Users,
         Alert(k.proc[p]), ~ Nudged(k.proc[p]), NEW s \in Known
  PROVE  Deliver(k, p, s) \in Heard(k) /\ ~ Nudged(Deliver(k, p, s).proc[p])
  <1> DEFINE handled == IF s \in Default THEN DefaultHandler(k, p, s) ELSE k
             cleared == [handled EXCEPT !.proc[p].signals = @ \ {s}]
             ignored == \/ s \notin k.proc[p].signals \/ ~ Alive(k, p)
                        \/ k.proc[p].state = "STOPPED" /\ s # SIGKILL
  <1>1. s # SIGCONT /\ k.proc[p].handlers = DefHandlers /\ k \in Heard(k)
    BY WatchSelf DEF Alert, Heard
  <1>2. Deliver(k, p, s) = IF ignored THEN k ELSE Resleep(cleared, p)
    BY <1>1, DeliverDefault
  <1>3. CASE ignored
    BY <1>1, <1>2, <1>3
  <1>4. CASE ~ ignored
    <2>1. Alive(k, p) /\ (k.proc[p].state = "STOPPED" => s = SIGKILL)
      BY <1>4
    <2>2. handled \in Heard(k) /\ ~ Nudged(handled.proc[p])
      <3>1. CASE handled = k
        BY <1>1, <3>1
      <3>2. CASE handled # k
        <4>1. handled \in Announced(k) /\ Over(handled, p)
          BY <1>1, <2>1, <3>2, DefaultHandlerAnnounced
        <4> QED
          BY <4>1 DEF Heard, Announced, Nudged, Over
      <3> QED
        BY <3>1, <3>2
    <2>3. handled \in KState /\ Calm(handled, {})
      <3>1. CASE handled = k
        BY <3>1
      <3>2. CASE handled # k
        <4>1. handled \in Settled(k, p, "KILLED") \/ handled \in Settled(k, p, "STOPPED")
          BY <1>1, <2>1, <3>2, DefaultHandlerSettled
        <4> QED
          BY <4>1 DEF Settled, Near
      <3> QED
        BY <3>1, <3>2
    <2>4. Deliver(k, p, s) = Resleep(cleared, p)
      BY <1>2, <1>4
    <2> HIDE DEF handled
    <2>5. /\ cleared \in Watch(handled, FALSE) /\ cleared \in KState /\ Calm(cleared, {})
          /\ ~ Nudged(cleared.proc[p])
      BY <2>2, <2>3, ClearedQuiet
    <2> HIDE DEF cleared
    <2>6. Resleep(cleared, p) \in Watch(cleared, FALSE) /\ ~ Nudged(Resleep(cleared, p).proc[p])
      BY <2>5, ResleepQuiet
    <2>7. Resleep(cleared, p) \in Heard(k)
      BY <2>2, <2>5, <2>6, HeardQuiet
    <2> QED
      BY <2>4, <2>6, <2>7
  <1> QED
    BY <1>3, <1>4

\* A signal that stops or kills
LEMMA DeliverFatal ==
  ASSUME SIGCONT \notin Known, NEW k \in KState, Rooted(k), Calm(k, {}), NEW p \in Users,
         Alert(k.proc[p]), Unprivileged(k, p), k.proc[p].state \in {"READY", "SLEEP"},
         NEW s \in Known, s \in Fatal, s \in k.proc[p].signals
  PROVE  Deliver(k, p, s) \in Announced(k) /\ Over(Deliver(k, p, s), p)
  <1> DEFINE handled == DefaultHandler(k, p, s)
             cleared == [handled EXCEPT !.proc[p].signals = @ \ {s}]
  <1>1. s # SIGCONT /\ s \in Default /\ k.proc[p].handlers = DefHandlers /\ Alive(k, p)
    BY DEF Alert, Alive, Fatal, Default
  <1>2. Deliver(k, p, s) = Resleep(cleared, p)
    BY <1>1, DeliverDefault
  <1>3. handled \in Announced(k) /\ Over(handled, p)
    BY <1>1, DefaultHandlerAnnounced
  <1>4. handled \in KState /\ Calm(handled, {}) /\ ~ Nudged(handled.proc[p])
    <2>1. handled # k
      BY <1>3 DEF Over
    <2>2. handled \in Settled(k, p, "KILLED") \/ handled \in Settled(k, p, "STOPPED")
      BY <1>1, <2>1, DefaultHandlerSettled
    <2> QED
      BY <1>3, <2>2 DEF Settled, Near, Over, Nudged
  <1> HIDE DEF handled
  <1>5. /\ cleared \in Watch(handled, FALSE) /\ cleared \in KState /\ Calm(cleared, {})
        /\ cleared.proc[p].state = handled.proc[p].state
    BY <1>4, ClearedQuiet
  <1> HIDE DEF cleared
  <1>6. Resleep(cleared, p) = cleared
    <2>1. ~ Contains(cleared.ready, p)
      BY <1>3, <1>5 DEF Calm, Listed, Over
    <2> QED
      BY <2>1 DEF Resleep
  <1>7. cleared \in Announced(k)
    <2>1. handled \in Watch(k, TRUE) /\ Roused(handled)
      BY <1>3 DEF Announced
    <2>2. cleared \in Watch(k, TRUE)
      BY <1>5, <2>1, WatchLoud, WatchTrans
    <2>3. Roused(cleared)
      BY <1>5, <2>1, WatchRoused
    <2> QED
      BY <2>2, <2>3 DEF Announced
  <1> QED
    BY <1>2, <1>3, <1>5, <1>6, <1>7 DEF Over


\* p was woken up from wait by a signal.  After n turns of the loop the signal
\* that stops or kills it is still to come.
Pending(k, p, n) ==
  {kk \in KState :
     /\ kk.pidNum = k.pidNum /\ Calm(kk, {})
     /\ \A q \in Users \ {p} : Attends(k.proc[q], kk.proc[q], FALSE)
     /\ kk.proc[p].pid = k.proc[p].pid /\ kk.proc[p].handlers = DefHandlers
     /\ kk.proc[p].state \in {"READY", "SLEEP"} /\ kk.proc[p].event = STATE_CHANGE
     /\ \E i \in n + 1 .. Len(SignalOrder) : SignalOrder[i] \in kk.proc[p].signals \cap Fatal}

LEMMA PendingFatal ==
  ASSUME SIGCONT \notin Known, NEW k \in KState, Rooted(k), NEW p \in Users,
         InUse(k, p), Unprivileged(k, p), NEW n, NEW kk \in Pending(k, p, n),
         NEW s \in Known, s \in Fatal, s \in kk.proc[p].signals
  PROVE  Deliver(kk, p, s) \in Announced(k) /\ Over(Deliver(kk, p, s), p)
  <1> DEFINE r == Deliver(kk, p, s)
  <1>1. /\ kk \in KState /\ kk.pidNum = k.pidNum /\ Calm(kk, {})
        /\ \A q \in Users \ {p} : Attends(k.proc[q], kk.proc[q], FALSE)
        /\ kk.proc[p].pid = k.proc[p].pid /\ kk.proc[p].handlers = DefHandlers
        /\ kk.proc[p].state \in {"READY", "SLEEP"}
    BY DEF Pending
  <1>2. Unprivileged(kk, p) /\ Alert(kk.proc[p])
    BY <1>1 DEF Unprivileged, Alert, Doomed
  <1>3. Rooted(kk)
    <2>1. \A q \in Users \ {p} : kk.proc[q].pid = k.proc[q].pid /\ (InUse(kk, q) <=> InUse(k, q))
      BY <1>1 DEF Attends, InUse
    <2> QED
      BY <1>1, <2>1 DEF Rooted, Unprivileged
  <1>4. r \in Announced(kk) /\ Over(r, p)
    BY <1>1, <1>2, <1>3, DeliverFatal
  <1> HIDE DEF r
  <1>5. /\ r \in KState /\ r.pidNum = kk.pidNum /\ Roused(r)
        /\ \A q \in Users : Attends(kk.proc[q], r.proc[q], TRUE)
    BY <1>4 DEF Announced, Watch
  <1>6. ASSUME NEW q \in Users
        PROVE  Attends(k.proc[q], r.proc[q], TRUE)
    <2>1. CASE q = p
      <3>1. r.proc[p].pid = k.proc[p].pid /\ Alert(r.proc[p])
        BY <1>1, <1>2, <1>5 DEF Attends
      <3> QED
        BY <1>4, <2>1, <3>1 DEF Attends, Over, Napping, InUse
    <2>2. CASE q # p
      <3>1. Attends(k.proc[q], kk.proc[q], TRUE)
        BY <1>1, <2>2 DEF Attends
      <3> QED
        BY <1>5, <3>1, AttendsTrans
    <2> QED
      BY <2>1, <2>2
  <1>7. r \in Watch(k, TRUE)
    BY <1>1, <1>5, <1>6 DEF Watch
  <1> QED
    BY <1>4, <1>5, <1>7 DEF Announced, r

\* SIGCHLD has no handler: p goes back to sleep, for the time being.
LEMMA PendingHarmless ==
  ASSUME SIGCONT \notin Known, NEW k \in KState, NEW p \in Users, NEW n \in Nat,
         NEW kk \in Pending(k, p, n), n + 1 \in 1 .. Len(SignalOrder),
         NEW s, s = SignalOrder[n + 1], s \in Known, s \notin Fatal \/ s \notin kk.proc[p].signals
  PROVE  Deliver(kk, p, s) \in Pending(k, p, n + 1)
  <1> DEFINE cleared == [kk EXCEPT !.proc[p].signals = @ \ {s}]
             o       == kk.proc[p]
             r       == Deliver(kk, p, s)
             ignored == \/ s \notin kk.proc[p].signals \/ ~ Alive(kk, p)
                        \/ kk.proc[p].state = "STOPPED" /\ s # SIGKILL
  <1>1. /\ kk \in KState /\ kk \in KRecord /\ kk.pidNum = k.pidNum /\ Calm(kk, {})
        /\ \A q \in Users \ {p} : Attends(k.proc[q], kk.proc[q], FALSE)
        /\ o.pid = k.proc[p].pid /\ o.handlers = DefHandlers
        /\ o.state \in {"READY", "SLEEP"} /\ o.event = STATE_CHANGE
        /\ p \in Slots /\ o \in ProcessOK
    BY NearSelf, StateFacts, StateAfter, Sets DEF Pending
  <1>2. PICK i \in n + 1 .. Len(SignalOrder) : SignalOrder[i] \in o.signals \cap Fatal
    BY DEF Pending
  <1>3. i \in (n + 1) + 1 .. Len(SignalOrder) /\ SignalOrder[i] # s
    <2>1. SignalOrder[i] # s /\ i # n + 1
      BY <1>2
    <2>2. Len(SignalOrder) \in Nat
      BY SignalOrderFacts DEF Queue
    <2> QED
      BY <2>1, <2>2
  <1>4. s # SIGCONT
    OBVIOUS
  <1>5. r \in KState /\ Calm(r, {})
    <2>1. r \in Signalled(kk)
      BY <1>1, DeliverSignalled
    <2> QED
      BY <2>1, SignalledFacts
  <1>6. s \notin Fatal => s \notin Default
    BY <1>4 DEF Default, Fatal
  <1>7. r \in {kk, Resleep(cleared, p)}
    <2>1. r = IF ignored THEN kk
              ELSE Resleep([IF s \in Default THEN DefaultHandler(kk, p, s) ELSE kk
                              EXCEPT !.proc[p].signals = @ \ {s}], p)
      BY <1>1, <1>4, DeliverDefault
    <2>2. s \in Default => ignored
      BY <1>6
    <2> QED
      BY <2>1, <2>2
  <1>8. ASSUME NEW x \in {kk, Resleep(cleared, p)}
        PROVE  /\ x.pidNum = kk.pidNum /\ \A q \in Users \ {p} : x.proc[q] = kk.proc[q]
               /\ x.proc[p].pid = o.pid /\ x.proc[p].handlers = o.handlers
               /\ x.proc[p].state \in {"READY", "SLEEP"} /\ x.proc[p].event = o.event
               /\ o.signals \ {s} \subseteq x.proc[p].signals
    <2>1. CASE x = kk
      BY <1>1, <2>1
    <2>2. CASE x = Resleep(cleared, p)
      <3> DEFINE o1 == [o EXCEPT !.signals = o.signals \ {s}]
                 o2 == [o1 EXCEPT !.state = "SLEEP"]
      <3>1. /\ o1.pid = o.pid /\ o1.handlers = o.handlers /\ o1.state = o.state
            /\ o1.event = o.event /\ o1.signals = o.signals \ {s}
        BY <1>1 DEF ProcessOK
      <3>2. /\ o2.pid = o.pid /\ o2.handlers = o.handlers /\ o2.state = "SLEEP"
            /\ o2.event = o.event /\ o2.signals = o.signals \ {s}
        BY <1>1 DEF ProcessOK
      <3>3. cleared.pidNum = kk.pidNum /\ \A q \in Users : cleared.proc[q] = IF q = p THEN o1 ELSE kk.proc[q]
        BY <1>1, Sets DEF KRecord
      <3>4. /\ x.pidNum = kk.pidNum /\ x.proc[p] \in {o1, o2}
            /\ \A q \in Users \ {p} : x.proc[q] = kk.proc[q]
        BY <1>1, <2>2, <3>3, Sets DEF Resleep, KRecord
      <3> HIDE DEF o1, o2
      <3> QED
        BY <1>1, <3>1, <3>2, <3>4
    <2> QED
      BY <2>1, <2>2
  <1> HIDE DEF r, cleared
  <1>9. \A q \in Users \ {p} : Attends(k.proc[q], r.proc[q], FALSE)
    BY <1>1, <1>7, <1>8
  <1>10. SignalOrder[i] \in r.proc[p].signals \cap Fatal
    BY <1>2, <1>3, <1>7, <1>8
  <1>11. r \in Pending(k, p, n + 1)
    BY <1>1, <1>3, <1>5, <1>7, <1>8, <1>9, <1>10 DEF Pending
  <1> QED
    BY <1>11 DEF r

\* Nobody sleeps in wait, and p is over with its signals.
Finished(k, p) == {kk \in Announced(k) : Calm(kk, {}) /\ Over(kk, p)}

LEMMA DeliverFinished ==
  ASSUME SIGCONT \notin Known, NEW k \in KState, Rooted(k), NEW p \in Users, Alert(k.proc[p]),
         NEW kk \in Finished(k, p), NEW s \in Known
  PROVE  Deliver(kk, p, s) \in Finished(k, p)
  <1> DEFINE r == Deliver(kk, p, s)
  <1>1. kk \in Watch(k, TRUE) /\ Roused(kk) /\ Calm(kk, {}) /\ Over(kk, p) /\ kk \in KState
    BY WatchFacts DEF Finished, Announced
  <1>2. Rooted(kk) /\ Alert(kk.proc[p]) /\ ~ Nudged(kk.proc[p])
    BY <1>1, WatchRooted, WatchFacts DEF Nudged, Over
  <1>3. r \in Heard(kk) /\ r \in Signalled(kk) /\ Over(r, p)
    BY <1>1, <1>2, DeliverHeard, DeliverSignalled
  <1> HIDE DEF r
  <1>4. r \in Watch(kk, TRUE) /\ Calm(r, {})
    BY <1>3, HeardFacts, SignalledFacts
  <1>5. r \in Watch(k, TRUE) /\ Roused(r)
    BY <1>1, <1>4, WatchTrans, WatchRoused
  <1> QED
    BY <1>3, <1>4, <1>5 DEF Finished, Announced, r

\* check_pending_signals
LEMMA CheckPendingHeard ==
  ASSUME SIGCONT \notin Known, NEW k \in KState, Rooted(k), Calm(k, {}), NEW p \in Users,
         Alert(k.proc[p])
  PROVE  CheckPendingSignals(k, p) \in Heard(k)
  <1> DEFINE q == SignalOrder
             d == DeliverSeq(k, q, p)
  <1>1. CheckPendingSignals(k, p) = IF k.proc[p].signals = {} THEN k ELSE d
    BY DEF CheckPendingSignals, DeliverSeq, FoldLeft, MapThenFoldSet
  <1>2. /\ q \in Seq(Known) /\ Len(q) \in Nat
        /\ \A s \in Known : \E i \in 1 .. Len(q) : q[i] = s
    BY SignalOrderFacts DEF Queue, Contains
  <1>3. k \in Heard(k)
    BY WatchSelf DEF Heard
  <1>4. CASE ~ Nudged(k.proc[p])
    <2> DEFINE K == {kk \in Heard(k) : Calm(kk, {}) /\ ~ Nudged(kk.proc[p])}
    <2>1. k \in K
      BY <1>3, <1>4
    <2>2. ASSUME NEW kk \in K, NEW s \in Known
          PROVE  Deliver(kk, p, s) \in K
      <3>1. kk \in KState /\ kk \in Watch(k, TRUE) /\ Calm(kk, {}) /\ ~ Nudged(kk.proc[p])
        BY HeardFacts
      <3>2. Rooted(kk) /\ Alert(kk.proc[p])
        BY <3>1, WatchRooted, WatchFacts
      <3>3. /\ Deliver(kk, p, s) \in Heard(kk) /\ ~ Nudged(Deliver(kk, p, s).proc[p])
            /\ Deliver(kk, p, s) \in Signalled(kk)
        BY <3>1, <3>2, DeliverHeard, DeliverSignalled
      <3> QED
        BY <3>3, SignalledFacts, HeardTrans
    <2> HIDE DEF K, q
    <2>3. d \in K
      BY <1>2, <2>1, <2>2, DeliverLoop
    <2> HIDE DEF d
    <2> QED
      BY <1>1, <1>3, <2>3 DEF K
  <1>5. CASE Nudged(k.proc[p])
    <2> DEFINE P == [n \in 0 .. Len(q) |-> Pending(k, p, n) \cup Finished(k, p)]
    <2>1. /\ k.proc[p].state = "READY" /\ k.proc[p].event = STATE_CHANGE
          /\ k.proc[p].handlers = DefHandlers /\ Doomed(k.proc[p])
          /\ InUse(k, p) /\ Unprivileged(k, p)
      BY <1>5 DEF Nudged, Alert, Doomed, InUse, Unprivileged
    <2>2. k.proc[p].signals # {} /\ k.proc[p].signals \subseteq Known
      <3>1. k.proc[p] \in ProcessOK
        BY NearSelf, StateFacts, StateAfter, Sets
      <3> QED
        BY <2>1, <3>1, ProcessFacts DEF Doomed, SignalSet
    <2>3. k \in Pending(k, p, 0)
      <3>1. PICK s \in k.proc[p].signals : s \in Fatal
        BY <2>1 DEF Doomed
      <3>2. PICK i \in 1 .. Len(q) : q[i] = s
        BY <1>2, <2>2, <3>1
      <3>3. i \in 0 + 1 .. Len(SignalOrder) /\ SignalOrder[i] \in k.proc[p].signals \cap Fatal
        BY <3>1, <3>2
      <3>4. \A t \in Users \ {p} : Attends(k.proc[t], k.proc[t], FALSE)
        BY AttendsSelf
      <3> QED
        BY <2>1, <3>3, <3>4 DEF Pending
    <2>4. k \in P[0]
      BY <1>2, <2>3
    <2>5. k \in Near(k) /\ \A kk \in Near(k), s \in Known : Deliver(kk, p, s) \in Near(k)
      BY NearSelf, DeliverType
    <2>6. ASSUME NEW n \in 1 .. Len(q), NEW kk \in Near(k) \cap P[n - 1]
          PROVE  Deliver(kk, p, q[n]) \in P[n]
      <3> DEFINE m == n - 1
      <3>1. /\ m \in 0 .. Len(q) /\ n \in 0 .. Len(q) /\ q[n] \in Known
            /\ m \in Nat /\ m + 1 = n /\ m + 1 \in 1 .. Len(SignalOrder)
        BY <1>2
      <3>2. kk \in Pending(k, p, m) \/ kk \in Finished(k, p)
        BY <3>1
      <3>3. P[n] = Pending(k, p, n) \cup Finished(k, p)
        BY <3>1
      <3> HIDE DEF P, m
      <3>4. CASE kk \in Finished(k, p)
        BY <3>1, <3>3, <3>4, DeliverFinished
      <3>5. CASE kk \in Pending(k, p, m) /\ q[n] \in Fatal /\ q[n] \in kk.proc[p].signals
        <4>1. Deliver(kk, p, q[n]) \in Announced(k) /\ Over(Deliver(kk, p, q[n]), p)
          BY <2>1, <3>1, <3>5, PendingFatal
        <4>2. kk \in KState /\ Calm(kk, {})
          BY <3>5 DEF Pending
        <4>3. Deliver(kk, p, q[n]) \in Signalled(kk)
          BY <3>1, <4>2, DeliverSignalled
        <4>4. Calm(Deliver(kk, p, q[n]), {})
          BY <4>3, SignalledFacts
        <4> QED
          BY <3>3, <4>1, <4>4 DEF Finished
      <3>6. CASE kk \in Pending(k, p, m) /\ (q[n] \notin Fatal \/ q[n] \notin kk.proc[p].signals)
        <4>1. q[n] = SignalOrder[m + 1]
          BY <3>1
        <4>2. Deliver(kk, p, q[n]) \in Pending(k, p, m + 1)
          BY <3>1, <3>6, <4>1, PendingHarmless
        <4> QED
          BY <3>1, <3>3, <4>2
      <3> QED
        BY <3>2, <3>4, <3>5, <3>6
    <2> HIDE DEF P
    <2>7. d \in P[Len(q)]
      BY <1>2, <2>4, <2>5, <2>6, DeliverReaches
    <2>8. d \in Finished(k, p)
      <3>1. d \in Pending(k, p, Len(q)) \cup Finished(k, p)
        BY <1>2, <2>7 DEF P
      <3>2. Len(q) + 1 .. Len(q) = {}
        BY <1>2
      <3>3. Pending(k, p, Len(q)) = {}
        BY <3>2 DEF Pending
      <3> QED
        BY <3>1, <3>3
    <2> QED
      BY <1>1, <2>2, <2>8 DEF Finished, Announced, Heard
  <1> QED
    BY <1>4, <1>5


-----------------------------------------------------------------------------
(***************************************************************************)
(* The invariant.  PIDs are not given out twice, and Answered(k): nobody   *)
(* sleeps in wait although there is an answer.                             *)
(***************************************************************************)
Numbered(k) ==
  /\ k.pidNum >= 2
  /\ \A q \in Users : InUse(k, q) => k.proc[q].pid < k.pidNum /\ (q # 1 => k.proc[q].pid >= 2)
  /\ \A q, t \in Users : InUse(k, q) /\ InUse(k, t) /\ k.proc[q].pid = k.proc[t].pid => q = t

Answer(a, b) ==
  \/ b.state = "KILLED" /\ b.ppid = a.pid /\ a.call.arg \in {-1, b.pid}
  \/ b.state = "STOPPED" /\ b.pid = a.wpid /\ "WUNTRACED" \in a.call.opts

Answered(k) == \A p, c \in Users : Napping(k.proc[p]) => ~ Answer(k.proc[p], k.proc[c])

Wakeful == {k \in KState : /\ \A q \in Users : Alert(k.proc[q])
                           /\ Numbered(k) /\ Answered(k)}

LEMMA WakefulFacts ==
  ASSUME NEW k \in Wakeful
  PROVE  /\ k \in KState /\ Rooted(k) /\ Numbered(k) /\ Answered(k)
         /\ \A q \in Users : Alert(k.proc[q])
         /\ \A loud : k \in Watch(k, loud)
         /\ k \in Heard(k)
  <1>1. k \in KState /\ Numbered(k) /\ Answered(k) /\ \A q \in Users : Alert(k.proc[q])
    BY DEF Wakeful
  <1>2. Rooted(k)
    <2>1. \A q \in Users \ {1} : InUse(k, q) => k.proc[q].pid >= 2
      BY <1>1 DEF Numbered
    <2> QED
      BY <2>1 DEF Rooted
  <1>3. \A loud : k \in Watch(k, loud)
    BY <1>1, WatchSelf
  <1> QED
    BY <1>1, <1>2, <1>3 DEF Heard

\* Nothing that is only heard of breaks the invariant.
LEMMA HeardWakeful ==
  ASSUME NEW k0 \in Wakeful, NEW k \in Heard(k0)
  PROVE  k \in Wakeful
  <1>1. k \in KState /\ k \in Watch(k0, TRUE)
    BY HeardFacts
  <1>2. \A q \in Users : Alert(k.proc[q])
    <2>1. \A q \in Users : Alert(k0.proc[q])
      BY WakefulFacts
    <2>2. \A q \in Users : Alert(k0.proc[q]) => Alert(k.proc[q])
      BY <1>1, WatchFacts
    <2> QED
      BY <2>1, <2>2
  <1>3. Numbered(k)
    <2>1. k.pidNum = k0.pidNum /\ \A q \in Users : /\ k.proc[q].pid = k0.proc[q].pid
                                                   /\ InUse(k, q) <=> InUse(k0, q)
      <3>1. k.pidNum = k0.pidNum
        BY <1>1, WatchFacts
      <3>2. ASSUME NEW q \in Users
            PROVE  /\ k.proc[q].pid = k0.proc[q].pid
                   /\ k.proc[q].state = "UNUSED" <=> k0.proc[q].state = "UNUSED"
        BY <1>1, WatchFacts
      <3> QED
        BY <3>1, <3>2 DEF InUse
    <2>2. Numbered(k0)
      BY WakefulFacts
    <2> QED
      BY <2>1, <2>2 DEF Numbered
  <1>4. Answered(k)
    <2>1. CASE Roused(k)
      BY <2>1 DEF Answered, Roused
    <2>2. CASE k \in Watch(k0, FALSE)
      <3> SUFFICES ASSUME NEW p \in Users, NEW c \in Users, Napping(k.proc[p])
                   PROVE  ~ Answer(k.proc[p], k.proc[c])
        BY DEF Answered
      <3>1. Attends(k0.proc[p], k.proc[p], FALSE) /\ Attends(k0.proc[c], k.proc[c], FALSE)
        BY <2>2 DEF Watch
      <3>2. Napping(k0.proc[p]) /\ ~ Answer(k0.proc[p], k0.proc[c])
        BY <3>1, WakefulFacts DEF Attends, Answered
      <3> QED
        BY <3>1, <3>2 DEF Attends, Peaceful, Answer
    <2> QED
      BY <2>1, <2>2 DEF Heard
  <1> QED
    BY <1>1, <1>2, <1>3, <1>4 DEF Wakeful

LEMMA WatchWakeful ==
  ASSUME NEW k0 \in Wakeful, NEW k \in Watch(k0, FALSE)
  PROVE  k \in Wakeful
  BY HeardWakeful DEF Heard

-----------------------------------------------------------------------------
(***************************************************************************)
(* The scheduler, and the system calls other than wait, which are quiet.   *)
(***************************************************************************)
\* A process gets or gives up the CPU, for another reason than wait.
LEMMA WatchState ==
  ASSUME NEW k0, NEW loud, NEW k \in Watch(k0, loud), NEW p \in Slots, p = Idle \/ InUse(k, p),
         NEW v \in {"RUNNING", "READY", "SLEEP"}
  PROVE  /\ k.proc[p].event # STATE_CHANGE \/ p = Idle =>
               [k EXCEPT !.proc[p].state = v] \in Watch(k0, loud)
         /\ \A e \in NONE .. MaxPid : e # STATE_CHANGE =>
               [k EXCEPT !.proc[p].state = v, !.proc[p].event = e] \in Watch(k0, loud)
  <1> DEFINE o == k.proc[p]
  <1>1. /\ o \in ProcessOK /\ (p = Idle => o.proxied = <<>>) /\ (p \in Users => p # Idle)
        /\ k \in KRecord
    BY WatchFacts, StateFacts, Sets
  <1>2. v \in States
    BY DEF States
  <1>3. ASSUME k.proc[p].event # STATE_CHANGE \/ p = Idle
        PROVE  [k EXCEPT !.proc[p].state = v] \in Watch(k0, loud)
    <2> DEFINE r == [o EXCEPT !.state = v]
    <2>1. r \in ProcessOK /\ (p = Idle => r.proxied = <<>>)
      BY <1>1, <1>2, FieldFacts, FieldKept
    <2>2. p \in Users => Attends(o, r, loud)
      BY <1>1, <1>3 DEF Attends, Peaceful, Alert, Napping, InUse, ProcessOK
    <2> HIDE DEF r
    <2>3. [k EXCEPT !.proc[p] = r] \in Watch(k0, loud)
      BY <2>1, <2>2, WatchProcess
    <2> QED
      BY <2>3 DEF r
  <1>4. ASSUME NEW e \in NONE .. MaxPid, e # STATE_CHANGE
        PROVE  [k EXCEPT !.proc[p].state = v, !.proc[p].event = e] \in Watch(k0, loud)
    <2> DEFINE r1 == [o EXCEPT !.state = v]
               r  == [r1 EXCEPT !.event = e]
    <2>1. r1 \in ProcessOK /\ (p = Idle => r1.proxied = <<>>)
      BY <1>1, <1>2, FieldFacts, FieldKept
    <2>2. /\ r1.pid = o.pid /\ r1.state = v /\ r1.handlers = o.handlers
          /\ r1.ppid = o.ppid /\ r1.wpid = o.wpid
      BY <1>1 DEF ProcessOK
    <2> HIDE DEF r1
    <2>3. r \in ProcessOK /\ (p = Idle => r.proxied = <<>>)
      BY <2>1, FieldFacts, FieldKept
    <2>4. /\ r.pid = o.pid /\ r.state = v /\ r.event = e /\ r.handlers = o.handlers
      BY <2>1, <2>2 DEF ProcessOK
    <2> HIDE DEF r
    <2>5. p \in Users => Attends(o, r, loud)
      BY <1>1, <1>4, <2>4 DEF Attends, Peaceful, Alert, Napping, InUse
    <2>6. [k EXCEPT !.proc[p] = r] \in Watch(k0, loud)
      BY <2>3, <2>5, WatchProcess
    <2>7. [k EXCEPT !.proc[p] = r] = [k EXCEPT !.proc[p].state = v, !.proc[p].event = e]
      BY <1>1 DEF r, r1, KRecord
    <2> QED
      BY <2>6, <2>7
  <1> QED
    BY <1>3, <1>4

LEMMA WatchSchedule ==
  ASSUME NEW k0, NEW loud, NEW k \in Watch(k0, loud)
  PROVE  Schedule(k) \in Watch(k0, loud)
  <1>1. {"choose", "scan"} \subseteq Mode \ {"kernel"}
    BY DEF Mode
  <1> QED
    BY <1>1, WatchMode DEF Schedule

LEMMA WatchSleep ==
  ASSUME NEW k0, NEW loud, NEW k \in Watch(k0, loud), k.curr \in Users, InUse(k, k.curr),
         NEW ev \in NONE .. MaxPid, ev # STATE_CHANGE
  PROVE  Sleep(k, ev) \in Watch(k0, loud)
  <1> DEFINE c  == k.curr
             k1 == [k EXCEPT !.proc[c].state = "SLEEP", !.proc[c].event = ev]
             k2 == [k1 EXCEPT !.waiting = PushBack(k1.waiting, c)]
  <1>1. k \in KRecord /\ c \in Slots /\ c \in Users
    BY WatchFacts, Sets
  <1>2. k1 \in Watch(k0, loud)
    BY <1>1, WatchState
  <1>3. Sleep(k, ev) = Schedule(k2)
    BY <1>1 DEF Sleep, KRecord
  <1> HIDE DEF k1, c
  <1>4. k2 \in Watch(k0, loud)
    <2>1. PushBack(k1.waiting, c) \in Queue(Users)
      BY <1>1, <1>2, WatchFacts, PushBackFacts DEF KRecord
    <2> QED
      BY <1>2, <2>1, WatchQueue
  <1> HIDE DEF k2
  <1> QED
    BY <1>3, <1>4, WatchSchedule

LEMMA WatchPreempt ==
  ASSUME NEW k0, NEW loud, NEW k \in Watch(k0, loud),
         k.curr = Idle \/ (k.curr \in Users /\ InUse(k, k.curr)
                                           /\ k.proc[k.curr].event # STATE_CHANGE)
  PROVE  Preempt(k) \in Watch(k0, loud)
  <1> DEFINE c  == k.curr
             k1 == [k EXCEPT !.proc[c].state = "READY"]
             q  == IF c = Idle THEN k1.ready ELSE PushBack(k1.ready, c)
             k2 == [k1 EXCEPT !.ready = q]
  <1>1. k \in KRecord /\ c \in Slots
    BY WatchFacts, Sets
  <1>2. k1 \in Watch(k0, loud)
    BY <1>1, WatchState
  <1>3. Preempt(k) = IF k.ready = <<>> THEN k ELSE Schedule(k2)
    BY <1>1 DEF Preempt, KRecord
  <1>4. c = Idle \/ c \in Users
    OBVIOUS
  <1> HIDE DEF k1, c
  <1>5. k2 \in Watch(k0, loud)
    <2>1. k1.ready \in Queue(Users)
      BY <1>2, WatchFacts DEF KRecord
    <2>2. q \in Queue(Users)
      BY <1>4, <2>1, PushBackFacts
    <2> HIDE DEF q
    <2> QED
      BY <1>2, <2>2, WatchQueue
  <1> HIDE DEF k2
  <1> QED
    BY <1>3, <1>5, WatchSchedule


LEMMA WatchEnter ==
  ASSUME NEW k0, NEW loud, NEW k \in Watch(k0, loud), k.curr = Idle \/ ~ Napping(k.proc[k.curr]),
         NEW call \in CallOK
  PROVE  Enter(k, call) \in Watch(k0, loud)
  <1> DEFINE c  == k.curr
             k1 == [k EXCEPT !.proc[c].call = call]
  <1>1. k \in KRecord /\ c \in Slots
    BY WatchFacts DEF KRecord
  <1>2. Enter(k, call) = [k1 EXCEPT !.proc[c].inKernel = TRUE]
    BY <1>1 DEF Enter, KRecord
  <1>3. k1 \in Watch(k0, loud)
    BY <1>1, WatchField
  <1> HIDE DEF k1, c
  <1>4. \A b \in BOOLEAN : [k1 EXCEPT !.proc[c].inKernel = b] \in Watch(k0, loud)
    BY <1>1, <1>3, WatchField
  <1> QED
    BY <1>2, <1>4

LEMMA WatchLeave ==
  ASSUME NEW k0, NEW loud, NEW k \in Watch(k0, loud), k.curr = Idle \/ ~ Napping(k.proc[k.curr])
  PROVE  Leave(k) \in Watch(k0, loud)
  <1> DEFINE c  == k.curr
             k1 == [k EXCEPT !.proc[c].inKernel = FALSE]
             k2 == [k1 EXCEPT !.mode = "user"]
             v  == IF "signal" \in Calls THEN k2.proc[c].call ELSE NoCall
  <1>1. k \in KRecord /\ c \in Slots
    BY WatchFacts DEF KRecord
  <1>2. Leave(k) = [k2 EXCEPT !.proc[c].call = v]
    BY <1>1 DEF Leave, KRecord
  <1>3. k1 \in Watch(k0, loud)
    <2>1. \A b \in BOOLEAN : [k EXCEPT !.proc[c].inKernel = b] \in Watch(k0, loud)
      BY <1>1, WatchField
    <2> QED
      BY <2>1
  <1>4. c = Idle \/ ~ Napping(k2.proc[c])
    <2>1. k.proc[c] \in ProcessOK
      BY <1>1, StateAfter
    <2>2. k2.proc[c] = [k.proc[c] EXCEPT !.inKernel = FALSE]
      BY <1>1 DEF KRecord
    <2> QED
      BY <2>1, <2>2 DEF Napping, ProcessOK
  <1> HIDE DEF k1, c
  <1>5. k2 \in Watch(k0, loud)
    BY <1>3, WatchMode DEF Mode
  <1> HIDE DEF k2
  <1>6. v \in CallOK
    <2>1. k2.proc[c] \in ProcessOK
      BY <1>1, <1>5, WatchFacts, StateAfter
    <2> QED
      BY <2>1, ProcessFacts, BlankType
  <1> HIDE DEF v
  <1>7. \A w \in CallOK : [k2 EXCEPT !.proc[c].call = w] \in Watch(k0, loud)
    BY <1>1, <1>4, <1>5, WatchField
  <1> QED
    BY <1>2, <1>6, <1>7

LEMMA WatchSleepLoop ==
  ASSUME NEW k0, NEW loud, NEW k \in Watch(k0, loud), k.curr \in Users, InUse(k, k.curr),
         ~ Napping(k.proc[k.curr])
  PROVE  SleepLoop(k) \in Watch(k0, loud)
  <1>1. SLEEP_SYSCALL \in NONE .. MaxPid /\ SLEEP_SYSCALL # STATE_CHANGE
    BY EventFacts DEF SLEEP_SYSCALL, STATE_CHANGE
  <1> QED
    BY <1>1, WatchSleep, WatchLeave DEF SleepLoop

LEMMA WatchDispatch ==
  ASSUME NEW k0, NEW loud, NEW k \in Watch(k0, loud), NEW p \in Users, k.ready # <<>>, InUse(k, p),
         k.proc[p].event # STATE_CHANGE
  PROVE  Dispatch(k, p) \in Watch(k0, loud)
  <1> DEFINE k1 == [k EXCEPT !.proc[p].state = "RUNNING"]
             d  == Dispatch(k, p)
  <1>1. k \in KRecord /\ k \in Near(k) /\ p \in Slots
    BY WatchFacts, Sets
  <1>2. k1 \in Watch(k0, loud)
    BY <1>1, WatchState
  <1>3. d \in KState
    BY <1>1, DispatchType
  <1>4. d.proc = k1.proc /\ d.pidNum = k1.pidNum
    BY <1>1 DEF Dispatch, KRecord
  <1> HIDE DEF d, k1
  <1>5. d \in Watch(k0, loud)
    BY <1>2, <1>3, <1>4, WatchSame
  <1> QED
    BY <1>5 DEF d

LEMMA WatchBackground ==
  ASSUME NEW k0, NEW loud, NEW k \in Watch(k0, loud), NEW p \in Users
  PROVE  Background(k, p) \in Watch(k0, loud)
  <1> DEFINE parent == LookupLive(k, k.proc[p].ppid)
             y      == Yield(k, p)
             d      == [y EXCEPT !.proc[p].daemon = TRUE]
             r      == [d EXCEPT !.proc[parent].jobs = d.proc[parent].jobs + 1]
  <1>1. Background(k, p) = IF parent = NULL THEN d
                           ELSE [r EXCEPT !.proc[p].job = k.proc[parent].jobs + 1]
    BY DEF Background
  <1>2. k \in KRecord /\ p \in Slots /\ parent \in Users \cup {NULL}
    BY WatchFacts, LookupLiveFacts, Sets
  <1> HIDE DEF parent
  <1>3. y \in Watch(k0, loud)
    BY WatchHandOver
  <1> HIDE DEF y
  <1>4. \A v \in BOOLEAN : [y EXCEPT !.proc[p].daemon = v] \in Watch(k0, loud)
    BY <1>2, <1>3, WatchField
  <1>5. d \in Watch(k0, loud)
    BY <1>4
  <1> HIDE DEF d
  <1>6. ASSUME parent # NULL
        PROVE  [r EXCEPT !.proc[p].job = k.proc[parent].jobs + 1] \in Watch(k0, loud)
    <2>1. parent \in Slots
      BY <1>2, <1>6, Sets
    <2>2. d.proc[parent].jobs \in Nat /\ k.proc[parent].jobs \in Nat
      <3>1. d.proc[parent] \in ProcessOK /\ k.proc[parent] \in ProcessOK
        BY <1>2, <1>5, <2>1, WatchFacts, StateAfter
      <3> QED
        BY <3>1, ProcessFacts
    <2>3. \A v \in Nat : [d EXCEPT !.proc[parent].jobs = v] \in Watch(k0, loud)
      BY <1>5, <2>1, WatchField
    <2>4. r \in Watch(k0, loud)
      BY <2>2, <2>3
    <2> HIDE DEF r
    <2>5. \A v \in Nat : [r EXCEPT !.proc[p].job = v] \in Watch(k0, loud)
      BY <1>2, <2>4, WatchField
    <2>6. k.proc[parent].jobs + 1 \in Nat
      BY <2>2
    <2> QED
      BY <2>5, <2>6
  <1> QED
    BY <1>1, <1>5, <1>6

LEMMA WatchInitHandlers ==
  ASSUME NEW k0, NEW loud, NEW k \in Watch(k0, loud), NEW p \in Users, k.proc[p].state = "RUNNING"
  PROVE  [InitHandlers(k, p) EXCEPT !.proc[p].proxied = <<>>] \in Watch(k0, loud)
  <1> DEFINE o  == k.proc[p]
             r1 == [o EXCEPT !.signals = {}]
             r2 == [r1 EXCEPT !.handlers = DefHandlers]
             r  == [r2 EXCEPT !.proxied = <<>>]
  <1>1. k \in KRecord /\ p \in Slots /\ p # Idle /\ o \in ProcessOK
    BY WatchFacts, Sets, StateAfter
  <1>2. {} \in SignalSet /\ DefHandlers \in [Known -> {"NULL", "DEFAULT", "USER"}] /\ <<>> \in Seq(CallOK)
    BY BlankType DEF SignalSet
  <1>3. [InitHandlers(k, p) EXCEPT !.proc[p].proxied = <<>>] = [k EXCEPT !.proc[p] = r]
    BY <1>1 DEF InitHandlers, KRecord
  <1>4. r1 \in ProcessOK
    BY <1>1, <1>2, FieldFacts
  <1>5. /\ r.pid = o.pid /\ r.state = "RUNNING" /\ r.event = o.event /\ r.handlers = DefHandlers
    BY <1>1 DEF ProcessOK
  <1> HIDE DEF r1
  <1>6. r2 \in ProcessOK
    BY <1>2, <1>4, FieldFacts
  <1> HIDE DEF r2
  <1>7. r \in ProcessOK
    BY <1>2, <1>6, FieldFacts
  <1> HIDE DEF r
  <1>8. Attends(o, r, loud)
    BY <1>5 DEF Attends, Alert, Napping, Peaceful
  <1>9. [k EXCEPT !.proc[p] = r] \in Watch(k0, loud)
    BY <1>1, <1>7, <1>8, WatchProcess
  <1> QED
    BY <1>3, <1>9

\* A job that does not sleep is brought to the foreground.
LEMMA WatchMoveToFore ==
  ASSUME NEW k0, NEW loud, NEW k \in Watch(k0, loud), NEW p \in Users,
         k.proc[p].state \in {"READY", "STOPPED"}
  PROVE  MoveToFore(k, p) \in Watch(k0, loud)
  <1> DEFINE o  == k.proc[p]
             e  == IF o.event = DAEMON_INPUT THEN KEYBOARD_INPUT ELSE o.event
             r1 == [o EXCEPT !.event = e]
             r  == [r1 EXCEPT !.daemon = FALSE]
             q  == IF Contains(k.ready, p) THEN k.ready ELSE PushBack(k.ready, p)
             k1 == [k EXCEPT !.proc[p] = r]
             k2 == [k1 EXCEPT !.fg = p]
             k3 == [k2 EXCEPT !.ready = q]
  <1>1. k \in KRecord /\ p \in Slots /\ p # Idle /\ o \in ProcessOK /\ k.ready \in Queue(Users)
    BY WatchFacts, Sets, StateAfter DEF KRecord
  <1>2. MoveToFore(k, p) = IF o.state = "STOPPED" THEN [k EXCEPT !.proc[p].daemon = FALSE] ELSE k3
    <2>1. [[k EXCEPT !.proc[p].event = e] EXCEPT !.proc[p].daemon = FALSE] = [k EXCEPT !.proc[p] = r]
      BY <1>1 DEF KRecord
    <2> HIDE DEF r1, r
    <2> DEFINE i == [k EXCEPT !.proc[p].event = e]
    <2>2. [i EXCEPT !.proc[p].daemon = FALSE] = k1 /\ i.ready = k.ready
      BY <1>1, <2>1 DEF KRecord
    <2>3. MoveToFore(k, p) =
             IF o.state = "STOPPED" THEN [k EXCEPT !.proc[p].daemon = FALSE]
             ELSE [i EXCEPT !.proc[p].daemon = FALSE, !.fg = p,
                            !.ready = IF Contains(@, p) THEN @ ELSE PushBack(@, p)]
      <3>1. o.state # "SLEEP"
        OBVIOUS
      <3> QED
        BY <3>1 DEF MoveToFore
    <2>4. [i EXCEPT !.proc[p].daemon = FALSE, !.fg = p,
                    !.ready = IF Contains(@, p) THEN @ ELSE PushBack(@, p)] = k3
      <3> HIDE DEF i
      <3> QED
        BY <2>2
    <2> HIDE DEF k3, i, o
    <2> QED
      BY <2>3, <2>4
  <1>3. \A b \in BOOLEAN : [k EXCEPT !.proc[p].daemon = b] \in Watch(k0, loud)
    BY <1>1, WatchField
  <1>4. e \in NONE .. MaxPid /\ (e = STATE_CHANGE <=> o.event = STATE_CHANGE)
    BY <1>1, ProcessFacts, EventFacts DEF DAEMON_INPUT, KEYBOARD_INPUT, STATE_CHANGE
  <1>5. q \in Queue(Users)
    BY <1>1, PushBackFacts
  <1> HIDE DEF e, q
  <1>6. r1 \in ProcessOK
    BY <1>1, <1>4, FieldFacts
  <1>7. /\ r.pid = o.pid /\ r.state = o.state /\ r.event = e /\ r.handlers = o.handlers
        /\ r.signals = o.signals /\ r.ppid = o.ppid
    BY <1>1 DEF ProcessOK
  <1> HIDE DEF r1
  <1>8. r \in ProcessOK
    BY <1>6, FieldFacts
  <1> HIDE DEF r
  <1>9. Attends(o, r, loud)
    BY <1>4, <1>7 DEF Attends, Alert, Napping, Peaceful, Doomed
  <1>10. k1 \in Watch(k0, loud)
    BY <1>1, <1>8, <1>9, WatchProcess
  <1> HIDE DEF k1
  <1>11. k2 \in Watch(k0, loud)
    BY <1>10, WatchForeground
  <1> HIDE DEF k2
  <1>12. k3 \in Watch(k0, loud)
    BY <1>5, <1>11, WatchQueue
  <1> QED
    BY <1>2, <1>3, <1>12

LEMMA WatchMoveToBack ==
  ASSUME NEW k0, NEW loud, NEW k \in Watch(k0, loud), NEW p \in Users
  PROVE  MoveToBack(k, p) \in Watch(k0, loud)
  <1> DEFINE o  == k.proc[p]
             e  == IF o.event \in {KEYBOARD_INPUT, FG_PAUSED} THEN DAEMON_INPUT ELSE o.event
             r1 == [o EXCEPT !.daemon = TRUE]
             r  == [r1 EXCEPT !.event = e]
             k1 == [k EXCEPT !.proc[p] = r]
  <1>1. k \in KRecord /\ p \in Slots /\ p # Idle /\ o \in ProcessOK
    BY WatchFacts, Sets, StateAfter
  <1>2. MoveToBack(k, p) = IF o.state # "STOPPED" THEN k ELSE k1
    BY <1>1 DEF MoveToBack, KRecord
  <1> SUFFICES ASSUME o.state = "STOPPED" PROVE k1 \in Watch(k0, loud)
    BY <1>2
  <1>3. e \in NONE .. MaxPid
    BY <1>1, ProcessFacts, EventFacts
  <1> HIDE DEF e
  <1>4. r1 \in ProcessOK
    BY <1>1, FieldFacts
  <1>5. /\ r.pid = o.pid /\ r.state = "STOPPED" /\ r.event = e /\ r.handlers = o.handlers
        /\ r.ppid = o.ppid
    BY <1>1 DEF ProcessOK
  <1> HIDE DEF r1
  <1>6. r \in ProcessOK
    BY <1>3, <1>4, FieldFacts
  <1> HIDE DEF r
  <1>7. Attends(o, r, loud)
    BY <1>5 DEF Attends, Alert, Napping, Peaceful
  <1> QED
    BY <1>1, <1>6, <1>7, WatchProcess


-----------------------------------------------------------------------------
(***************************************************************************)
(* The steps.  Most of them are only heard of.                             *)
(***************************************************************************)
LEMMA BecomeHeard ==
  ASSUME NEW k \in Heard(Now), Become(k)
  PROVE  Now' \in Heard(Now)
  BY HeardFacts, BecomeFacts

LEMMA ScanSuspendedHeard ==
  ASSUME SIGCONT \notin Known, Now \in Orderly, Now \in Wakeful, ScanSuspended
  PROVE  Now' \in Heard(Now)
  <1> DEFINE k == FoldLeft(CheckPendingSignals, Now, suspended)
             r == [k EXCEPT !.mode = "choose"]
             K == {kk \in Heard(Now) : Calm(kk, {})}
  <1>1. Become(r) /\ suspended \in Seq(Users)
    BY OrderlyNow, NowFacts, StateFacts DEF ScanSuspended, Queue
  <1>2. Now \in K
    BY OrderlyFacts, WakefulFacts
  <1>3. \A kk \in K, p \in Users : CheckPendingSignals(kk, p) \in K
    <2> SUFFICES ASSUME NEW kk \in K, NEW p \in Users
                 PROVE  CheckPendingSignals(kk, p) \in K
      OBVIOUS
    <2>1. kk \in Heard(Now) /\ kk \in KState /\ Calm(kk, {}) /\ kk \in Watch(Now, TRUE)
      BY HeardFacts
    <2>2. Rooted(kk) /\ Alert(kk.proc[p])
      BY <2>1, WatchRooted, WatchFacts, WakefulFacts
    <2>3. CheckPendingSignals(kk, p) \in Heard(kk)
      BY <2>1, <2>2, CheckPendingHeard
    <2>4. Calm(CheckPendingSignals(kk, p), {})
      BY <2>1, CheckPendingSignalled, SignalledFacts
    <2> QED
      BY <2>1, <2>3, <2>4, HeardTrans
  <1> HIDE DEF K
  <1>4. k \in K
    BY <1>1, <1>2, <1>3, ScanLoop
  <1> HIDE DEF k
  <1>5. k \in Heard(Now)
    BY <1>4 DEF K
  <1>6. r \in Watch(k, FALSE)
    <2>1. k \in Watch(k, FALSE)
      BY <1>5, HeardFacts, WatchSelf
    <2> QED
      BY <2>1, WatchMode DEF Mode
  <1>7. r \in Heard(Now)
    BY <1>5, <1>6, HeardQuiet
  <1> HIDE DEF r
  <1> QED
    BY <1>1, <1>7, BecomeHeard

LEMMA ConsiderHeadHeard ==
  ASSUME SIGCONT \notin Known, Now \in Orderly, Now \in Wakeful, ConsiderHead
  PROVE  Now' \in Heard(Now)
  <1> DEFINE p == Head(ready)
             k == CheckPendingSignals(Now, p)
  <1>1. /\ mode = "choose" /\ ready # <<>>
        /\ Become(IF k.ready # <<>> /\ Head(k.ready) = p THEN Dispatch(k, p) ELSE k)
    BY DEF ConsiderHead
  <1>2. p \in Users /\ Contains(ready, p)
    <2>1. ready \in Queue(Users)
      BY OrderlyNow, NowFacts, StateFacts
    <2> QED
      BY <1>1, <2>1, OrderlyNow, TailFacts
  <1>3. Now \in KState /\ Calm(Now, {}) /\ Rooted(Now) /\ Alert(Now.proc[p])
    BY <1>2, OrderlyFacts, WakefulFacts
  <1>4. Now.proc[p].state = "READY"
    BY <1>2, <1>3, OrderlyNow DEF Calm, Listed
  <1> HIDE DEF p
  <1>5. k \in Signalled(Now) /\ (Over(k, p) \/ k.proc[p].signals = {})
    BY <1>2, <1>3, <1>4, CheckPendingSignalled
  <1>6. k \in Heard(Now)
    BY <1>2, <1>3, CheckPendingHeard
  <1> HIDE DEF k
  <1>7. CASE k.ready # <<>> /\ Head(k.ready) = p
    <2>1. k \in KState /\ Calm(k, {}) /\ k.ready \in Queue(Users)
      BY <1>5, SignalledFacts DEF KRecord
    <2>2. k.proc[p].state = "READY"
      <3>1. Contains(k.ready, p)
        BY <1>7, <2>1, TailFacts
      <3> QED
        BY <1>2, <2>1, <3>1 DEF Calm, Listed
    <2>3. k.proc[p].signals = {} /\ InUse(k, p)
      BY <1>5, <2>2 DEF Over, InUse
    <2>4. Alert(k.proc[p])
      BY <1>2, <1>3, <1>6, HeardFacts, WatchFacts
    <2>5. k.proc[p].event # STATE_CHANGE
      BY <2>2, <2>3, <2>4 DEF Alert, Doomed
    <2>6. k \in Watch(k, FALSE)
      BY <2>1, WatchSelf
    <2>7. Dispatch(k, p) \in Watch(k, FALSE)
      BY <1>2, <1>7, <2>3, <2>5, <2>6, WatchDispatch
    <2>8. Dispatch(k, p) \in Heard(Now)
      BY <1>6, <2>7, HeardQuiet
    <2> QED
      BY <1>1, <1>7, <2>8, BecomeHeard
  <1>8. CASE ~ (k.ready # <<>> /\ Head(k.ready) = p)
    BY <1>1, <1>6, <1>8, BecomeHeard
  <1> QED
    BY <1>7, <1>8

LEMMA RunIdleHeard ==
  ASSUME Now \in Wakeful, RunIdle
  PROVE  Now' \in Heard(Now)
  <1> DEFINE r == [Now EXCEPT !.proc[Idle].state = "RUNNING"]
             m == IF waiting = <<>> /\ SIGTERM \in proc[Idle].signals THEN "halt" ELSE "user"
             k == [r EXCEPT !.curr = Idle, !.mode = m]
  <1>1. Become(k)
    <2>1. k = [Now EXCEPT !.curr = Idle, !.proc[Idle].state = "RUNNING", !.mode = m]
      BY IdleTakes
    <2> QED
      BY <2>1 DEF RunIdle
  <1>2. r \in Watch(Now, FALSE)
    BY WakefulFacts, WatchState, Sets
  <1>3. r \in KState /\ r \in KRecord /\ m \in {"halt", "user"}
    BY <1>2, WatchFacts
  <1> HIDE DEF r, m
  <1>4. k \in KState /\ k.proc = r.proc /\ k.pidNum = r.pidNum
    BY <1>3, Sets DEF KState, KRecord, Mode
  <1> HIDE DEF k
  <1>5. k \in Heard(Now)
    BY <1>2, <1>4, WatchSame DEF Heard
  <1> QED
    BY <1>1, <1>5, BecomeHeard

LEMMA TickHeard ==
  ASSUME Now \in Orderly, Now \in Wakeful, Tick
  PROVE  Now' \in Heard(Now)
  <1> DEFINE t     == [p \in Slots |-> [proc[p] EXCEPT !.left = IF @ > 0 THEN @ - 1 ELSE 0]]
             later == [Now EXCEPT !.proc = t]
             woken == WakeUp(later, SLEEP_SYSCALL)
             X     == {}
  <1>1. Become(Preempt(woken)) /\ OutsideScheduler(Now)
    BY OrderlyNow DEF Tick
  <1>2. proc \in [Slots -> ProcessOK] /\ proc[Idle].proxied = <<>> /\ Now.proc = proc
    BY OrderlyNow, NowFacts, StateFacts
  <1>3. ASSUME NEW p \in Slots
        PROVE  LET r == [proc[p] EXCEPT !.left = IF @ > 0 THEN @ - 1 ELSE 0]
               IN  /\ r \in ProcessOK /\ r.proxied = proc[p].proxied /\ r.state = proc[p].state
                   /\ Attends(proc[p], r, FALSE)
    <2>1. proc[p] \in ProcessOK /\ proc[p].left \in 0 .. MaxSleep
      BY <1>2, ProcessFacts
    <2>2. (IF proc[p].left > 0 THEN proc[p].left - 1 ELSE 0) \in 0 .. MaxSleep
      BY <2>1, KernelAssumption
    <2> DEFINE v == IF proc[p].left > 0 THEN proc[p].left - 1 ELSE 0
               r == [proc[p] EXCEPT !.left = v]
    <2>3. r \in ProcessOK
      BY <2>1, <2>2, FieldFacts
    <2> HIDE DEF v
    <2>4. r.proxied = proc[p].proxied /\ r.state = proc[p].state
      BY <2>1, FieldKept, FieldSteady
    <2>5. Attends(proc[p], r, FALSE)
      BY <2>1, FieldAttends
    <2> QED
      BY <2>3, <2>4, <2>5 DEF v
  <1>4. /\ t \in [Slots -> ProcessOK] /\ t[Idle].proxied = <<>>
        /\ \A p \in Slots : t[p].state = Now.proc[p].state
        /\ \A p \in Users : Attends(Now.proc[p], t[p], FALSE)
    <2>1. t \in [Slots -> ProcessOK] /\ t[Idle].proxied = <<>>
      BY <1>2, <1>3, Sets
    <2>2. \A p \in Slots : t[p].state = proc[p].state /\ Attends(proc[p], t[p], FALSE)
      BY <1>3
    <2> HIDE DEF t
    <2> QED
      BY <1>2, <2>1, <2>2, Sets
  <1> HIDE DEF t
  <1>5. later \in Still(Now)
    BY <1>4, OrderlyFacts, QuietTable
  <1>6. later \in Watch(Now, FALSE)
    BY <1>4, WakefulFacts, WatchTable
  <1> HIDE DEF later
  <1>7. later \in Mild(Now, {}) /\ Calm(later, X)
    BY <1>5, StillAfter, MildFacts
  <1> HIDE DEF X
  <1>8. woken \in Watch(Now, FALSE)
    BY <1>6, <1>7, WatchWakeUp
  <1>9. woken \in Mild(Now, {})
    BY <1>7, WakeUpMild
  <1> HIDE DEF woken
  <1>10. woken \in Orderly /\ OutsideScheduler(woken)
    BY <1>1, <1>9, MildAfter DEF OutsideScheduler
  <1>11. \/ woken.curr = Idle
         \/ woken.curr \in Users /\ InUse(woken, woken.curr) /\ woken.proc[woken.curr].event # STATE_CHANGE
    <2>1. woken.curr \in Slots
      BY <1>10, OrderlyFacts, StateFacts
    <2>2. CASE woken.curr \in Users
      <3>1. woken.proc[woken.curr].state = "RUNNING"
        BY <1>10, <2>2, OrderlyFacts DEF OnCpu
      <3>2. Alert(woken.proc[woken.curr])
        BY <1>8, <2>2, WatchFacts, WakefulFacts
      <3> QED
        BY <2>2, <3>1, <3>2 DEF Alert, InUse
    <2> QED
      BY <2>1, <2>2, Sets DEF Idle
  <1>12. Preempt(woken) \in Heard(Now)
    BY <1>8, <1>11, WatchPreempt DEF Heard
  <1> QED
    BY <1>1, <1>12, BecomeHeard

\* Whoever makes a system call does not sleep.
LEMMA CallerAlert ==
  ASSUME NEW k \in Orderly, k \in Wakeful, OutsideScheduler(k), k.curr \in Users
  PROVE  /\ k.proc[k.curr].state = "RUNNING" /\ k.proc[k.curr].event # STATE_CHANGE
         /\ InUse(k, k.curr) /\ ~ Napping(k.proc[k.curr])
  <1>1. k.proc[k.curr].state = "RUNNING"
    BY OrderlyFacts DEF OnCpu
  <1>2. Alert(k.proc[k.curr])
    BY WakefulFacts
  <1> QED
    BY <1>1, <1>2 DEF Alert, InUse, Napping

\* The frame of a call that does not block.
LEMMA CalledQuiet ==
  ASSUME Now \in Orderly, Now \in Wakeful, mode = "user", curr # Idle
  PROVE  Called \in Still(Now) /\ Called \in Watch(Now, FALSE) /\ Called \in Wakeful
  <1>1. curr \in Users /\ curr \in Slots /\ Now.curr = curr /\ OutsideScheduler(Now)
    BY UserFacts, OrderlyNow, NowFacts, StateFacts, CallerFacts
  <1>2. ~ Napping(Now.proc[curr])
    BY <1>1, CallerAlert
  <1>3. Now \in Watch(Now, FALSE) /\ NoCall \in CallOK
    BY WakefulFacts, BlankType
  <1>4. \A v \in CallOK : [Now EXCEPT !.proc[curr].call = v] \in Watch(Now, FALSE)
    BY <1>1, <1>2, <1>3, WatchField
  <1>5. Called \in Watch(Now, FALSE)
    BY <1>3, <1>4 DEF Called
  <1> QED
    BY <1>5, CalledStill, WatchWakeful

LEMMA SysExitHeard ==
  ASSUME Now \in Orderly, Now \in Wakeful, SysExit
  PROVE  Now' \in Heard(Now)
  <1> DEFINE x == ExitProcess(Now, curr)
  <1>1. mode = "user" /\ curr # Idle /\ Become(Schedule(x))
    BY DEF SysExit, InUserCode
  <1>2. /\ curr \in Users /\ Now \in Transit(Now, curr, "RUNNING")
        /\ Now.proc[curr].state = "RUNNING"
    BY <1>1, CallerFacts
  <1>3. Now \in Watch(Now, TRUE) /\ Rooted(Now) /\ InUse(Now, curr)
    BY <1>2, WakefulFacts DEF InUse
  <1>4. x \in Announced(Now)
    BY <1>2, <1>3, ExitAnnounced
  <1> HIDE DEF x
  <1>5. x \in Heard(Now)
    BY <1>4 DEF Announced, Heard
  <1>6. Schedule(x) \in Watch(x, FALSE)
    BY <1>5, HeardFacts, WatchSelf, WatchSchedule
  <1>7. Schedule(x) \in Heard(Now)
    BY <1>5, <1>6, HeardQuiet
  <1> QED
    BY <1>1, <1>7, BecomeHeard

LEMMA SysExecHeard ==
  ASSUME Now \in Orderly, Now \in Wakeful, SysExec
  PROVE  Now' \in Heard(Now)
  <1>1. mode = "user" /\ curr # Idle /\ curr \in Users
    BY OrderlyNow, UserFacts DEF SysExec, InUserCode
  <1>2. PICK background \in BOOLEAN, readable \in BOOLEAN :
           LET named == IF background THEN Background(Called, curr) ELSE Called
           IN  Become(IF readable
                      THEN [InitHandlers(named, curr) EXCEPT !.proc[curr].proxied = <<>>]
                      ELSE Schedule(ExitProcess(named, curr)))
    BY DEF SysExec
  <1> DEFINE named == IF background THEN Background(Called, curr) ELSE Called
             x     == ExitProcess(named, curr)
  <1>3. \/ Become([InitHandlers(named, curr) EXCEPT !.proc[curr].proxied = <<>>])
        \/ Become(Schedule(x))
    BY <1>2
  <1>4. named \in Still(Now) /\ named \in Watch(Now, FALSE) /\ named \in Watch(Now, TRUE)
    <2>1. Called \in Still(Now) /\ Called \in Watch(Now, FALSE)
      BY <1>1, CalledQuiet
    <2>2. named \in Still(Now) /\ named \in Watch(Now, FALSE)
      BY <1>1, <2>1, BackgroundStill, WatchBackground
    <2> HIDE DEF named
    <2> QED
      BY <2>2, WatchLoud
  <1> HIDE DEF named
  <1>5. /\ Now \in Transit(Now, curr, "RUNNING") /\ Now.proc[curr].state = "RUNNING"
        /\ named \in Transit(Now, curr, "RUNNING") /\ named.proc[curr].state = "RUNNING"
    <2>1. Now \in Transit(Now, curr, "RUNNING") /\ Now.proc[curr].state = "RUNNING"
      BY <1>1, CallerFacts
    <2>2. named \in Transit(Now, curr, "RUNNING")
      BY <1>1, <1>4, <2>1, StillTransit
    <2>3. named.proc[curr].state = "RUNNING"
      BY <2>2 DEF Transit
    <2> QED
      BY <2>1, <2>2, <2>3
  <1>6. [InitHandlers(named, curr) EXCEPT !.proc[curr].proxied = <<>>] \in Heard(Now)
    BY <1>1, <1>4, <1>5, WatchInitHandlers DEF Heard
  <1>7. Schedule(x) \in Heard(Now)
    <2>1. Rooted(Now) /\ InUse(named, curr)
      BY <1>5, WakefulFacts DEF InUse
    <2>2. x \in Announced(Now)
      BY <1>1, <1>4, <1>5, <2>1, ExitAnnounced
    <2> HIDE DEF x
    <2>3. x \in Heard(Now)
      BY <2>2 DEF Announced, Heard
    <2>4. Schedule(x) \in Watch(x, FALSE)
      BY <2>3, HeardFacts, WatchSelf, WatchSchedule
    <2> QED
      BY <2>3, <2>4, HeardQuiet
  <1> HIDE DEF x
  <1> QED
    BY <1>3, <1>6, <1>7, BecomeHeard

LEMMA SysKillHeard ==
  ASSUME WakefulUse, Now \in Orderly, Now \in Wakeful, SysKill
  PROVE  Now' \in Heard(Now)
  <1>1. PICK s \in Sendable, target \in Targets \cup 2 .. pidNum - 1 :
           Become(Kill(Called, curr, target, s))
    BY DEF SysKill
  <1>2. s \in Known \cap Fatal
    <2>1. s \in Default \cup {SIGCHLD} /\ s # SIGCONT /\ s # SIGCHLD
      BY KernelAssumption DEF WakefulUse, OrderlyUse
    <2> QED
      BY <2>1 DEF Known, Default, Fatal
  <1>3. target \in Int /\ target # 1 /\ (target = -1 => s # SIGHUP)
    <2>1. CASE target \in Targets
      BY <2>1, KernelAssumption DEF WakefulUse, OrderlyUse
    <2>2. CASE target \in 2 .. pidNum - 1
      BY <2>2
    <2> QED
      BY <2>1, <2>2
  <1>4. Called \in Watch(Now, FALSE) /\ Rooted(Now)
    BY CalledQuiet, WakefulFacts DEF SysKill, InUserCode
  <1>5. Kill(Called, curr, target, s) \in Watch(Now, FALSE)
    BY <1>2, <1>3, <1>4, WatchKill
  <1>6. Kill(Called, curr, target, s) \in Heard(Now)
    BY <1>5 DEF Heard
  <1> QED
    BY <1>1, <1>6, BecomeHeard

LEMMA SysPctrlHeard ==
  ASSUME WakefulUse, Now \in Orderly, Now \in Wakeful, SysPctrl
  PROVE  Now' \in Heard(Now)
  <1>1. PICK p \in Users : \/ proc[p].state \in ForeStates /\ Become(MoveToFore(Called, p))
                           \/ Become(MoveToBack(Called, p))
    BY LookupJobFacts DEF SysPctrl
  <1>2. Called \in Watch(Now, FALSE)
    BY CalledQuiet DEF SysPctrl
  <1>3. CASE proc[p].state \in ForeStates /\ Become(MoveToFore(Called, p))
    <2>1. Called.proc[p].state \in {"READY", "STOPPED"}
      BY <1>3, CalledStill DEF WakefulUse, OrderlyUse
    <2>2. MoveToFore(Called, p) \in Heard(Now)
      BY <1>2, <2>1, WatchMoveToFore DEF Heard
    <2> QED
      BY <1>3, <2>2, BecomeHeard
  <1>4. CASE Become(MoveToBack(Called, p))
    <2>1. MoveToBack(Called, p) \in Heard(Now)
      BY <1>2, WatchMoveToBack DEF Heard
    <2> QED
      BY <1>4, <2>1, BecomeHeard
  <1> QED
    BY <1>1, <1>3, <1>4

-----------------------------------------------------------------------------
(***************************************************************************)
(* wait.  It adopts, looks at the children, and goes to sleep only if none *)
(* of them is an answer.                                                   *)
(***************************************************************************)
\* A PID means one process.
LEMMA LookupFinds ==
  ASSUME NEW k, Numbered(k), NEW d \in Users, InUse(k, d)
  PROVE  Lookup(k, k.proc[d].pid) = d
  <1> DEFINE found == {p \in Users : k.proc[p].state # "UNUSED" /\ k.proc[p].pid = k.proc[d].pid}
  <1>1. d \in found /\ found \in SUBSET Nat
    BY Sets DEF InUse
  <1>2. Min(found) \in found
    BY <1>1, MinFacts
  <1>3. Min(found) = d
    BY <1>2 DEF Numbered, InUse
  <1>4. Lookup(k, k.proc[d].pid) = IF found = {} THEN NULL ELSE Min(found)
    BY DEF Lookup
  <1> HIDE DEF found
  <1> QED
    BY <1>1, <1>3, <1>4

LEMMA FosterFields ==
  ASSUME NEW k \in KState
  PROVE  /\ Foster(k) \in KState /\ Foster(k).pidNum = k.pidNum
         /\ \A q \in Users : LET a == k.proc[q]
                                 b == Foster(k).proc[q]
                             IN  /\ b.pid = a.pid /\ b.state = a.state /\ b.event = a.event
                                 /\ b.handlers = a.handlers /\ b.signals = a.signals
                                 /\ b.call = a.call /\ b.wpid = a.wpid /\ b.ppid \in {1, a.ppid}
  <1> DEFINE abandoned(z) ==
               LET parent == Lookup(k, k.proc[z].ppid)
               IN  \/ parent = NULL
                   \/ /\ k.proc[parent].wpid >= 0
                      /\ k.proc[parent].wpid # k.proc[z].pid
             taken(p) == Contains(k.zombies, p) /\ k.proc[p].ppid # 1 /\ abandoned(p)
             t == [p \in Slots |-> IF taken(p) THEN [k.proc[p] EXCEPT !.ppid = 1] ELSE k.proc[p]]
             r == Foster(k)
  <1>1. r = [k EXCEPT !.proc = t]
    BY DEF Foster
  <1>2. k \in KRecord /\ k \in Near(k)
    BY NearSelf DEF KState
  <1>3. r \in KState
    BY <1>2, FosterType, StateFacts
  <1>4. r.proc = t /\ r.pidNum = k.pidNum
    BY <1>1, <1>2 DEF KRecord
  <1> HIDE DEF taken, r
  <1>5. ASSUME NEW q \in Users
        PROVE  /\ r.proc[q].pid = k.proc[q].pid /\ r.proc[q].state = k.proc[q].state
               /\ r.proc[q].event = k.proc[q].event /\ r.proc[q].handlers = k.proc[q].handlers
               /\ r.proc[q].signals = k.proc[q].signals /\ r.proc[q].call = k.proc[q].call
               /\ r.proc[q].wpid = k.proc[q].wpid /\ r.proc[q].ppid \in {1, k.proc[q].ppid}
    <2>1. r.proc[q] \in {[k.proc[q] EXCEPT !.ppid = 1], k.proc[q]}
      BY <1>4, Sets
    <2>2. k.proc[q] \in ProcessOK
      BY <1>2, StateAfter, Sets
    <2> QED
      BY <2>1, <2>2 DEF ProcessOK
  <1> HIDE DEF t
  <1> QED
    BY <1>3, <1>4, <1>5 DEF r

\* Init does not sleep while it adopts.
LEMMA FosterWakeful ==
  ASSUME NEW k \in Wakeful, NEW c \in Users, k.proc[c].pid = 1, k.proc[c].state = "RUNNING"
  PROVE  Foster(k) \in Wakeful
  <1> DEFINE r == Foster(k)
  <1>1. k \in KState /\ Numbered(k) /\ Answered(k)
    BY WakefulFacts
  <1>2. /\ r \in KState /\ r.pidNum = k.pidNum
        /\ \A q \in Users :
             /\ r.proc[q].pid = k.proc[q].pid /\ r.proc[q].state = k.proc[q].state
             /\ r.proc[q].event = k.proc[q].event /\ r.proc[q].handlers = k.proc[q].handlers
             /\ r.proc[q].signals = k.proc[q].signals /\ r.proc[q].call = k.proc[q].call
             /\ r.proc[q].wpid = k.proc[q].wpid /\ r.proc[q].ppid \in {1, k.proc[q].ppid}
    BY <1>1, FosterFields
  <1> HIDE DEF r
  <1>3. \A q \in Users : Alert(r.proc[q])
    BY <1>2, WakefulFacts DEF Alert, Doomed
  <1>4. Numbered(r)
    BY <1>1, <1>2 DEF Numbered, InUse
  <1>5. Answered(r)
    <2> SUFFICES ASSUME NEW p \in Users, NEW d \in Users, Napping(r.proc[p])
                 PROVE  ~ Answer(r.proc[p], r.proc[d])
      BY DEF Answered
    <2>1. Napping(k.proc[p]) /\ ~ Answer(k.proc[p], k.proc[d])
      BY <1>1, <1>2 DEF Napping, Answered
    <2>2. k.proc[p].pid # 1
      <3>1. p # c /\ InUse(k, p) /\ InUse(k, c)
        BY <2>1 DEF Napping, InUse
      <3> QED
        BY <1>1, <3>1 DEF Numbered
    <2> QED
      BY <1>2, <2>1, <2>2 DEF Answer
  <1> QED
    BY <1>2, <1>3, <1>4, <1>5 DEF Wakeful, r

LEMMA ReapWakeful ==
  ASSUME NEW k \in Wakeful, NEW z \in Users
  PROVE  /\ Reap(k, z) \in Wakeful /\ Reap(k, z).curr = k.curr
         /\ \A q \in Users : Napping(Reap(k, z).proc[q]) => Napping(k.proc[q])
  <1> DEFINE b == [Blank EXCEPT !.pid = k.proc[z].pid, !.event = k.proc[z].event]
             r == Reap(k, z)
  <1>1. /\ k \in KState /\ Numbered(k) /\ Answered(k) /\ k \in KRecord /\ k \in Near(k)
        /\ \A q \in Users : Alert(k.proc[q])
    BY WakefulFacts, NearSelf DEF KState
  <1>2. r \in KState /\ r.curr = k.curr
    <2>1. r \in Near(k)
      BY <1>1, ReapType
    <2> HIDE DEF r
    <2> QED
      BY <2>1, StateFacts
  <1>3. /\ r.pidNum = k.pidNum
        /\ \A q \in Users : r.proc[q] \in {b, k.proc[q]}
    BY <1>1, Sets DEF Reap, Free, KRecord
  <1>4. b.state = "UNUSED" /\ b.pid = k.proc[z].pid /\ b.handlers = DefHandlers
    BY DEF Blank
  <1> HIDE DEF b, r
  <1>5. /\ \A q \in Users : Napping(r.proc[q]) => r.proc[q] = k.proc[q]
        /\ \A q \in Users : Alert(r.proc[q])
        /\ \A q \in Users : InUse(r, q) => InUse(k, q) /\ r.proc[q] = k.proc[q]
    BY <1>1, <1>3, <1>4 DEF Napping, Alert, InUse
  <1>6. Numbered(r)
    BY <1>1, <1>3, <1>5 DEF Numbered
  <1>7. Answered(r)
    <2> SUFFICES ASSUME NEW p \in Users, NEW d \in Users, Napping(r.proc[p])
                 PROVE  ~ Answer(r.proc[p], r.proc[d])
      BY DEF Answered
    <2>1. r.proc[p] = k.proc[p] /\ ~ Answer(k.proc[p], k.proc[d])
      BY <1>1, <1>5 DEF Answered
    <2>2. r.proc[d] = k.proc[d] \/ r.proc[d].state = "UNUSED"
      BY <1>3, <1>4
    <2> QED
      BY <2>1, <2>2 DEF Answer
  <1> QED
    BY <1>2, <1>5, <1>6, <1>7 DEF Wakeful, r


\* curr goes to sleep in wait; there is no answer for it.
LEMMA SleepWakeful ==
  ASSUME NEW k \in Wakeful, k.curr \in Users, InUse(k, k.curr),
         \A d \in Users : ~ Answer(k.proc[k.curr], k.proc[d])
  PROVE  Sleep(k, STATE_CHANGE) \in Wakeful
  <1> DEFINE c == k.curr
             o == k.proc[c]
             b == [o EXCEPT !.state = "SLEEP", !.event = STATE_CHANGE]
             r == Sleep(k, STATE_CHANGE)
  <1>1. /\ k \in KState /\ Numbered(k) /\ Answered(k) /\ k \in KRecord /\ k \in Near(k)
        /\ (\A q \in Users : Alert(k.proc[q])) /\ c \in Slots
    BY WakefulFacts, NearSelf, Sets DEF KState
  <1>2. r \in KState
    <2>1. r \in Kept(k)
      BY <1>1, SleepType, EventFacts
    <2> HIDE DEF r
    <2> QED
      BY <2>1 DEF Kept
  <1>3. r.pidNum = k.pidNum /\ \A q \in Users : r.proc[q] = IF q = c THEN b ELSE k.proc[q]
    BY <1>1, Sets DEF Sleep, Schedule, KRecord
  <1>4. /\ b.state = "SLEEP" /\ b.pid = o.pid /\ b.handlers = o.handlers /\ b.call = o.call
        /\ b.wpid = o.wpid
    <2>1. o \in ProcessOK
      BY <1>1, StateAfter
    <2> QED
      BY <2>1 DEF ProcessOK
  <1>5. InUse(k, c) /\ c \in Users /\ \A d \in Users : ~ Answer(o, k.proc[d])
    OBVIOUS
  <1> HIDE DEF b, r, o, c
  <1>6. \A q \in Users : Alert(r.proc[q])
    <2>1. Alert(o)
      BY <1>1, <1>5 DEF o
    <2>2. Alert(b)
      BY <1>4, <2>1 DEF Alert
    <2> QED
      BY <1>1, <1>3, <2>2
  <1>7. Numbered(r)
    <2>1. \A q \in Users : r.proc[q].pid = k.proc[q].pid /\ (InUse(r, q) <=> InUse(k, q))
      BY <1>3, <1>4, <1>5 DEF InUse, o
    <2> QED
      BY <1>1, <1>3, <2>1 DEF Numbered
  <1>8. Answered(r)
    <2> SUFFICES ASSUME NEW p \in Users, NEW d \in Users, Napping(r.proc[p])
                 PROVE  ~ Answer(r.proc[p], r.proc[d])
      BY DEF Answered
    <2>1. ~ Answer(r.proc[p], k.proc[d])
      <3>1. CASE p = c
        <4>1. r.proc[p] = b /\ ~ Answer(o, k.proc[d])
          BY <1>3, <1>5, <3>1
        <4> QED
          BY <1>4, <4>1 DEF Answer
      <3>2. CASE p # c
        BY <1>1, <1>3, <3>2 DEF Answered
      <3> QED
        BY <3>1, <3>2
    <2> QED
      BY <1>3, <1>4, <2>1 DEF Answer
  <1> QED
    BY <1>2, <1>6, <1>7, <1>8 DEF Wakeful, r

\* Nobody wait has not looked at is an answer.
LEMMA NothingFound ==
  ASSUME NEW k \in Wakeful, Calm(k, {}), NEW c \in Users, NEW arg \in Int, k.proc[c].call.arg = arg,
         LET children == Children(k, k.proc[c].pid)
             dead     == {p \in children : Contains(k.zombies, p)}
             wpid     == IF arg = -1 /\ dead # {} THEN k.proc[Min(dead)].pid ELSE arg
         IN  Those(k.zombies, {p \in Users : k.proc[p].event = wpid}) = <<>>,
         NEW d \in Users, k.proc[d].state = "KILLED", k.proc[d].ppid = k.proc[c].pid
  PROVE  arg \notin {-1, k.proc[d].pid}
  <1> DEFINE children == Children(k, k.proc[c].pid)
             dead     == {p \in children : Contains(k.zombies, p)}
             wpid     == IF arg = -1 /\ dead # {} THEN k.proc[Min(dead)].pid ELSE arg
             S        == {p \in Users : k.proc[p].event = wpid}
  <1>1. k \in KRecord /\ \A q \in Users : Alert(k.proc[q])
    BY WakefulFacts DEF KState
  <1>2. d \in dead
    <2>1. Contains(k.zombies, d)
      BY DEF Calm, Listed
    <2> QED
      BY <2>1 DEF Children
  <1>3. dead \in SUBSET Nat /\ dead # {}
    BY <1>2, Sets DEF Children
  <1>4. Min(dead) \in dead
    BY <1>3, MinFacts
  <1>5. \A p \in dead : p \in Users /\ Contains(k.zombies, p) /\ k.proc[p].event = k.proc[p].pid
    <2> SUFFICES ASSUME NEW p \in dead
                 PROVE  p \in Users /\ Contains(k.zombies, p) /\ k.proc[p].event = k.proc[p].pid
      OBVIOUS
    <2>1. p \in Users /\ Contains(k.zombies, p)
      BY DEF Children
    <2>2. k.proc[p].state = "KILLED"
      BY <2>1 DEF Calm, Listed
    <2> QED
      BY <1>1, <2>1, <2>2 DEF Alert
  <1>6. Those(k.zombies, S) = <<>>
    OBVIOUS
  <1>7. arg = -1 => wpid = k.proc[Min(dead)].pid
    BY <1>3
  <1>8. arg = k.proc[d].pid => wpid = k.proc[d].pid \/ wpid = k.proc[Min(dead)].pid
    OBVIOUS
  <1>9. \A p \in Users : k.proc[p].event = wpid => p \in S
    OBVIOUS
  <1> HIDE DEF wpid, dead, S
  <1>10. \A p \in S : ~ Contains(k.zombies, p)
    <2>1. k.zombies \in Queue(Users)
      BY <1>1 DEF KRecord
    <2>2. \A p : Contains(Those(k.zombies, S), p) <=> Contains(k.zombies, p) /\ p \in S
      BY <2>1, ThoseFacts
    <2>3. \A p : ~ Contains(<<>>, p)
      BY EmptyQueue
    <2> QED
      BY <1>6, <2>2, <2>3
  <1>11. \A p \in dead : k.proc[p].pid # wpid
    BY <1>5, <1>9, <1>10
  <1> QED
    BY <1>2, <1>4, <1>7, <1>8, <1>11


\* A stop that nobody has told the caller about is no answer.
LEMMA NotStopped ==
  ASSUME NEW k \in Wakeful, Calm(k, {}), NEW w \in Int,
         LET known == IF w > 1 THEN Lookup(k, w) ELSE NULL
         IN  ~ (known # NULL /\ k.proc[known].state = "STOPPED" /\ Contains(k.suspended, known)),
         NEW d \in Users, k.proc[d].state = "STOPPED"
  PROVE  k.proc[d].pid # w
  <1> SUFFICES ASSUME k.proc[d].pid = w PROVE FALSE
    OBVIOUS
  <1>1. w > 1
    <2>1. Alert(k.proc[d]) /\ k.proc[d].pid \in 0 .. MaxPid
      BY WakefulFacts, StateAfter, ProcessFacts, Sets DEF KState
    <2> QED
      BY <2>1 DEF Alert
  <1>2. Lookup(k, w) = d
    BY WakefulFacts, LookupFinds DEF InUse
  <1>3. Contains(k.suspended, d)
    BY DEF Calm, Listed
  <1> QED
    BY <1>1, <1>2, <1>3, Sets

LEMMA WaitLoopWakeful ==
  ASSUME NEW k \in Orderly, k \in Wakeful, OutsideScheduler(k), k.curr \in Users,
         k.proc[k.curr].call.op = "wait"
  PROVE  WaitLoop(k) \in Wakeful
  <1> DEFINE c        == k.curr
             call     == k.proc[c].call
             arg      == call.arg
             w        == k.proc[c].wpid
             known    == IF w > 1 THEN Lookup(k, w) ELSE NULL
             stopped  == known # NULL /\ k.proc[known].state = "STOPPED" /\ Contains(k.suspended, known)
             heard    == stopped /\ "WUNTRACED" \in call.opts
             acked    == IF stopped THEN [k EXCEPT !.proc[c].wpid = arg] ELSE k
             ours     == IF k.proc[c].pid = 1 THEN Foster(acked) ELSE acked
             children == Children(ours, ours.proc[c].pid)
             dead     == {p \in children : Contains(ours.zombies, p)}
             wpid     == IF arg = -1 /\ dead # {} THEN ours.proc[Min(dead)].pid ELSE arg
             found    == Those(ours.zombies, {p \in Users : ours.proc[p].event = wpid})
             z        == Head(found)
  <1>1. \/ WaitLoop(k) \in {Leave(acked), Leave(ours)}
        \/ found # <<>> /\ WaitLoop(k) = Leave(Reap(ours, z))
        \/ found = <<>> /\ ~ heard /\ WaitLoop(k) = Sleep(ours, STATE_CHANGE)
    BY Zenon DEF WaitLoop
  <1>2. c \in Slots /\ call \in CallOK /\ k \in KRecord /\ k.proc[c] \in ProcessOK /\ w \in -1 .. MaxPid
    BY OrderlyFacts, StateFacts, ProcessFacts, Sets
  <1>3. arg \in -1 .. MaxPid
    BY <1>2 DEF CallOK
  <1>4. k.proc[c].state = "RUNNING" /\ ~ Napping(k.proc[c])
    BY CallerAlert
  <1>5. ~ stopped => \A d \in Users : k.proc[d].state = "STOPPED" => k.proc[d].pid # w
    <2>1. Calm(k, {}) /\ w \in Int
      BY <1>2, OrderlyFacts
    <2> HIDE DEF w, c
    <2> QED
      BY <2>1, NotStopped
  <1> HIDE DEF known
  <1>6. acked \in Wakeful /\ acked \in Still(k)
    <2>1. k \in Watch(k, FALSE) /\ k \in Still(k)
      BY WakefulFacts, OrderlyFacts
    <2>2. acked \in Watch(k, FALSE)
      BY <1>2, <1>3, <1>4, <2>1, WatchField
    <2>3. acked \in Still(k)
      BY <1>2, <1>3, <2>1, QuietField
    <2> HIDE DEF acked
    <2> QED
      BY <2>2, <2>3, WatchWakeful
  <1>7. /\ \A q \in Users : acked.proc[q].pid = k.proc[q].pid /\ acked.proc[q].state = k.proc[q].state
        /\ acked.proc[c].call = call /\ (~ stopped => acked = k) /\ acked.curr = c
    <2>1. \A q \in Users : k.proc[q] \in ProcessOK
      BY <1>2, StateAfter, Sets
    <2> QED
      BY <1>2, <2>1 DEF KRecord, ProcessOK
  <1> HIDE DEF stopped, acked
  <1>8. ours \in Wakeful
    <2>1. acked.proc[c].pid = k.proc[c].pid /\ acked.proc[c].state = "RUNNING"
      BY <1>4, <1>7
    <2> HIDE DEF c
    <2> QED
      BY <1>6, <2>1, FosterWakeful DEF c
  <1>9. ours \in Still(k)
    BY <1>6, FosterStill
  <1>10. /\ \A q \in Users : ours.proc[q].pid = k.proc[q].pid /\ ours.proc[q].state = k.proc[q].state
         /\ ours.proc[c].call = call
         /\ ~ stopped => ours.proc[c].wpid = w
    <2>1. acked \in KState
      BY <1>6, WakefulFacts
    <2>2. /\ \A q \in Users : ours.proc[q].pid = acked.proc[q].pid /\ ours.proc[q].state = acked.proc[q].state
          /\ ours.proc[c].call = acked.proc[c].call /\ ours.proc[c].wpid = acked.proc[c].wpid
      BY <2>1, FosterFields
    <2> HIDE DEF ours
    <2> QED
      BY <1>7, <2>2
  <1> HIDE DEF ours
  <1>11. /\ ours \in Orderly /\ ours.curr = c /\ Calm(ours, {}) /\ ours \in KRecord
         /\ ours.proc[c].state = "RUNNING"
    BY <1>4, <1>9, <1>10, StillAfter, StillSelf DEF Orderly
  <1>12. ASSUME NEW x \in Wakeful, x.curr = c, ~ Napping(x.proc[c])
         PROVE  Leave(x) \in Wakeful
    BY <1>12, WakefulFacts, WatchLeave, WatchWakeful
  <1>13. Leave(acked) \in Wakeful /\ Leave(ours) \in Wakeful
    BY <1>4, <1>6, <1>7, <1>8, <1>11, <1>12 DEF Napping
  <1>14. found # <<>> => Leave(Reap(ours, z)) \in Wakeful
    <2> SUFFICES ASSUME found # <<>> PROVE Leave(Reap(ours, z)) \in Wakeful
      OBVIOUS
    <2>1. z \in Users
      <3>1. ours.zombies \in Queue(Users)
        BY <1>11 DEF KRecord
      <3>2. found \in Queue(Users)
        BY <3>1, ThoseFacts
      <3> HIDE DEF found
      <3> QED
        BY <3>2, TailFacts
    <2> HIDE DEF z, found
    <2>2. Reap(ours, z) \in Wakeful /\ Reap(ours, z).curr = c /\ ~ Napping(Reap(ours, z).proc[c])
      BY <1>8, <1>11, <2>1, ReapWakeful DEF Napping
    <2> QED
      BY <1>12, <2>2
  <1>15. ASSUME found = <<>>, ~ heard
         PROVE  Sleep(ours, STATE_CHANGE) \in Wakeful
    <2>1. ASSUME NEW d \in Users, Answer(ours.proc[c], ours.proc[d])
          PROVE  FALSE
      <3>1. CASE /\ ours.proc[d].state = "KILLED" /\ ours.proc[d].ppid = ours.proc[c].pid
                 /\ arg \in {-1, ours.proc[d].pid}
        <4>1. Those(ours.zombies, {p \in Users : ours.proc[p].event = wpid}) = <<>>
          BY <1>15
        <4>2. arg \in Int /\ ours.proc[c].call.arg = arg
          BY <1>3, <1>10
        <4> HIDE DEF arg, c, call
        <4> QED
          BY <1>8, <1>11, <3>1, <4>1, <4>2, NothingFound DEF c
      <3>2. CASE /\ ours.proc[d].state = "STOPPED" /\ ours.proc[d].pid = ours.proc[c].wpid
                 /\ "WUNTRACED" \in call.opts
        BY <1>5, <1>10, <1>15, <3>2
      <3> QED
        BY <1>10, <2>1, <3>1, <3>2 DEF Answer
    <2>2. InUse(ours, c)
      BY <1>11 DEF InUse
    <2> QED
      BY <1>8, <1>11, <2>1, <2>2, SleepWakeful
  <1> QED
    BY <1>1, <1>13, <1>14, <1>15


\* A system call that may block is made, or made again.
LEMMA StartWakeful ==
  ASSUME NEW k \in Orderly, k \in Wakeful, OutsideScheduler(k), k.curr \in Users,
         NEW call \in CallOK
  PROVE  Start(k, call) \in Wakeful
  <1> DEFINE c    == k.curr
             e    == Enter(k, call)
             slp  == [e EXCEPT !.proc[c].left = call.arg]
             wt   == [e EXCEPT !.proc[c].wpid = call.arg]
  <1>1. Start(k, call) = CASE call.op = "sleep" -> SleepLoop(slp)
                           [] call.op = "wait"  -> WaitLoop(wt)
                           [] OTHER             -> k
    BY DEF Start
  <1>2. /\ k.proc[c].state = "RUNNING" /\ ~ Napping(k.proc[c]) /\ c \in Slots /\ c \in Users
        /\ k \in KRecord /\ k.proc[c] \in ProcessOK /\ k \in Still(k) /\ k \in Watch(k, FALSE)
    BY CallerAlert, OrderlyFacts, WakefulFacts, StateAfter, Sets
  <1>3. e \in Still(k) /\ e \in Watch(k, FALSE)
    BY <1>2, EnterStill, WatchEnter
  <1>4. e.curr = c /\ e.proc[c].call = call /\ e.proc[c].state = "RUNNING"
    BY <1>2 DEF Enter, KRecord, ProcessOK
  <1>5. e \in KRecord /\ e.proc[c] \in ProcessOK /\ ~ Napping(e.proc[c])
    BY <1>2, <1>3, <1>4, StillSelf, StateAfter DEF Napping
  <1>6. ASSUME call.op = "sleep"
        PROVE  SleepLoop(slp) \in Wakeful
    <2>1. call.arg \in 0 .. MaxSleep
      BY <1>6 DEF CallOK
    <2> HIDE DEF e, c
    <2>2. slp \in Watch(k, FALSE)
      BY <1>2, <1>3, <2>1, WatchField
    <2>3. slp.curr = c /\ slp.proc[c].state = "RUNNING"
      BY <1>2, <1>4, <1>5 DEF KRecord, ProcessOK
    <2> HIDE DEF slp
    <2>4. SleepLoop(slp) \in Watch(k, FALSE)
      BY <1>2, <2>2, <2>3, WatchSleepLoop DEF InUse, Napping
    <2> QED
      BY <2>4, WatchWakeful
  <1>7. ASSUME call.op = "wait"
        PROVE  WaitLoop(wt) \in Wakeful
    <2>1. call.arg \in -1 .. MaxPid
      BY <1>7 DEF CallOK
    <2> HIDE DEF e, c
    <2>2. wt \in Still(k) /\ wt \in Watch(k, FALSE)
      BY <1>2, <1>3, <1>5, <2>1, QuietField, WatchField
    <2>3. wt.curr = c /\ wt.proc[c].call = call
      BY <1>2, <1>4, <1>5 DEF KRecord, ProcessOK
    <2> HIDE DEF wt
    <2>4. wt \in Orderly /\ OutsideScheduler(wt) /\ wt \in Wakeful
      BY <2>2, StillAfter, WatchWakeful DEF OutsideScheduler
    <2> QED
      BY <1>2, <1>7, <2>3, <2>4, WaitLoopWakeful
  <1> HIDE DEF slp, wt
  <1> QED
    BY <1>1, <1>6, <1>7

LEMMA BecomeWakeful ==
  ASSUME NEW k \in Wakeful, Become(k)
  PROVE  Now' \in Wakeful
  BY WakefulFacts, BecomeFacts

LEMMA ResumeWakeful ==
  ASSUME Now \in Orderly, Now \in Wakeful, Resume
  PROVE  Now' \in Wakeful
  <1>1. OutsideScheduler(Now) /\ Now.curr \in Users
    BY OrderlyNow, NowFacts, StateFacts DEF Resume
  <1>2. \/ Become(SleepLoop(Now))
        \/ Now.proc[Now.curr].call.op = "wait" /\ Become(WaitLoop(Now))
    BY OrderlyNow DEF Resume
  <1>3. SleepLoop(Now) \in Wakeful
    <2>1. SleepLoop(Now) \in Watch(Now, FALSE)
      BY <1>1, WakefulFacts, CallerAlert, WatchSleepLoop
    <2> QED
      BY <2>1, WatchWakeful
  <1> QED
    BY <1>1, <1>2, <1>3, WaitLoopWakeful, BecomeWakeful

LEMMA BlockingWakeful ==
  ASSUME Now \in Orderly, Now \in Wakeful, SysWait \/ SysSleep
  PROVE  Now' \in Wakeful
  <1>1. mode = "user" /\ curr # Idle /\ TypeInv
    BY OrderlyNow DEF SysWait, SysSleep, InUserCode
  <1>2. PICK call \in CallOK : Become(Start(Now, call))
    <2>1. CASE SysSleep
      BY <1>1, <2>1, CallFacts DEF SysSleep
    <2>2. CASE SysWait
      BY <1>1, <2>2, CallFacts DEF SysWait
    <2> QED
      BY <2>1, <2>2
  <1>3. Start(Now, call) \in Wakeful
    BY <1>1, CallerFacts, StartWakeful
  <1> QED
    BY <1>2, <1>3, BecomeWakeful

LEMMA SigProxyRestoreWakeful ==
  ASSUME Now \in Orderly, Now \in Wakeful, SigProxyRestore
  PROVE  Now' \in Wakeful
  <1> DEFINE q == Now.proc[curr].proxied
             j == [Now EXCEPT !.proc[curr].proxied = Front(q)]
             k == [j EXCEPT !.proc[curr].call = Last(q)]
  <1>1. mode = "user" /\ q # <<>> /\ (Become(Start(k, Last(q))) \/ Become(k))
    <2>1. proc[curr].proxied = q
      BY OrderlyNow
    <2> QED
      BY <2>1 DEF SigProxyRestore
  <1>2. curr # Idle /\ curr \in Users /\ curr \in Slots
    BY <1>1, UserFacts, OrderlyNow, NowFacts, StateFacts
  <1>3. q \in Seq(CallOK)
    BY <1>2, OrderlyNow, NowFacts, StateFacts, ProcessFacts
  <1> HIDE DEF q
  <1>4. Front(q) \in Seq(CallOK) /\ Last(q) \in CallOK
    BY <1>1, <1>3, FrontLastFacts
  <1>5. k \in Still(Now) /\ k \in Watch(Now, FALSE)
    <2>1. j \in Still(Now) /\ j \in Watch(Now, FALSE)
      BY <1>2, <1>4, OrderlyFacts, WakefulFacts, QuietField, WatchField
    <2> HIDE DEF j
    <2>2. j \in Orderly /\ j \in Wakeful /\ OutsideScheduler(j) /\ j.curr = curr
      BY <1>1, <1>2, <2>1, StillAfter, CallerFacts, WatchWakeful, OrderlyNow DEF OutsideScheduler
    <2>3. ~ Napping(j.proc[curr])
      BY <1>2, <2>2, CallerAlert
    <2> QED
      BY <1>2, <1>4, <2>1, <2>3, QuietField, WatchField
  <1> HIDE DEF k
  <1>6. k \in Orderly /\ k \in Wakeful /\ OutsideScheduler(k) /\ k.curr \in Users
    BY <1>1, <1>2, <1>5, StillAfter, CallerFacts, WatchWakeful DEF OutsideScheduler
  <1>7. Start(k, Last(q)) \in Wakeful
    BY <1>4, <1>6, StartWakeful
  <1> QED
    BY <1>1, <1>6, <1>7, BecomeWakeful

-----------------------------------------------------------------------------
(***************************************************************************)
(* fork, and the steps together.                                           *)
(***************************************************************************)
\* The new process has a PID that nobody has.
LEMMA AllocateWakeful ==
  ASSUME NEW x \in Wakeful, NEW c \in Users, c = Min(FreeSlots), x.proc[c].state = "UNUSED",
         x.pidNum <= MaxPid, NEW state \in {"READY", "INIT"}
  PROVE  Allocate(x, state) \in Wakeful
  <1> DEFINE y == Yield(x, x.curr)
             b == Child(x.pidNum, x.proc[x.curr].pid, state)
             r == Allocate(x, state)
  <1>1. /\ x \in KState /\ x \in Near(x)
        /\ Numbered(x) /\ Answered(x) /\ \A q \in Users : Alert(x.proc[q])
    BY WakefulFacts, NearSelf
  <1>2. r \in KState
    <2>1. r \in Near(x)
      BY <1>1, AllocateType DEF States
    <2> HIDE DEF r
    <2> QED
      BY <2>1, StateFacts
  <1>3. y \in KRecord /\ y.proc = x.proc /\ y.pidNum = x.pidNum /\ x.pidNum \in 1 .. MaxPid + 1
    <2>1. x \in KRecord
      BY <1>1 DEF KState
    <2>2. y \in KRecord
      <3>1. x \in Watch(x, FALSE)
        BY WakefulFacts
      <3>2. y \in Watch(x, FALSE)
        BY <3>1, WatchHandOver
      <3> HIDE DEF y
      <3> QED
        BY <3>2, WatchFacts
    <2> QED
      BY <2>1, <2>2 DEF Yield, KRecord
  <1> HIDE DEF y
  <1>4. r.pidNum = x.pidNum + 1 /\ \A q \in Users : r.proc[q] = IF q = c THEN b ELSE x.proc[q]
    <2>1. r = [y EXCEPT !.proc[c] = b, !.zombies = CutAfter(@, c), !.pidNum = @ + 1]
      BY DEF Allocate, y
    <2> HIDE DEF r, b
    <2> QED
      BY <1>3, <2>1, Sets DEF KRecord
  <1>5. /\ b.pid = x.pidNum /\ b.state = state /\ b.event = NONE /\ b.handlers = DefHandlers
    BY DEF Child, Blank
  <1> HIDE DEF b, r
  <1>6. \A q \in Users : Alert(r.proc[q])
    <2>1. Alert(b)
      BY <1>5 DEF Alert, NONE, STATE_CHANGE
    <2> QED
      BY <1>1, <1>4, <2>1
  <1>7. Numbered(r)
    <2>1. x.pidNum \in Nat /\ x.pidNum >= 2 /\ r.pidNum >= 2
      BY <1>1, <1>3, <1>4 DEF Numbered
    <2>2. \A q \in Users : q # c => r.proc[q] = x.proc[q] /\ (InUse(r, q) <=> InUse(x, q))
      BY <1>4 DEF InUse
    <2>3. \A q \in Users : x.proc[q].pid \in Nat
      BY <1>1, StateAfter, ProcessFacts, Sets DEF KState
    <2>4. r.proc[c].pid = x.pidNum
      BY <1>4, <1>5
    <2>5. \A q \in Users : InUse(r, q) /\ q # c => x.proc[q].pid < x.pidNum
      BY <1>1, <2>2 DEF Numbered
    <2>6. ASSUME NEW q \in Users, InUse(r, q)
          PROVE  r.proc[q].pid < r.pidNum /\ (q # 1 => r.proc[q].pid >= 2)
      <3>1. CASE q = c
        BY <1>4, <2>1, <2>4, <3>1
      <3>2. CASE q # c
        <4>1. r.proc[q].pid = x.proc[q].pid /\ (q # 1 => x.proc[q].pid >= 2)
          BY <1>1, <2>2, <2>6, <3>2 DEF Numbered
        <4> QED
          BY <1>4, <2>1, <2>3, <2>5, <2>6, <3>2, <4>1
      <3> QED
        BY <3>1, <3>2
    <2>7. ASSUME NEW q \in Users, NEW t \in Users, InUse(r, q), InUse(r, t),
                 r.proc[q].pid = r.proc[t].pid
          PROVE  q = t
      <3>1. CASE q # c /\ t # c
        BY <1>1, <2>2, <2>7, <3>1 DEF Numbered
      <3>2. ASSUME NEW u \in Users, u # c, InUse(r, u)
            PROVE  r.proc[u].pid # r.proc[c].pid
        BY <2>1, <2>2, <2>3, <2>4, <2>5, <3>2
      <3> QED
        BY <2>7, <3>1, <3>2
    <2> QED
      BY <2>1, <2>6, <2>7 DEF Numbered
  <1>8. Answered(r)
    <2> SUFFICES ASSUME NEW p \in Users, NEW d \in Users, Napping(r.proc[p])
                 PROVE  ~ Answer(r.proc[p], r.proc[d])
      BY DEF Answered
    <2>1. r.proc[p] = x.proc[p] /\ Napping(x.proc[p])
      BY <1>4, <1>5 DEF Napping
    <2>2. r.proc[d] = x.proc[d] \/ r.proc[d].state \notin {"KILLED", "STOPPED"}
      BY <1>4, <1>5
    <2> QED
      BY <1>1, <2>1, <2>2 DEF Answered, Answer
  <1> QED
    BY <1>2, <1>6, <1>7, <1>8 DEF Wakeful, r

LEMMA ForkWakeful ==
  ASSUME Now \in Orderly, Now \in Wakeful, SysFork \/ SysForkFails
  PROVE  Now' \in Wakeful
  <1> DEFINE c == Min(FreeSlots)
             a == Allocate(Called, "READY")
             k == [a EXCEPT !.ready = PushBack(a.ready, c)]
  <1>1. /\ FreeSlots # {} /\ pidNum <= MaxPid /\ mode = "user" /\ curr # Idle
        /\ Become(k) \/ Become(Allocate(Called, "INIT"))
    BY DEF SysFork, SysForkFails, InUserCode
  <1>2. c \in FreeSlots /\ c \in Users
    <2>1. FreeSlots \in SUBSET Nat
      BY Sets DEF FreeSlots
    <2> QED
      BY <1>1, <2>1, MinFacts DEF FreeSlots
  <1>3. a \in Wakeful /\ Allocate(Called, "INIT") \in Wakeful
    <2>1. Called \in Wakeful /\ Called.proc[c].state = "UNUSED" /\ Called.pidNum <= MaxPid
      BY <1>1, <1>2, CalledQuiet, CalledStill DEF FreeSlots
    <2> QED
      BY <1>2, <2>1, AllocateWakeful
  <1> HIDE DEF a, c
  <1>4. k \in Wakeful
    <2>1. a \in Watch(a, FALSE) /\ a \in KRecord
      BY <1>3, WakefulFacts DEF KState
    <2>2. PushBack(a.ready, c) \in Queue(Users)
      BY <1>2, <2>1, PushBackFacts DEF KRecord
    <2>3. k \in Watch(a, FALSE)
      BY <2>1, <2>2, WatchQueue
    <2> HIDE DEF k
    <2> QED
      BY <1>3, <2>3, WatchWakeful
  <1> HIDE DEF k
  <1> QED
    BY <1>1, <1>3, <1>4, BecomeWakeful

-----------------------------------------------------------------------------
(***************************************************************************)
(* Every step keeps the invariant.                                         *)
(***************************************************************************)
LEMMA StepWakeful ==
  ASSUME WakefulUse, Now \in Orderly, Now \in Wakeful, [Next]_vars
  PROVE  Now' \in Wakeful
  <1>1. SIGCONT \notin Known
    BY DEF WakefulUse, OrderlyUse, Known, SIGCONT, SIGTERM, SIGKILL, SIGCHLD
  <1>2. CASE UNCHANGED vars
    <2>1. Now' = Now
      BY <1>2 DEF vars, Now
    <2> QED
      BY <2>1
  <1>3. CASE Halted
    BY <1>2, <1>3 DEF Halted
  <1>4. CASE Tick \/ ScanSuspended \/ ConsiderHead \/ RunIdle \/ SysExec \/ SysExit
    <2>1. Now' \in Heard(Now)
      BY <1>1, <1>4, TickHeard, ScanSuspendedHeard, ConsiderHeadHeard, RunIdleHeard,
         SysExecHeard, SysExitHeard
    <2> QED
      BY <2>1, HeardWakeful
  <1>5. CASE SysKill \/ SysPctrl
    <2>1. Now' \in Heard(Now)
      BY <1>5, SysKillHeard, SysPctrlHeard
    <2> QED
      BY <2>1, HeardWakeful
  <1>6. CASE Resume \/ SysFork \/ SysForkFails \/ SysWait \/ SysSleep \/ SigProxyRestore
    BY <1>6, ResumeWakeful, ForkWakeful, BlockingWakeful, SigProxyRestoreWakeful
  <1>7. ~ SysSignal
    BY DEF SysSignal, InUserCode, WakefulUse
  <1> QED
    BY <1>2, <1>3, <1>4, <1>5, <1>6, <1>7 DEF Next

LEMMA InitWakeful ==
  Init => Now \in Wakeful
  <1> SUFFICES ASSUME Init PROVE Now \in Wakeful
    OBVIOUS
  <1>1. Now \in KState
    BY InitTypes DEF TypeInv
  <1>2. Now.proc = proc /\ Now.pidNum = 2
    BY DEF Init, Now
  <1>3. ASSUME NEW q \in Users
        PROVE  proc[q] = IF q = 1 THEN [Child(1, 0, "READY") EXCEPT !.daemon = TRUE] ELSE Blank
    <2>1. q \in Slots /\ q # Idle
      BY <1>3, Sets
    <2> QED
      BY <2>1 DEF Init
  <1>4. ASSUME NEW q \in Users
        PROVE  /\ proc[q].state = IF q = 1 THEN "READY" ELSE "UNUSED"
               /\ q = 1 => proc[q].pid = 1
               /\ proc[q].event = NONE /\ proc[q].handlers = DefHandlers
    <2>1. CASE q = 1
      <3>1. proc[q] = [Child(1, 0, "READY") EXCEPT !.daemon = TRUE]
        BY <1>3, <2>1
      <3> QED
        BY <2>1, <3>1 DEF Child, Blank
    <2>2. CASE q # 1
      <3>1. proc[q] = Blank
        BY <1>3, <2>2
      <3> QED
        BY <2>2, <3>1 DEF Blank
    <2> QED
      BY <2>1, <2>2
  <1>5. \A q \in Users : Alert(proc[q])
    <2>1. NONE # STATE_CHANGE
      BY DEF NONE, STATE_CHANGE
    <2> QED
      BY <1>4, <2>1 DEF Alert
  <1>6. \A q \in Users : InUse(Now, q) <=> q = 1
    BY <1>2, <1>4 DEF InUse
  <1>7. Numbered(Now)
    BY <1>2, <1>4, <1>6 DEF Numbered
  <1>8. Answered(Now)
    BY <1>2, <1>4 DEF Answered, Napping
  <1> QED
    BY <1>1, <1>2, <1>5, <1>7, <1>8 DEF Wakeful

-----------------------------------------------------------------------------
(***************************************************************************)
(* The theorem.  WakefulUse is what programs must keep to.                 *)
(***************************************************************************)
Awake == Now \in Orderly /\ Now \in Wakeful

LEMMA AwakeKept == ASSUME WakefulUse PROVE Spec => []Awake
  <1>1. Init => Awake
    BY InitOrderly, InitWakeful DEF Awake
  <1>2. Awake /\ [Next]_vars => Awake'
    <2> SUFFICES ASSUME Awake, [Next]_vars PROVE Awake'
      OBVIOUS
    <2>1. OrderlyUse /\ Now \in Orderly /\ Now \in Wakeful
      BY DEF Awake, WakefulUse
    <2>2. Now' \in Orderly
      BY <2>1, StepOrderly DEF Step, After
    <2>3. Now' \in Wakeful
      BY <2>1, StepWakeful
    <2> QED
      BY <2>2, <2>3 DEF Awake
  <1> QED
    BY <1>1, <1>2, PTL DEF Spec

\* No wakeup is lost: nobody sleeps in wait while a child it waits for is dead,
\* or while the stop it asked to hear about has been reported to it.
THEOREM NoWakeupLost == ASSUME WakefulUse PROVE Spec => []NoLostWakeup
  <1>1. Awake => NoLostWakeup
    <2> SUFFICES ASSUME Awake, NEW p \in Users, NEW c \in Users, AsleepInWait(p)
                 PROVE  /\ Contains(zombies, c) /\ proc[c].ppid = proc[p].pid
                              => proc[p].call.arg \notin {-1, proc[c].pid}
                        /\ proc[c].state = "STOPPED" /\ proc[c].pid = proc[p].wpid
                              => "WUNTRACED" \notin proc[p].call.opts
      BY DEF NoLostWakeup
    <2>1. Now.proc = proc /\ Now.zombies = zombies
      BY DEF Now
    <2>2. ~ Answer(proc[p], proc[c])
      BY <2>1, WakefulFacts DEF Awake, Answered, Napping, AsleepInWait
    <2>3. Contains(zombies, c) => proc[c].state = "KILLED"
      BY <2>1 DEF Awake, Orderly, Calm, Listed
    <2> QED
      BY <2>2, <2>3 DEF Answer
  <1> QED
    BY AwakeKept, <1>1, PTL

=============================================================================
