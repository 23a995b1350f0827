---------------------------- MODULE QueueProofs ----------------------------
(***************************************************************************)
(* The lists of the kernel and the states of the processes agree.          *)
(*                                                                         *)
(* A kernel function takes one process off its list, changes others, and   *)
(* in the end links the process where its new state belongs.  In between   *)
(* it is in transit: X is the set of the processes in transit.             *)
(***************************************************************************)
EXTENDS KernelProofs

-----------------------------------------------------------------------------
\* What programs must not do for the lists to remain in order: no SIGCONT is
\* sent (it puts the foreground process to sleep whatever list it is on), no
\* dead job is brought to the foreground, and no hang-up goes to everybody (it
\* frees zombies that stay linked).
OrderlyUse ==
  /\ SIGCONT \notin Sendable
  /\ ForeStates \subseteq {"READY", "SLEEP", "STOPPED"}
  /\ SIGHUP \in Sendable => -1 \notin Targets

-----------------------------------------------------------------------------
(***************************************************************************)
(* Where a process is linked.                                              *)
(***************************************************************************)
Listed(k, q) ==
  /\ Contains(k.ready, q)     <=> k.proc[q].state = "READY"
  /\ Contains(k.waiting, q)   <=> k.proc[q].state = "SLEEP"
  /\ Contains(k.suspended, q) <=> k.proc[q].state = "STOPPED"
  /\ Contains(k.zombies, q)   <=> k.proc[q].state = "KILLED"

Held(k, q) == ~ Contains(k.ready, q) /\ ~ Contains(k.waiting, q)

Calm(k, X) == /\ \A q \in Users \ X : Listed(k, q)
              /\ \A q \in X : Held(k, q)

\* What may happen to a process not in transit while signals are posted and
\* events occur, and to a process in transit: it may be woken up; nothing.
Woken(k, kk, q) ==
  \/ kk.proc[q].state = k.proc[q].state
  \/ k.proc[q].state = "SLEEP" /\ kk.proc[q].state = "READY"

Untouched(k, kk, q) ==
  /\ kk.proc[q].state = k.proc[q].state
  /\ Contains(kk.ready, q)     <=> Contains(k.ready, q)
  /\ Contains(kk.waiting, q)   <=> Contains(k.waiting, q)
  /\ Contains(kk.suspended, q) <=> Contains(k.suspended, q)
  /\ Contains(kk.zombies, q)   <=> Contains(k.zombies, q)

Mild(k, X) == {kk \in Near(k) : /\ Calm(kk, X)
                                /\ \A q \in Users \ X : Woken(k, kk, q)
                                /\ \A q \in X : Untouched(k, kk, q)}

\* No list and no state changes.
Still(k) == {kk \in Near(k) : /\ kk.ready = k.ready /\ kk.waiting = k.waiting
                              /\ kk.suspended = k.suspended /\ kk.zombies = k.zombies
                              /\ \A q \in Slots : kk.proc[q].state = k.proc[q].state}

LEMMA NearSelf ==
  ASSUME NEW k \in KState
  PROVE  k \in Near(k) /\ k \in Still(k)
  BY DEF Near, Still

LEMMA NearTrans ==
  ASSUME NEW k0, NEW k \in Near(k0), NEW kk \in Near(k)
  PROVE  kk \in Near(k0)
  BY DEF Near

LEMMA StillTrans ==
  ASSUME NEW k0, NEW k \in Still(k0), NEW kk \in Still(k)
  PROVE  kk \in Still(k0)
  BY DEF Still, Near

LEMMA MildStart ==
  ASSUME NEW k \in KState, NEW X, Calm(k, X)
  PROVE  k \in Mild(k, X)
  BY NearSelf DEF Mild, Woken, Untouched

LEMMA MildTrans ==
  ASSUME NEW k0, NEW X, NEW k \in Mild(k0, X), NEW kk \in Mild(k, X)
  PROVE  kk \in Mild(k0, X)
  <1>1. kk \in Near(k0)
    BY NearTrans DEF Mild
  <1>2. \A q \in Users \ X : Woken(k0, kk, q)
    BY DEF Mild, Woken
  <1>3. \A q \in X : Untouched(k0, kk, q)
    BY DEF Mild, Untouched
  <1> QED
    BY <1>1, <1>2, <1>3 DEF Mild

LEMMA StillMild ==
  ASSUME NEW k0, NEW X \in SUBSET Users, NEW k \in Mild(k0, X), NEW kk \in Still(k)
  PROVE  kk \in Mild(k0, X)
  <1>1. kk \in Near(k)
    BY DEF Still
  <1>2. \A q \in Users : /\ Untouched(k, kk, q) /\ Woken(k, kk, q)
                         /\ (Listed(k, q) => Listed(kk, q)) /\ (Held(k, q) => Held(kk, q))
    BY Sets DEF Still, Untouched, Woken, Listed, Held
  <1>3. kk \in Mild(k, X)
    BY <1>1, <1>2 DEF Mild, Calm
  <1> QED
    BY <1>3, MildTrans

LEMMA MildFacts ==
  ASSUME NEW k0, NEW X, NEW k \in Mild(k0, X)
  PROVE  /\ k \in Near(k0) /\ k \in KState /\ k \in KRecord /\ Calm(k, X)
         /\ k.ready \in Queue(Users) /\ k.waiting \in Queue(Users)
         /\ k.suspended \in Queue(Users) /\ k.zombies \in Queue(Users)
         /\ k.curr = k0.curr /\ k.mode = k0.mode
  BY StateFacts DEF Mild

\* The state of a process in a record in which one or two things have changed.
LEMMA StateAfter ==
  ASSUME NEW k \in KRecord, NEW p \in Slots
  PROVE  \A q \in Slots : k.proc[q] \in ProcessOK
  BY DEF KRecord

-----------------------------------------------------------------------------
(***************************************************************************)
(* Posting a signal, and events.                                           *)
(***************************************************************************)
LEMMA PostMild ==
  ASSUME NEW k0, NEW X \in SUBSET Users, NEW k \in Mild(k0, X),
         NEW t \in Users \ X, NEW s \in Known
  PROVE  Post(k, t, s) \in Mild(k0, X)
  <1> DEFINE kk == Post(k, t, s)
  <1>1. k \in KRecord /\ Calm(k, X) /\ k.ready \in Queue(Users) /\ k.waiting \in Queue(Users)
    BY MildFacts
  <1>2. kk \in Near(k)
    BY <1>1, MildFacts, NearSelf, PostType
  <1>3. CASE k.proc[t].state # "SLEEP"
    <2>1. /\ kk.ready = k.ready /\ kk.waiting = k.waiting
          /\ kk.suspended = k.suspended /\ kk.zombies = k.zombies
          /\ \A q \in Slots : kk.proc[q].state = k.proc[q].state
      BY <1>1, <1>3 DEF Post, KRecord, ProcessOK
    <2> QED
      BY <1>2, <2>1, StillMild DEF Still
  <1>4. CASE k.proc[t].state = "SLEEP"
    <2>1. /\ kk.ready = PushBack(k.ready, t) /\ kk.waiting = Unlink(k.waiting, t)
          /\ kk.suspended = k.suspended /\ kk.zombies = k.zombies
          /\ kk.proc[t].state = "READY"
          /\ \A q \in Users : q # t => kk.proc[q].state = k.proc[q].state
      <3> DEFINE r == [k.proc[t] EXCEPT !.signals = (@ \ Cancelled(s)) \cup {s}]
                 m == [k EXCEPT !.proc[t] = r]
      <3>1. kk = [m EXCEPT !.waiting = Unlink(@, t), !.ready = PushBack(@, t),
                           !.proc[t].state = "READY"]
        BY <1>4, Zenon DEF Post
      <3>2. "state" \in DOMAIN r
        BY <1>1, StateAfter, Sets DEF ProcessOK
      <3> HIDE DEF r
      <3> QED
        BY <1>1, <3>1, <3>2, Sets DEF KRecord
    <2>2. Listed(k, t)
      BY <1>1 DEF Calm
    <2>3. ~ Contains(k.ready, t)
      BY <1>4, <2>2 DEF Listed
    <2>4. \A q : Contains(kk.ready, q) <=> Contains(k.ready, q) \/ q = t
      BY <1>1, <2>1, <2>3, PushBackFacts
    <2>5. \A q : Contains(kk.waiting, q) <=> Contains(k.waiting, q) /\ q # t
      BY <1>1, <2>1, UnlinkFacts
    <2> HIDE DEF kk
    <2>6. Listed(kk, t) /\ Woken(k, kk, t)
      BY <1>4, <2>1, <2>2, <2>4, <2>5 DEF Listed, Woken
    <2>7. \A q \in Users \ {t} : /\ Untouched(k, kk, q) /\ Woken(k, kk, q)
                                 /\ (Listed(k, q) => Listed(kk, q)) /\ (Held(k, q) => Held(kk, q))
      BY <2>1, <2>4, <2>5 DEF Untouched, Woken, Listed, Held
    <2>8. kk \in Mild(k, X)
      BY <1>1, <1>2, <2>6, <2>7 DEF Mild, Calm
    <2> QED
      BY <2>8, MildTrans DEF kk
  <1> QED
    BY <1>3, <1>4

LEMMA PostAllMild ==
  ASSUME NEW k0, NEW X \in SUBSET Users, NEW k \in Mild(k0, X),
         NEW P, P \cap X = {}, NEW s \in Known
  PROVE  PostAll(k, P, s) \in Mild(k0, X)
  BY PostAllLoop, PostMild

\* The children of p are sent a signal; those in transit are dead, or p itself.
LEMMA KillChildrenMild ==
  ASSUME NEW k0, NEW X \in SUBSET Users, NEW k \in Mild(k0, X), NEW p \in Users,
         NEW s \in Known, \A q \in X : q = p \/ k.proc[q].state = "KILLED"
  PROVE  KillChildren(k, p, s) \in Mild(k0, X)
  <1> DEFINE P == {q \in Others(k, p) : Alive(k, q) /\ k.proc[q].ppid = k.proc[p].pid}
  <1>1. P \cap X = {}
    BY DEF Others, Alive
  <1> HIDE DEF P
  <1> QED
    BY <1>1, PostAllMild DEF KillChildren, P

LEMMA WakeUpMild ==
  ASSUME NEW k0, NEW X \in SUBSET Users, NEW k \in Mild(k0, X), NEW ev
  PROVE  WakeUp(k, ev) \in Mild(k0, X)
  <1> DEFINE called  == {p \in Users : k.proc[p].event = ev}
             resting == Without(k.waiting, ToSet(k.ready))
             woken   == Those(resting, called)
             kk      == WakeUp(k, ev)
  <1>1. /\ k \in KRecord /\ Calm(k, X) /\ k.ready \in Queue(Users) /\ k.waiting \in Queue(Users)
        /\ k.ready \in Seq(Users)
    BY MildFacts DEF Queue
  <1>2. kk \in Near(k)
    BY <1>1, MildFacts, NearSelf, WakeUpType
  <1>3. \A q : Contains(k.ready, q) <=> q \in ToSet(k.ready)
    BY <1>1, ToSetFacts
  <1>4. /\ resting \in Queue(Users)
        /\ \A q : Contains(resting, q) <=> Contains(k.waiting, q) /\ q \notin ToSet(k.ready)
    BY <1>1, WithoutFacts
  <1>5. /\ woken \in Queue(Users) /\ woken \in Seq(Users)
        /\ \A q : Contains(woken, q) <=> Contains(resting, q) /\ q \in called
    BY <1>4, ThoseFacts DEF Queue
  <1>6. \A q : q \in ToSet(woken) <=> Contains(woken, q)
    BY <1>5, ToSetFacts
  <1>7. \A q : ~ (Contains(k.ready, q) /\ Contains(woken, q))
    BY <1>3, <1>4, <1>5
  <1>8. \A q : Contains(k.ready \o woken, q) <=> Contains(k.ready, q) \/ Contains(woken, q)
    BY <1>1, <1>5, <1>7, ConcatFacts
  <1>9. \A q : Contains(Without(k.waiting, called), q) <=> Contains(k.waiting, q) /\ q \notin called
    BY <1>1, WithoutFacts
  <1>10. /\ kk.ready = k.ready \o woken /\ kk.waiting = Without(k.waiting, called)
         /\ kk.suspended = k.suspended /\ kk.zombies = k.zombies
         /\ \A q \in Users : kk.proc[q].state = IF q \in ToSet(woken) THEN "READY"
                                                ELSE k.proc[q].state
    <2> DEFINE table == [q \in Slots |-> IF q \in ToSet(woken)
                                         THEN [k.proc[q] EXCEPT !.event = NONE, !.state = "READY"]
                                         ELSE k.proc[q]]
    <2>1. kk = [k EXCEPT !.waiting = Without(k.waiting, called), !.ready = k.ready \o woken,
                         !.proc = table]
      BY DEF WakeUp
    <2>2. \A q \in Slots : table[q].state = IF q \in ToSet(woken) THEN "READY"
                                             ELSE k.proc[q].state
      <3> SUFFICES ASSUME NEW q \in Slots
                   PROVE  table[q].state = IF q \in ToSet(woken) THEN "READY"
                                           ELSE k.proc[q].state
        OBVIOUS
      <3>1. k.proc[q] \in ProcessOK
        BY <1>1, StateAfter
      <3> HIDE DEF woken
      <3> QED
        BY <3>1 DEF ProcessOK
    <2> HIDE DEF table, woken, called, kk
    <2> QED
      BY <1>1, <2>1, <2>2, Sets DEF KRecord
  <1> HIDE DEF kk, woken, resting
  <1>11. ASSUME NEW q \in Users, q \in X
         PROVE  Held(kk, q) /\ Untouched(k, kk, q)
    <2>1. Held(k, q)
      BY <1>1, <1>11 DEF Calm
    <2>2. ~ Contains(woken, q)
      BY <1>4, <1>5, <2>1 DEF Held
    <2> QED
      BY <1>6, <1>8, <1>9, <1>10, <2>1, <2>2 DEF Held, Untouched
  <1>12. ASSUME NEW q \in Users, q \notin X
         PROVE  Listed(kk, q) /\ Woken(k, kk, q)
    <2>1. Listed(k, q)
      BY <1>1, <1>12 DEF Calm
    <2>2. Contains(woken, q) <=> k.proc[q].state = "SLEEP" /\ q \in called
      BY <1>3, <1>4, <1>5, <2>1 DEF Listed
    <2>3. CASE Contains(woken, q)
      BY <1>6, <1>8, <1>9, <1>10, <2>1, <2>2, <2>3 DEF Listed, Woken
    <2>4. CASE ~ Contains(woken, q)
      BY <1>6, <1>8, <1>9, <1>10, <2>1, <2>2, <2>4 DEF Listed, Woken
    <2> QED
      BY <2>3, <2>4
  <1>13. kk \in Mild(k, X)
    BY <1>2, <1>11, <1>12 DEF Mild, Calm
  <1> QED
    BY <1>13, MildTrans DEF kk

-----------------------------------------------------------------------------
(***************************************************************************)
(* Functions that change neither a list nor a state.                       *)
(***************************************************************************)
LEMMA StillSelf ==
  ASSUME NEW k0, NEW k \in Still(k0)
  PROVE  k \in Near(k0) /\ k \in KState /\ k \in KRecord
  BY StateFacts DEF Still

LEMMA QuietProcess ==
  ASSUME NEW k0, NEW k \in Still(k0), NEW p \in Slots, NEW r \in ProcessOK,
         p = Idle => r.proxied = <<>>, r.state = k.proc[p].state
  PROVE  [k EXCEPT !.proc[p] = r] \in Still(k0)
  <1>1. [k EXCEPT !.proc[p] = r] \in Near(k0)
    BY StillSelf, SetProcess
  <1> QED
    BY <1>1, StillSelf DEF Still, KRecord

\* A change of another field leaves the state of the process alone.
LEMMA FieldSteady ==
  ASSUME NEW r \in ProcessOK, NEW v
  PROVE  /\ [r EXCEPT !.ppid = v].state = r.state
         /\ [r EXCEPT !.wpid = v].state = r.state
         /\ [r EXCEPT !.daemon = v].state = r.state
         /\ [r EXCEPT !.jobs = v].state = r.state
         /\ [r EXCEPT !.job = v].state = r.state
         /\ [r EXCEPT !.event = v].state = r.state
         /\ [r EXCEPT !.signals = v].state = r.state
         /\ [r EXCEPT !.handlers = v].state = r.state
         /\ [r EXCEPT !.call = v].state = r.state
         /\ [r EXCEPT !.inKernel = v].state = r.state
         /\ [r EXCEPT !.left = v].state = r.state
         /\ [r EXCEPT !.proxied = v].state = r.state
  BY DEF ProcessOK

LEMMA QuietField ==
  ASSUME NEW k0, NEW k \in Still(k0), NEW p \in Slots
  PROVE  /\ \A v \in 0 .. MaxPid : [k EXCEPT !.proc[p].ppid = v] \in Still(k0)
         /\ \A v \in -1 .. MaxPid : [k EXCEPT !.proc[p].wpid = v] \in Still(k0)
         /\ \A v \in BOOLEAN : [k EXCEPT !.proc[p].daemon = v] \in Still(k0)
         /\ \A v \in Nat : [k EXCEPT !.proc[p].jobs = v] \in Still(k0)
         /\ \A v \in Nat : [k EXCEPT !.proc[p].job = v] \in Still(k0)
         /\ \A v \in NONE .. MaxPid : [k EXCEPT !.proc[p].event = v] \in Still(k0)
         /\ \A v \in SignalSet : [k EXCEPT !.proc[p].signals = v] \in Still(k0)
         /\ \A v \in [Known -> {"NULL", "DEFAULT", "USER"}] : [k EXCEPT !.proc[p].handlers = v] \in Still(k0)
         /\ \A v \in CallOK : [k EXCEPT !.proc[p].call = v] \in Still(k0)
         /\ \A v \in BOOLEAN : [k EXCEPT !.proc[p].inKernel = v] \in Still(k0)
         /\ \A v \in 0 .. MaxSleep : [k EXCEPT !.proc[p].left = v] \in Still(k0)
         /\ p # Idle => \A v \in Seq(CallOK) : [k EXCEPT !.proc[p].proxied = v] \in Still(k0)
  <1>1. k.proc[p] \in ProcessOK /\ (p = Idle => k.proc[p].proxied = <<>>)
    BY StillSelf, StateFacts
  <1>2. \A r \in ProcessOK : (p = Idle => r.proxied = <<>>) /\ r.state = k.proc[p].state
                                => [k EXCEPT !.proc[p] = r] \in Still(k0)
    BY QuietProcess
  <1>3. ASSUME NEW v \in 0 .. MaxPid
        PROVE  [k EXCEPT !.proc[p].ppid = v] \in Still(k0)
    <2>1. [k.proc[p] EXCEPT !.ppid = v] \in ProcessOK
      BY <1>1, FieldFacts
    <2>2. /\ [k.proc[p] EXCEPT !.ppid = v].proxied = k.proc[p].proxied
          /\ [k.proc[p] EXCEPT !.ppid = v].state = k.proc[p].state
      BY <1>1, FieldKept, FieldSteady
    <2> QED
      BY <1>1, <1>2, <2>1, <2>2
  <1>4. ASSUME NEW v \in -1 .. MaxPid
        PROVE  [k EXCEPT !.proc[p].wpid = v] \in Still(k0)
    <2>1. [k.proc[p] EXCEPT !.wpid = v] \in ProcessOK
      BY <1>1, FieldFacts
    <2>2. /\ [k.proc[p] EXCEPT !.wpid = v].proxied = k.proc[p].proxied
          /\ [k.proc[p] EXCEPT !.wpid = v].state = k.proc[p].state
      BY <1>1, FieldKept, FieldSteady
    <2> QED
      BY <1>1, <1>2, <2>1, <2>2
  <1>5. ASSUME NEW v \in BOOLEAN
        PROVE  [k EXCEPT !.proc[p].daemon = v] \in Still(k0)
    <2>1. [k.proc[p] EXCEPT !.daemon = v] \in ProcessOK
      BY <1>1, FieldFacts
    <2>2. /\ [k.proc[p] EXCEPT !.daemon = v].proxied = k.proc[p].proxied
          /\ [k.proc[p] EXCEPT !.daemon = v].state = k.proc[p].state
      BY <1>1, FieldKept, FieldSteady
    <2> QED
      BY <1>1, <1>2, <2>1, <2>2
  <1>6. ASSUME NEW v \in Nat
        PROVE  [k EXCEPT !.proc[p].jobs = v] \in Still(k0)
    <2>1. [k.proc[p] EXCEPT !.jobs = v] \in ProcessOK
      BY <1>1, FieldFacts
    <2>2. /\ [k.proc[p] EXCEPT !.jobs = v].proxied = k.proc[p].proxied
          /\ [k.proc[p] EXCEPT !.jobs = v].state = k.proc[p].state
      BY <1>1, FieldKept, FieldSteady
    <2> QED
      BY <1>1, <1>2, <2>1, <2>2
  <1>7. ASSUME NEW v \in Nat
        PROVE  [k EXCEPT !.proc[p].job = v] \in Still(k0)
    <2>1. [k.proc[p] EXCEPT !.job = v] \in ProcessOK
      BY <1>1, FieldFacts
    <2>2. /\ [k.proc[p] EXCEPT !.job = v].proxied = k.proc[p].proxied
          /\ [k.proc[p] EXCEPT !.job = v].state = k.proc[p].state
      BY <1>1, FieldKept, FieldSteady
    <2> QED
      BY <1>1, <1>2, <2>1, <2>2
  <1>8. ASSUME NEW v \in NONE .. MaxPid
        PROVE  [k EXCEPT !.proc[p].event = v] \in Still(k0)
    <2>1. [k.proc[p] EXCEPT !.event = v] \in ProcessOK
      BY <1>1, FieldFacts
    <2>2. /\ [k.proc[p] EXCEPT !.event = v].proxied = k.proc[p].proxied
          /\ [k.proc[p] EXCEPT !.event = v].state = k.proc[p].state
      BY <1>1, FieldKept, FieldSteady
    <2> QED
      BY <1>1, <1>2, <2>1, <2>2
  <1>9. ASSUME NEW v \in SignalSet
        PROVE  [k EXCEPT !.proc[p].signals = v] \in Still(k0)
    <2>1. [k.proc[p] EXCEPT !.signals = v] \in ProcessOK
      BY <1>1, FieldFacts
    <2>2. /\ [k.proc[p] EXCEPT !.signals = v].proxied = k.proc[p].proxied
          /\ [k.proc[p] EXCEPT !.signals = v].state = k.proc[p].state
      BY <1>1, FieldKept, FieldSteady
    <2> QED
      BY <1>1, <1>2, <2>1, <2>2
  <1>10. ASSUME NEW v \in [Known -> {"NULL", "DEFAULT", "USER"}]
        PROVE  [k EXCEPT !.proc[p].handlers = v] \in Still(k0)
    <2>1. [k.proc[p] EXCEPT !.handlers = v] \in ProcessOK
      BY <1>1, FieldFacts
    <2>2. /\ [k.proc[p] EXCEPT !.handlers = v].proxied = k.proc[p].proxied
          /\ [k.proc[p] EXCEPT !.handlers = v].state = k.proc[p].state
      BY <1>1, FieldKept, FieldSteady
    <2> QED
      BY <1>1, <1>2, <2>1, <2>2
  <1>11. ASSUME NEW v \in CallOK
        PROVE  [k EXCEPT !.proc[p].call = v] \in Still(k0)
    <2>1. [k.proc[p] EXCEPT !.call = v] \in ProcessOK
      BY <1>1, FieldFacts
    <2>2. /\ [k.proc[p] EXCEPT !.call = v].proxied = k.proc[p].proxied
          /\ [k.proc[p] EXCEPT !.call = v].state = k.proc[p].state
      BY <1>1, FieldKept, FieldSteady
    <2> QED
      BY <1>1, <1>2, <2>1, <2>2
  <1>12. ASSUME NEW v \in BOOLEAN
        PROVE  [k EXCEPT !.proc[p].inKernel = v] \in Still(k0)
    <2>1. [k.proc[p] EXCEPT !.inKernel = v] \in ProcessOK
      BY <1>1, FieldFacts
    <2>2. /\ [k.proc[p] EXCEPT !.inKernel = v].proxied = k.proc[p].proxied
          /\ [k.proc[p] EXCEPT !.inKernel = v].state = k.proc[p].state
      BY <1>1, FieldKept, FieldSteady
    <2> QED
      BY <1>1, <1>2, <2>1, <2>2
  <1>13. ASSUME NEW v \in 0 .. MaxSleep
        PROVE  [k EXCEPT !.proc[p].left = v] \in Still(k0)
    <2>1. [k.proc[p] EXCEPT !.left = v] \in ProcessOK
      BY <1>1, FieldFacts
    <2>2. /\ [k.proc[p] EXCEPT !.left = v].proxied = k.proc[p].proxied
          /\ [k.proc[p] EXCEPT !.left = v].state = k.proc[p].state
      BY <1>1, FieldKept, FieldSteady
    <2> QED
      BY <1>1, <1>2, <2>1, <2>2
  <1>14. ASSUME NEW v \in Seq(CallOK), p # Idle
        PROVE  [k EXCEPT !.proc[p].proxied = v] \in Still(k0)
    <2>1. [k.proc[p] EXCEPT !.proxied = v] \in ProcessOK
      BY <1>1, FieldFacts
    <2>2. [k.proc[p] EXCEPT !.proxied = v].state = k.proc[p].state
      BY <1>1, FieldSteady
    <2> QED
      BY <1>2, <1>14, <2>1, <2>2
  <1> QED
    BY <1>3, <1>4, <1>5, <1>6, <1>7, <1>8, <1>9, <1>10, <1>11, <1>12, <1>13, <1>14

LEMMA QuietForeground ==
  ASSUME NEW k0, NEW k \in Still(k0), NEW f \in Users \cup {NULL}
  PROVE  [k EXCEPT !.fg = f] \in Still(k0)
  <1>1. [k EXCEPT !.fg = f] \in Near(k0)
    BY StillSelf, EmptyQueue, SetList
  <1> QED
    BY <1>1, StillSelf DEF Still, KRecord

LEMMA NotifyStill ==
  ASSUME NEW k0, NEW k \in Still(k0), NEW parent \in Users \cup {NULL}
  PROVE  Notify(k, parent) \in Still(k0)
  <1>1. CASE parent = NULL
    BY <1>1 DEF Notify
  <1>2. CASE parent # NULL
    <2> DEFINE v == k.proc[parent].signals \cup {SIGCHLD}
    <2>1. parent \in Slots /\ k.proc[parent] \in ProcessOK
      BY <1>2, Sets, StillSelf, StateFacts
    <2>2. v \in SignalSet
      BY <2>1, ProcessFacts, SignalFacts
    <2>3. [k EXCEPT !.proc[parent].signals = v] \in Still(k0)
      BY <2>1, <2>2, QuietField
    <2> QED
      BY <1>2, <2>3 DEF Notify
  <1> QED
    BY <1>1, <1>2

LEMMA HandOverStill ==
  ASSUME NEW k0, NEW k \in Still(k0), NEW p, NEW parent \in Users \cup {NULL}
  PROVE  HandOver(k, p, parent) \in Still(k0) /\ Yield(k, p) \in Still(k0)
  BY QuietForeground, Sets DEF HandOver, Yield

LEMMA QuietTable ==
  ASSUME NEW k0, NEW k \in Still(k0), NEW t \in [Slots -> ProcessOK],
         t[Idle].proxied = <<>>, \A q \in Slots : t[q].state = k.proc[q].state
  PROVE  [k EXCEPT !.proc = t] \in Still(k0)
  <1>1. [k EXCEPT !.proc = t] \in Near(k0)
    BY StillSelf, SetTable
  <1> QED
    BY <1>1, StillSelf DEF Still, KRecord

LEMMA InformOfStopStill ==
  ASSUME NEW k0, NEW k \in Still(k0), NEW p \in Users, NEW parent \in Users \cup {NULL}
  PROVE  InformOfStop(k, p, parent) \in Still(k0)
  <1>1. CASE parent = NULL
    BY <1>1 DEF InformOfStop
  <1>2. CASE parent # NULL
    <2> DEFINE noted == Notify(k, parent)
               told  == [noted EXCEPT !.proc[parent].wpid = k.proc[p].pid]
               r     == [told EXCEPT !.proc[parent].jobs = told.proc[parent].jobs + 1]
    <2>1. p \in Slots /\ parent \in Slots /\ k.proc[p] \in ProcessOK /\ k.proc[parent] \in ProcessOK
      BY <1>2, StillSelf, StateFacts, Sets
    <2>2. k.proc[p].pid \in -1 .. MaxPid /\ k.proc[parent].jobs + 1 \in Nat
      BY <2>1, ProcessFacts, EventFacts
    <2>3. InformOfStop(k, p, parent) = IF k.proc[p].job # 0 THEN told
                                       ELSE [r EXCEPT !.proc[p].job = k.proc[parent].jobs + 1]
      <3>1. CASE k.proc[p].job # 0
        BY <1>2, <3>1 DEF InformOfStop
      <3>2. CASE k.proc[p].job = 0
        BY <1>2, <3>2 DEF InformOfStop
      <3> QED
        BY <3>1, <3>2
    <2>4. noted \in Still(k0)
      BY <1>2, NotifyStill
    <2> HIDE DEF noted
    <2>5. told \in Still(k0)
      BY <2>1, <2>2, <2>4, QuietField
    <2> HIDE DEF told
    <2>6. r \in Still(k0)
      <3>1. told.proc[parent].jobs \in Nat
        BY <2>1, <2>5, StillSelf, StateFacts, ProcessFacts
      <3>2. \A v \in Nat : [told EXCEPT !.proc[parent].jobs = v] \in Still(k0)
        BY <2>1, <2>5, QuietField
      <3> QED
        BY <3>1, <3>2
    <2> HIDE DEF r
    <2>7. [r EXCEPT !.proc[p].job = k.proc[parent].jobs + 1] \in Still(k0)
      BY <2>1, <2>2, <2>6, QuietField
    <2> QED
      BY <2>3, <2>5, <2>7
  <1> QED
    BY <1>1, <1>2

LEMMA FosterStill ==
  ASSUME NEW k0, NEW k \in Still(k0)
  PROVE  Foster(k) \in Still(k0)
  <1> DEFINE abandoned(z) ==
               LET parent == Lookup(k, k.proc[z].ppid)
               IN  \/ parent = NULL
                   \/ /\ k.proc[parent].wpid >= 0
                      /\ k.proc[parent].wpid # k.proc[z].pid
             taken(p) == Contains(k.zombies, p) /\ k.proc[p].ppid # 1 /\ abandoned(p)
             t == [p \in Slots |-> IF taken(p) THEN [k.proc[p] EXCEPT !.ppid = 1] ELSE k.proc[p]]
  <1>1. Foster(k) = [k EXCEPT !.proc = t]
    BY DEF Foster
  <1> HIDE DEF taken
  <1>2. k.proc \in [Slots -> ProcessOK] /\ k.proc[Idle].proxied = <<>>
    BY StillSelf, StateFacts
  <1>3. ASSUME NEW p \in Slots
        PROVE  /\ [k.proc[p] EXCEPT !.ppid = 1] \in ProcessOK
               /\ [k.proc[p] EXCEPT !.ppid = 1].proxied = k.proc[p].proxied
               /\ [k.proc[p] EXCEPT !.ppid = 1].state = k.proc[p].state
    <2>1. k.proc[p] \in ProcessOK /\ 1 \in 0 .. MaxPid
      BY <1>2, EventFacts
    <2> QED
      BY <2>1, FieldFacts, FieldKept, FieldSteady
  <1>4. /\ t \in [Slots -> ProcessOK] /\ t[Idle].proxied = <<>>
        /\ \A q \in Slots : t[q].state = k.proc[q].state
    BY <1>2, <1>3, Sets
  <1> HIDE DEF t
  <1>5. [k EXCEPT !.proc = t] \in Still(k0)
    BY <1>4, QuietTable
  <1> QED
    BY <1>1, <1>5

LEMMA EnterStill ==
  ASSUME NEW k0, NEW k \in Still(k0), NEW call \in CallOK
  PROVE  Enter(k, call) \in Still(k0)
  <1> DEFINE c == k.curr
             r == [k EXCEPT !.proc[c].call = call]
  <1>1. Enter(k, call) = [r EXCEPT !.proc[c].inKernel = TRUE]
    BY DEF Enter
  <1>2. c \in Slots
    BY StillSelf, StateFacts
  <1> HIDE DEF c
  <1>3. r \in Still(k0)
    BY <1>2, QuietField
  <1> HIDE DEF r
  <1>4. \A v \in BOOLEAN : [r EXCEPT !.proc[c].inKernel = v] \in Still(k0)
    BY <1>2, <1>3, QuietField
  <1> QED
    BY <1>1, <1>4

LEMMA BackgroundStill ==
  ASSUME NEW k0, NEW k \in Still(k0), NEW p \in Users
  PROVE  Background(k, p) \in Still(k0)
  <1> DEFINE parent == LookupLive(k, k.proc[p].ppid)
             y      == Yield(k, p)
             daemon == [y EXCEPT !.proc[p].daemon = TRUE]
             r      == [daemon EXCEPT !.proc[parent].jobs = daemon.proc[parent].jobs + 1]
  <1>1. Background(k, p) = IF parent = NULL THEN daemon
                           ELSE [r EXCEPT !.proc[p].job = k.proc[parent].jobs + 1]
    BY DEF Background
  <1>2. parent \in Users \cup {NULL} /\ p \in Slots
    BY LookupLiveFacts, Sets
  <1> HIDE DEF parent
  <1>3. y \in Still(k0)
    BY HandOverStill
  <1> HIDE DEF y
  <1>4. \A v \in BOOLEAN : [y EXCEPT !.proc[p].daemon = v] \in Still(k0)
    BY <1>2, <1>3, QuietField
  <1>5. daemon \in Still(k0)
    BY <1>4
  <1> HIDE DEF daemon
  <1>6. ASSUME parent # NULL
        PROVE  [r EXCEPT !.proc[p].job = k.proc[parent].jobs + 1] \in Still(k0)
    <2>1. parent \in Slots
      BY <1>2, <1>6, Sets
    <2>2. daemon.proc[parent].jobs \in Nat /\ k.proc[parent].jobs \in Nat
      BY <1>5, <2>1, StillSelf, StateFacts, ProcessFacts
    <2>3. \A v \in Nat : [daemon EXCEPT !.proc[parent].jobs = v] \in Still(k0)
      BY <1>5, <2>1, QuietField
    <2>4. r \in Still(k0)
      BY <2>2, <2>3
    <2> HIDE DEF r
    <2>5. \A v \in Nat : [r EXCEPT !.proc[p].job = v] \in Still(k0)
      BY <1>2, <2>4, QuietField
    <2> QED
      BY <2>2, <2>5
  <1> QED
    BY <1>1, <1>5, <1>6

LEMMA InitHandlersStill ==
  ASSUME NEW k0, NEW k \in Still(k0), NEW p \in Users
  PROVE  [InitHandlers(k, p) EXCEPT !.proc[p].proxied = <<>>] \in Still(k0)
  <1> DEFINE r1 == [k EXCEPT !.proc[p].signals = {}]
             r2 == [r1 EXCEPT !.proc[p].handlers = DefHandlers]
  <1>1. InitHandlers(k, p) = r2
    BY DEF InitHandlers
  <1>2. p \in Slots /\ p # Idle /\ {} \in SignalSet /\ <<>> \in Seq(CallOK)
    BY Sets DEF SignalSet
  <1>3. r1 \in Still(k0)
    BY <1>2, QuietField
  <1> HIDE DEF r1
  <1>4. r2 \in Still(k0)
    BY <1>2, <1>3, QuietField, BlankType
  <1> HIDE DEF r2
  <1> QED
    BY <1>1, <1>2, <1>4, QuietField

LEMMA MoveToBackStill ==
  ASSUME NEW k0, NEW k \in Still(k0), NEW p \in Users
  PROVE  MoveToBack(k, p) \in Still(k0)
  <1> DEFINE d  == [k EXCEPT !.proc[p].daemon = TRUE]
             ev == IF d.proc[p].event \in {KEYBOARD_INPUT, FG_PAUSED} THEN DAEMON_INPUT
                   ELSE d.proc[p].event
             e  == [d EXCEPT !.proc[p].event = ev]
  <1>1. MoveToBack(k, p) = IF k.proc[p].state # "STOPPED" THEN k ELSE e
    <2>1. e = [k EXCEPT !.proc[p].daemon = TRUE,
                        !.proc[p].event = IF @ \in {KEYBOARD_INPUT, FG_PAUSED} THEN DAEMON_INPUT ELSE @]
      OBVIOUS
    <2> QED
      BY <2>1 DEF MoveToBack
  <1>2. p \in Slots
    BY Sets
  <1>3. \A v \in BOOLEAN : [k EXCEPT !.proc[p].daemon = v] \in Still(k0)
    BY <1>2, QuietField
  <1>4. d \in Still(k0)
    BY <1>3
  <1> HIDE DEF d
  <1>5. ev \in NONE .. MaxPid
    BY <1>2, <1>4, StillSelf, StateFacts, ProcessFacts, EventFacts
  <1> HIDE DEF ev
  <1>6. e \in Still(k0)
    BY <1>2, <1>4, <1>5, QuietField
  <1> QED
    BY <1>1, <1>6

LEMMA SwitchParentStill ==
  ASSUME NEW k0, NEW k \in Still(k0), NEW old, NEW new \in 0 .. MaxPid, NEW transferJobs
  PROVE  SwitchParent(k, old, new, transferJobs) \in Still(k0)
  <1> DEFINE parent == LookupLive(k, new)
  <1>1. parent \in Users \cup {NULL}
    BY LookupLiveFacts
  <1> HIDE DEF parent
  <1>2. ASSUME parent # NULL, NEW kk \in Still(k0), NEW c \in Children(k, old)
        PROVE  Adopted(kk, c, new, transferJobs, parent) \in Still(k0)
    <2> DEFINE moved == [kk EXCEPT !.proc[c].ppid = new]
               r1    == [moved EXCEPT !.proc[parent].jobs = moved.proc[parent].jobs + 1]
               r2    == [r1 EXCEPT !.proc[c].job = kk.proc[parent].jobs + 1]
    <2>1. c \in Slots /\ parent \in Slots
      BY <1>1, <1>2, Sets DEF Children
    <2>2. moved \in Still(k0)
      BY <2>1, QuietField
    <2>3. moved.proc[parent].jobs + 1 \in Nat /\ kk.proc[parent].jobs + 1 \in Nat
      <3>1. moved.proc[parent] \in ProcessOK /\ kk.proc[parent] \in ProcessOK
        BY <2>1, <2>2, StillSelf, StateFacts
      <3> HIDE DEF moved
      <3>2. moved.proc[parent].jobs \in Nat /\ kk.proc[parent].jobs \in Nat
        BY <3>1, ProcessFacts
      <3> QED
        BY <3>2
    <2>4. Adopted(kk, c, new, transferJobs, parent) \in {moved, r2}
      BY DEF Adopted
    <2> HIDE DEF moved
    <2>5. r1 \in Still(k0)
      BY <2>1, <2>2, <2>3, QuietField
    <2> HIDE DEF r1
    <2>6. r2 \in Still(k0)
      BY <2>1, <2>3, <2>5, QuietField
    <2> QED
      BY <2>2, <2>4, <2>6
  <1> QED
    BY <1>2, SwitchParentLoop DEF parent

-----------------------------------------------------------------------------
(***************************************************************************)
(* A process in transit: p is on no list, and its state is v.  Meanwhile   *)
(* others are woken up, and stopped ones die.                              *)
(***************************************************************************)
Off(k, q) == /\ ~ Contains(k.ready, q) /\ ~ Contains(k.waiting, q)
             /\ ~ Contains(k.suspended, q) /\ ~ Contains(k.zombies, q)

Moved(k, kk, q) == \/ Woken(k, kk, q)
                   \/ k.proc[q].state = "STOPPED" /\ kk.proc[q].state = "KILLED"

Transit(k, p, v) == {kk \in Near(k) : /\ Calm(kk, {p}) /\ Off(kk, p) /\ kk.proc[p].state = v
                                      /\ \A q \in Users \ {p} : Moved(k, kk, q)}

\* p is where it belongs again.
Settled(k, p, v) == {kk \in Near(k) : /\ Calm(kk, {}) /\ kk.proc[p].state = v
                                      /\ \A q \in Users \ {p} : Moved(k, kk, q)}

LEMMA TransitFacts ==
  ASSUME NEW k0, NEW p \in Users, NEW v, NEW k \in Transit(k0, p, v)
  PROVE  /\ k \in Near(k0) /\ k \in KState /\ k \in KRecord /\ Calm(k, {p}) /\ Off(k, p)
         /\ k.proc[p].state = v /\ k \in Mild(k, {p})
  <1>1. k \in Near(k0) /\ Calm(k, {p})
    BY DEF Transit
  <1>2. k \in KState /\ k \in KRecord
    BY <1>1, StateFacts
  <1> QED
    BY <1>1, <1>2, MildStart DEF Transit

LEMMA MildTransit ==
  ASSUME NEW k0, NEW p \in Users, NEW v, NEW k \in Transit(k0, p, v), NEW kk \in Mild(k, {p})
  PROVE  kk \in Transit(k0, p, v)
  <1>1. kk \in Near(k0)
    BY TransitFacts, NearTrans DEF Mild
  <1>2. Calm(kk, {p}) /\ Off(kk, p) /\ kk.proc[p].state = v
    <2>1. Off(k, p) /\ k.proc[p].state = v
      BY DEF Transit
    <2>2. Calm(kk, {p}) /\ Untouched(k, kk, p)
      BY DEF Mild
    <2> QED
      BY <2>1, <2>2 DEF Untouched, Off
  <1>3. \A q \in Users \ {p} : Moved(k0, kk, q)
    BY DEF Mild, Transit, Moved, Woken
  <1> QED
    BY <1>1, <1>2, <1>3 DEF Transit

LEMMA StillTransit ==
  ASSUME NEW k0, NEW p \in Users, NEW v, NEW k \in Transit(k0, p, v), NEW kk \in Still(k)
  PROVE  kk \in Transit(k0, p, v)
  BY TransitFacts, StillMild, MildTransit

LEMMA SettledFacts ==
  ASSUME NEW k0, NEW p \in Users, NEW v, NEW k \in Settled(k0, p, v)
  PROVE  /\ k \in Near(k0) /\ k \in KState /\ k \in KRecord /\ Calm(k, {})
         /\ k.proc[p].state = v /\ k \in Mild(k, {})
  <1>1. k \in Near(k0) /\ Calm(k, {})
    BY DEF Settled
  <1>2. k \in KState /\ k \in KRecord
    BY <1>1, StateFacts
  <1> QED
    BY <1>1, <1>2, MildStart DEF Settled

LEMMA MildSettled ==
  ASSUME NEW k0, NEW p \in Users, NEW v, v # "SLEEP", NEW k \in Settled(k0, p, v),
         NEW kk \in Mild(k, {})
  PROVE  kk \in Settled(k0, p, v)
  <1>1. kk \in Near(k0)
    BY SettledFacts, NearTrans DEF Mild
  <1>2. Calm(kk, {}) /\ kk.proc[p].state = v
    <2>1. k.proc[p].state = v
      BY DEF Settled
    <2>2. Calm(kk, {}) /\ Woken(k, kk, p)
      BY DEF Mild
    <2> QED
      BY <2>1, <2>2 DEF Woken
  <1>3. \A q \in Users \ {p} : Moved(k0, kk, q)
    BY DEF Mild, Settled, Moved, Woken
  <1> QED
    BY <1>1, <1>2, <1>3 DEF Settled

\* The state of the process in transit changes.
LEMMA SetState ==
  ASSUME NEW k0, NEW p \in Users, NEW v, NEW k \in Transit(k0, p, v), NEW w \in States
  PROVE  [k EXCEPT !.proc[p].state = w] \in Transit(k0, p, w)
  <1> DEFINE kk == [k EXCEPT !.proc[p].state = w]
  <1>1. k \in KRecord /\ k \in Near(k0) /\ Calm(k, {p}) /\ Off(k, p)
    BY TransitFacts
  <1>2. kk \in Near(k0)
    BY <1>1, SetField, Sets
  <1>3. /\ kk.ready = k.ready /\ kk.waiting = k.waiting
        /\ kk.suspended = k.suspended /\ kk.zombies = k.zombies
        /\ \A q \in Users : q # p => kk.proc[q].state = k.proc[q].state
    BY <1>1, Sets DEF KRecord
  <1>4. kk.proc[p].state = w
    <2>1. k.proc[p] \in ProcessOK
      BY <1>1, StateAfter, Sets
    <2>2. kk.proc[p] = [k.proc[p] EXCEPT !.state = w]
      BY <1>1, Sets DEF KRecord
    <2> QED
      BY <2>1, <2>2 DEF ProcessOK
  <1> HIDE DEF kk
  <1>5. Calm(kk, {p}) /\ Off(kk, p)
    BY <1>1, <1>3 DEF Calm, Listed, Held, Off
  <1>6. \A q \in Users \ {p} : Moved(k0, kk, q)
    BY <1>3 DEF Transit, Moved, Woken
  <1>7. kk \in Transit(k0, p, w)
    BY <1>2, <1>4, <1>5, <1>6 DEF Transit
  <1> QED
    BY <1>7 DEF kk

\* p is taken off the list it is on.
LEMMA TakeOff ==
  ASSUME NEW k \in KState, NEW p \in Users, Calm(k, {})
  PROVE  LET v == k.proc[p].state
         IN  /\ v = "READY" => [k EXCEPT !.ready = Unlink(k.ready, p)] \in Transit(k, p, v)
             /\ v \notin {"READY", "STOPPED", "KILLED"} =>
                   [k EXCEPT !.waiting = Unlink(k.waiting, p)] \in Transit(k, p, v)
             /\ v = "STOPPED" => [k EXCEPT !.suspended = Unlink(k.suspended, p)] \in Transit(k, p, v)
             /\ v = "KILLED" => [k EXCEPT !.zombies = Unlink(k.zombies, p)] \in Transit(k, p, v)
             /\ v \notin {"READY", "SLEEP", "STOPPED", "KILLED"} => k \in Transit(k, p, v)
  <1> DEFINE v  == k.proc[p].state
             k1 == [k EXCEPT !.ready = Unlink(k.ready, p)]
             k2 == [k EXCEPT !.waiting = Unlink(k.waiting, p)]
             k3 == [k EXCEPT !.suspended = Unlink(k.suspended, p)]
             k4 == [k EXCEPT !.zombies = Unlink(k.zombies, p)]
  <1>1. /\ k \in Near(k) /\ k \in KRecord
        /\ k.ready \in Queue(Users) /\ k.waiting \in Queue(Users)
        /\ k.suspended \in Queue(Users) /\ k.zombies \in Queue(Users)
    BY NearSelf, StateFacts
  <1>2. k1 \in Near(k) /\ k2 \in Near(k) /\ k3 \in Near(k) /\ k4 \in Near(k)
    BY <1>1, QueueTypes
  <1>3. /\ \A q : Contains(Unlink(k.ready, p), q) <=> Contains(k.ready, q) /\ q # p
        /\ \A q : Contains(Unlink(k.waiting, p), q) <=> Contains(k.waiting, q) /\ q # p
        /\ \A q : Contains(Unlink(k.suspended, p), q) <=> Contains(k.suspended, q) /\ q # p
        /\ \A q : Contains(Unlink(k.zombies, p), q) <=> Contains(k.zombies, q) /\ q # p
    BY <1>1, UnlinkFacts
  <1>4. \A q \in Users : Listed(k, q)
    BY DEF Calm
  <1>5. /\ k1.proc = k.proc /\ k1.ready = Unlink(k.ready, p) /\ k1.waiting = k.waiting
        /\ k1.suspended = k.suspended /\ k1.zombies = k.zombies
        /\ k2.proc = k.proc /\ k2.ready = k.ready /\ k2.waiting = Unlink(k.waiting, p)
        /\ k2.suspended = k.suspended /\ k2.zombies = k.zombies
        /\ k3.proc = k.proc /\ k3.ready = k.ready /\ k3.waiting = k.waiting
        /\ k3.suspended = Unlink(k.suspended, p) /\ k3.zombies = k.zombies
        /\ k4.proc = k.proc /\ k4.ready = k.ready /\ k4.waiting = k.waiting
        /\ k4.suspended = k.suspended /\ k4.zombies = Unlink(k.zombies, p)
    BY <1>1 DEF KRecord
  <1> HIDE DEF k1, k2, k3, k4
  <1>6. v = "READY" => k1 \in Transit(k, p, v)
    BY <1>2, <1>3, <1>4, <1>5 DEF Transit, Calm, Listed, Held, Off, Moved, Woken
  <1>7. v \notin {"READY", "STOPPED", "KILLED"} => k2 \in Transit(k, p, v)
    BY <1>2, <1>3, <1>4, <1>5 DEF Transit, Calm, Listed, Held, Off, Moved, Woken
  <1>8. v = "STOPPED" => k3 \in Transit(k, p, v)
    BY <1>2, <1>3, <1>4, <1>5 DEF Transit, Calm, Listed, Held, Off, Moved, Woken
  <1>9. v = "KILLED" => k4 \in Transit(k, p, v)
    BY <1>2, <1>3, <1>4, <1>5 DEF Transit, Calm, Listed, Held, Off, Moved, Woken
  <1>10. v \notin {"READY", "SLEEP", "STOPPED", "KILLED"} => k \in Transit(k, p, v)
    BY <1>1, <1>4 DEF Transit, Calm, Listed, Held, Off, Moved, Woken
  <1> QED
    BY <1>6, <1>7, <1>8, <1>9, <1>10 DEF k1, k2, k3, k4

\* p is put on the list of its state.
LEMMA PutOn ==
  ASSUME NEW k0, NEW p \in Users, NEW v, NEW k \in Transit(k0, p, v)
  PROVE  /\ v = "READY" => [k EXCEPT !.ready = PushBack(k.ready, p)] \in Settled(k0, p, v)
         /\ v = "SLEEP" => [k EXCEPT !.waiting = PushBack(k.waiting, p)] \in Settled(k0, p, v)
         /\ v = "STOPPED" => [k EXCEPT !.suspended = PushBack(k.suspended, p)] \in Settled(k0, p, v)
         /\ v = "KILLED" => [k EXCEPT !.zombies = PushBack(k.zombies, p)] \in Settled(k0, p, v)
         /\ v \notin {"READY", "SLEEP", "STOPPED", "KILLED"} => k \in Settled(k0, p, v)
  <1> DEFINE k1 == [k EXCEPT !.ready = PushBack(k.ready, p)]
             k2 == [k EXCEPT !.waiting = PushBack(k.waiting, p)]
             k3 == [k EXCEPT !.suspended = PushBack(k.suspended, p)]
             k4 == [k EXCEPT !.zombies = PushBack(k.zombies, p)]
  <1>1. /\ k \in Near(k0) /\ k \in KRecord /\ k.proc[p].state = v /\ Off(k, p) /\ Calm(k, {p})
        /\ \A q \in Users \ {p} : Moved(k0, k, q)
    BY TransitFacts DEF Transit
  <1>2. /\ k.ready \in Queue(Users) /\ k.waiting \in Queue(Users)
        /\ k.suspended \in Queue(Users) /\ k.zombies \in Queue(Users)
    BY <1>1, StateFacts
  <1>3. k1 \in Near(k0) /\ k2 \in Near(k0) /\ k3 \in Near(k0) /\ k4 \in Near(k0)
    BY <1>1, QueueTypes
  <1>4. /\ \A q : Contains(PushBack(k.ready, p), q) <=> Contains(k.ready, q) \/ q = p
        /\ \A q : Contains(PushBack(k.waiting, p), q) <=> Contains(k.waiting, q) \/ q = p
        /\ \A q : Contains(PushBack(k.suspended, p), q) <=> Contains(k.suspended, q) \/ q = p
        /\ \A q : Contains(PushBack(k.zombies, p), q) <=> Contains(k.zombies, q) \/ q = p
    BY <1>1, <1>2, PushBackFacts DEF Off
  <1>5. \A q \in Users : q # p => Listed(k, q)
    BY <1>1 DEF Calm
  <1>6. /\ k1.proc = k.proc /\ k1.ready = PushBack(k.ready, p) /\ k1.waiting = k.waiting
        /\ k1.suspended = k.suspended /\ k1.zombies = k.zombies
        /\ k2.proc = k.proc /\ k2.ready = k.ready /\ k2.waiting = PushBack(k.waiting, p)
        /\ k2.suspended = k.suspended /\ k2.zombies = k.zombies
        /\ k3.proc = k.proc /\ k3.ready = k.ready /\ k3.waiting = k.waiting
        /\ k3.suspended = PushBack(k.suspended, p) /\ k3.zombies = k.zombies
        /\ k4.proc = k.proc /\ k4.ready = k.ready /\ k4.waiting = k.waiting
        /\ k4.suspended = k.suspended /\ k4.zombies = PushBack(k.zombies, p)
    BY <1>1 DEF KRecord
  <1> HIDE DEF k1, k2, k3, k4
  <1>7. v = "READY" => k1 \in Settled(k0, p, v)
    BY <1>1, <1>3, <1>4, <1>5, <1>6 DEF Settled, Calm, Listed, Held, Off, Moved, Woken
  <1>8. v = "SLEEP" => k2 \in Settled(k0, p, v)
    BY <1>1, <1>3, <1>4, <1>5, <1>6 DEF Settled, Calm, Listed, Held, Off, Moved, Woken
  <1>9. v = "STOPPED" => k3 \in Settled(k0, p, v)
    BY <1>1, <1>3, <1>4, <1>5, <1>6 DEF Settled, Calm, Listed, Held, Off, Moved, Woken
  <1>10. v = "KILLED" => k4 \in Settled(k0, p, v)
    BY <1>1, <1>3, <1>4, <1>5, <1>6 DEF Settled, Calm, Listed, Held, Off, Moved, Woken
  <1>11. v \notin {"READY", "SLEEP", "STOPPED", "KILLED"} => k \in Settled(k0, p, v)
    BY <1>1, <1>5 DEF Settled, Calm, Listed, Held, Off, Moved, Woken
  <1> QED
    BY <1>7, <1>8, <1>9, <1>10, <1>11 DEF k1, k2, k3, k4

LEMMA DequeueTransit ==
  ASSUME NEW k \in KState, NEW p \in Users, Calm(k, {}),
         k.proc[p].state \notin {"STOPPED", "KILLED"}
  PROVE  Dequeue(k, p) \in Transit(k, p, k.proc[p].state)
  <1> DEFINE k1 == [k EXCEPT !.ready = Unlink(k.ready, p)]
             k2 == [k EXCEPT !.waiting = Unlink(k.waiting, p)]
             v  == k.proc[p].state
  <1>1. Dequeue(k, p) = IF Contains(k.ready, p) THEN k1 ELSE k2
    BY DEF Dequeue
  <1>2. Contains(k.ready, p) <=> v = "READY"
    BY DEF Calm, Listed
  <1>3. /\ v = "READY" => k1 \in Transit(k, p, v)
        /\ v \notin {"READY", "STOPPED", "KILLED"} => k2 \in Transit(k, p, v)
    BY TakeOff
  <1> QED
    BY <1>1, <1>2, <1>3

LEMMA UnpauseMild ==
  ASSUME NEW k0, NEW X \in SUBSET Users, NEW k \in Mild(k0, X), NEW p
  PROVE  Unpause(k, p) \in Mild(k0, X)
  BY WakeUpMild DEF Unpause

\* p gives up the foreground, and whoever was paused goes on.
LEMMA ReleaseTransit ==
  ASSUME NEW k0, NEW p \in Users, NEW v, NEW k \in Transit(k0, p, v),
         NEW parent \in Users \cup {NULL}
  PROVE  Unpause(HandOver(k, p, parent), p) \in Transit(k0, p, v)
  <1> DEFINE h == HandOver(k, p, parent)
  <1>1. k \in Still(k)
    BY TransitFacts, NearSelf
  <1>2. h \in Still(k)
    BY <1>1, HandOverStill
  <1>3. h \in Transit(k0, p, v)
    BY <1>2, StillTransit
  <1> HIDE DEF h
  <1>4. h \in Mild(h, {p})
    BY <1>3, TransitFacts
  <1>5. Unpause(h, p) \in Mild(h, {p})
    BY <1>4, UnpauseMild
  <1>6. Unpause(h, p) \in Transit(k0, p, v)
    BY <1>3, <1>5, MildTransit
  <1> QED
    BY <1>6 DEF h

LEMMA MarkKilledTransit ==
  ASSUME NEW k0, NEW p \in Users, NEW v, NEW k \in Transit(k0, p, v)
  PROVE  MarkKilled(k, p) \in Transit(k0, p, "KILLED")
  <1> DEFINE d   == [k EXCEPT !.proc[p].state = "KILLED"]
             pid == k.proc[p].pid
  <1>1. d \in Transit(k0, p, "KILLED")
    BY SetState DEF States
  <1>2. pid \in NONE .. MaxPid
    <2>1. k.proc[p] \in ProcessOK
      BY TransitFacts, StateAfter, Sets
    <2> QED
      BY <2>1, ProcessFacts, EventFacts
  <1> HIDE DEF d, pid
  <1>3. d \in Still(d)
    BY <1>1, TransitFacts, NearSelf
  <1>4. [d EXCEPT !.proc[p].event = pid] \in Still(d)
    BY <1>2, <1>3, QuietField, Sets
  <1>5. [d EXCEPT !.proc[p].event = pid] \in Transit(k0, p, "KILLED")
    BY <1>1, <1>4, StillTransit
  <1> QED
    BY <1>5 DEF MarkKilled, d, pid

\* exit, for a stopped job j of the process p that is dying.
LEMMA KillJobTransit ==
  ASSUME NEW k0, NEW p \in Users, NEW k \in Transit(k0, p, "KILLED"),
         NEW j \in Users, j # p, k.proc[j].state = "STOPPED"
  PROVE  /\ KillJob(k, j) \in Transit(k0, p, "KILLED")
         /\ \A q \in Users : q # j /\ k.proc[q].state = "STOPPED"
                               => KillJob(k, j).proc[q].state = "STOPPED"
  <1> DEFINE m == MarkKilled(k, j)
             X == {p, j}
             c == KillChildren(m, j, SIGTERM)
             u == [c EXCEPT !.suspended = Unlink(c.suspended, j)]
             r == [u EXCEPT !.zombies = PushBack(u.zombies, j)]
  <1>1. /\ k \in KRecord /\ k \in KState /\ Calm(k, {p}) /\ Off(k, p) /\ k.proc[p].state = "KILLED"
        /\ k \in Near(k0) /\ k \in Near(k)
    BY TransitFacts, NearSelf
  <1>2. m \in Near(k) /\ m \in KState
    BY <1>1, MarkKilledType DEF Near
  <1>3. /\ m.ready = k.ready /\ m.waiting = k.waiting
        /\ m.suspended = k.suspended /\ m.zombies = k.zombies
        /\ \A q \in Users : q # j => m.proc[q].state = k.proc[q].state
    BY <1>1, Sets DEF MarkKilled, KRecord
  <1>4. m.proc[j].state = "KILLED"
    <2>1. k.proc[j] \in ProcessOK
      BY <1>1, StateAfter, Sets
    <2> QED
      BY <1>1, <2>1, Sets DEF MarkKilled, KRecord, ProcessOK
  <1> HIDE DEF m
  <1>5. Listed(k, j) /\ Held(k, p)
    BY <1>1 DEF Calm
  <1>6. Calm(m, X)
    BY <1>1, <1>3, <1>5 DEF Calm, Listed, Held
  <1>7. m \in Mild(m, X)
    BY <1>2, <1>6, MildStart
  <1>8. \A q \in X : q = j \/ m.proc[q].state = "KILLED"
    BY <1>1, <1>3
  <1>9. c \in Mild(m, X)
    BY <1>7, <1>8, KillChildrenMild, Sets
  <1> HIDE DEF c
  <1>10. /\ c \in Near(m) /\ c \in KRecord /\ c.suspended \in Queue(Users) /\ c.zombies \in Queue(Users)
         /\ Calm(c, X) /\ Untouched(m, c, p) /\ Untouched(m, c, j)
         /\ \A q \in Users : q # p /\ q # j => Woken(m, c, q)
    BY <1>9, MildFacts DEF Mild
  <1>11. /\ \A q : Contains(Unlink(c.suspended, j), q) <=> Contains(c.suspended, q) /\ q # j
         /\ Unlink(c.suspended, j) \in Queue(Users)
    BY <1>10, UnlinkFacts
  <1>12. ~ Contains(c.zombies, j)
    BY <1>3, <1>5, <1>10 DEF Untouched, Listed
  <1>13. \A q : Contains(PushBack(c.zombies, j), q) <=> Contains(c.zombies, q) \/ q = j
    BY <1>10, <1>12, PushBackFacts
  <1>14. u \in Near(m)
    BY <1>10, <1>11, SetList, Sets
  <1>15. /\ r.ready = c.ready /\ r.waiting = c.waiting /\ r.proc = c.proc
         /\ r.suspended = Unlink(c.suspended, j) /\ r.zombies = PushBack(c.zombies, j)
    BY <1>10 DEF KRecord
  <1>16. r = KillJob(k, j)
    BY <1>10 DEF KillJob, c, m, KRecord
  <1> HIDE DEF u
  <1>17. r \in Near(k0)
    BY <1>1, <1>16, KillJobType
  <1> HIDE DEF r
  <1>18. Off(r, p) /\ r.proc[p].state = "KILLED"
    BY <1>1, <1>3, <1>10, <1>11, <1>13, <1>15 DEF Untouched, Off
  <1>19. Listed(r, j) /\ r.proc[j].state = "KILLED"
    BY <1>3, <1>4, <1>5, <1>10, <1>11, <1>13, <1>15, <1>1 DEF Untouched, Listed
  <1>20. \A q \in Users : q # p /\ q # j => Listed(r, q) /\ Woken(k, r, q)
    BY <1>3, <1>10, <1>11, <1>13, <1>15 DEF Calm, Listed, Woken
  <1>21. Calm(r, {p})
    BY <1>18, <1>19, <1>20 DEF Calm, Held, Off
  <1>22. \A q \in Users \ {p} : Moved(k0, r, q)
    <2>1. \A q \in Users \ {p} : Moved(k0, k, q)
      BY DEF Transit
    <2> QED
      BY <1>19, <1>20, <2>1 DEF Moved, Woken
  <1> QED
    BY <1>16, <1>17, <1>18, <1>20, <1>21, <1>22 DEF Transit, Woken

-----------------------------------------------------------------------------
(***************************************************************************)
(* What is true after every turn of a loop is true after the loop.         *)
(***************************************************************************)
LEMMA KillJobReaches ==
  ASSUME NEW K, NEW k \in K, NEW X, NEW q \in Seq(X),
         \A kk \in K, x \in X : KillJob(kk, x) \in K,
         NEW P, k \in P[0],
         \A n \in 1 .. Len(q) : \A kk \in K \cap P[n - 1] : KillJob(kk, q[n]) \in P[n]
  PROVE  FoldLeft(KillJob, k, q) \in P[Len(q)]
  <1> DEFINE F == [kk \in K |-> [x \in X |-> KillJob(kk, x)]]
             Eq(f) == f = [s \in SUBSET DOMAIN q |->
                             IF s = {} THEN k ELSE KillJob(f[s \ {Max(s)}], q[Max(s)])]
             h == CHOOSE f : Eq(f)
             R == [n \in 0 .. Len(q) |-> K \cap P[n]]
  <1>1. F \in [K -> [X -> K]]
    OBVIOUS
  <1>2. \A kk \in K, x \in X : F[kk][x] = KillJob(kk, x)
    OBVIOUS
  <1> HIDE DEF F
  <1>3. PICK f : Solves(f, F, k, q) /\ Within(f, q, K, X)
    BY <1>1, LoopTotal
  <1>4. Eq(f)
    BY <1>2, <1>3 DEF Solves, Within
  <1>5. Eq(h)
    BY <1>4, Zenon
  <1>6. FoldLeft(KillJob, k, q) = h[DOMAIN q]
    BY DEF FoldLeft, MapThenFoldSet
  <1> HIDE DEF h
  <1>7. Follows(h, F, k, q, K)
    <2>1. h[{}] = k
      BY <1>5
    <2>2. ASSUME NEW s \in SUBSET DOMAIN q, s # {}, h[s \ {Max(s)}] \in K
          PROVE  h[s] = F[h[s \ {Max(s)}]][q[Max(s)]]
      <3>1. q[Max(s)] \in X
        BY <1>3, <2>2 DEF Within
      <3>2. h[s] = KillJob(h[s \ {Max(s)}], q[Max(s)])
        BY <1>5, <2>2
      <3> QED
        BY <1>2, <2>2, <3>1, <3>2
    <2> QED
      BY <2>1, <2>2 DEF Follows
  <1>8. \A s \in SUBSET DOMAIN q : h[s] \in K
    BY <1>1, <1>7, LoopStays
  <1>9. /\ Len(q) \in Nat /\ DOMAIN q = 1 .. Len(q) /\ \A n \in 1 .. Len(q) : q[n] \in X
        /\ \A n \in 1 .. Len(q) : n - 1 \in 0 .. Len(q) /\ n \in 0 .. Len(q)
    OBVIOUS
  <1>10. h[{}] \in R[0]
    BY <1>7, <1>9 DEF Follows
  <1>11. \A s \in SUBSET DOMAIN q : s # {} => h[s] = F[h[s \ {Max(s)}]][q[Max(s)]]
    BY <1>7, <1>8 DEF Follows
  <1>12. ASSUME NEW n \in 1 .. Len(q), NEW kk \in R[n - 1]
         PROVE  F[kk][q[n]] \in R[n]
    <2>1. kk \in K \cap P[n - 1] /\ q[n] \in X /\ n \in 0 .. Len(q)
      BY <1>9
    <2>2. KillJob(kk, q[n]) \in P[n] /\ KillJob(kk, q[n]) \in K
      BY <2>1
    <2> QED
      BY <1>2, <2>1, <2>2
  <1> HIDE DEF R
  <1>13. h[DOMAIN q] \in R[Len(q)]
    BY <1>10, <1>11, <1>12, LoopReaches
  <1> QED
    BY <1>6, <1>9, <1>13 DEF R

LEMMA DeliverReaches ==
  ASSUME NEW K, NEW k \in K, NEW p0, NEW X, NEW q \in Seq(X),
         \A kk \in K, x \in X : Deliver(kk, p0, x) \in K,
         NEW P, k \in P[0],
         \A n \in 1 .. Len(q) : \A kk \in K \cap P[n - 1] : Deliver(kk, p0, q[n]) \in P[n]
  PROVE  DeliverSeq(k, q, p0) \in P[Len(q)]
  <1> DEFINE F == [kk \in K |-> [x \in X |-> Deliver(kk, p0, x)]]
             Eq(f) == f = [s \in SUBSET DOMAIN q |->
                             IF s = {} THEN k ELSE Deliver(f[s \ {Max(s)}], p0, q[Max(s)])]
             h == CHOOSE f : Eq(f)
             R == [n \in 0 .. Len(q) |-> K \cap P[n]]
  <1>1. F \in [K -> [X -> K]]
    OBVIOUS
  <1>2. \A kk \in K, x \in X : F[kk][x] = Deliver(kk, p0, x)
    OBVIOUS
  <1> HIDE DEF F
  <1>3. PICK f : Solves(f, F, k, q) /\ Within(f, q, K, X)
    BY <1>1, LoopTotal
  <1>4. Eq(f)
    BY <1>2, <1>3 DEF Solves, Within
  <1>5. Eq(h)
    BY <1>4, Zenon
  <1>6. DeliverSeq(k, q, p0) = h[DOMAIN q]
    BY DEF DeliverSeq, FoldLeft, MapThenFoldSet
  <1> HIDE DEF h
  <1>7. Follows(h, F, k, q, K)
    <2>1. h[{}] = k
      BY <1>5
    <2>2. ASSUME NEW s \in SUBSET DOMAIN q, s # {}, h[s \ {Max(s)}] \in K
          PROVE  h[s] = F[h[s \ {Max(s)}]][q[Max(s)]]
      <3>1. q[Max(s)] \in X
        BY <1>3, <2>2 DEF Within
      <3>2. h[s] = Deliver(h[s \ {Max(s)}], p0, q[Max(s)])
        BY <1>5, <2>2
      <3> QED
        BY <1>2, <2>2, <3>1, <3>2
    <2> QED
      BY <2>1, <2>2 DEF Follows
  <1>8. \A s \in SUBSET DOMAIN q : h[s] \in K
    BY <1>1, <1>7, LoopStays
  <1>9. /\ Len(q) \in Nat /\ DOMAIN q = 1 .. Len(q) /\ \A n \in 1 .. Len(q) : q[n] \in X
        /\ \A n \in 1 .. Len(q) : n - 1 \in 0 .. Len(q) /\ n \in 0 .. Len(q)
    OBVIOUS
  <1>10. h[{}] \in R[0]
    BY <1>7, <1>9 DEF Follows
  <1>11. \A s \in SUBSET DOMAIN q : s # {} => h[s] = F[h[s \ {Max(s)}]][q[Max(s)]]
    BY <1>7, <1>8 DEF Follows
  <1>12. ASSUME NEW n \in 1 .. Len(q), NEW kk \in R[n - 1]
         PROVE  F[kk][q[n]] \in R[n]
    <2>1. kk \in K \cap P[n - 1] /\ q[n] \in X /\ n \in 0 .. Len(q)
      BY <1>9
    <2>2. Deliver(kk, p0, q[n]) \in P[n] /\ Deliver(kk, p0, q[n]) \in K
      BY <2>1
    <2> QED
      BY <1>2, <2>1, <2>2
  <1> HIDE DEF R
  <1>13. h[DOMAIN q] \in R[Len(q)]
    BY <1>10, <1>11, <1>12, LoopReaches
  <1> QED
    BY <1>6, <1>9, <1>13 DEF R

-----------------------------------------------------------------------------
(***************************************************************************)
(* exit, and the default handlers.                                         *)
(***************************************************************************)
LEMMA KillJobsTransit ==
  ASSUME NEW k0, NEW p \in Users, NEW k \in Transit(k0, p, "KILLED"), NEW q \in Queue(Users),
         \A j \in Users : Contains(q, j) => j # p /\ k.proc[j].state = "STOPPED"
  PROVE  FoldLeft(KillJob, k, q) \in Transit(k0, p, "KILLED")
  <1> DEFINE P == [n \in 0 .. Len(q) |->
                     {kk \in Transit(k0, p, "KILLED") :
                        \A i \in n + 1 .. Len(q) : kk.proc[q[i]].state = "STOPPED"}]
  <1>1. /\ q \in Seq(Users) /\ Len(q) \in Nat /\ DOMAIN q = 1 .. Len(q)
        /\ \A i, j \in 1 .. Len(q) : q[i] = q[j] => i = j
        /\ \A i \in 1 .. Len(q) : q[i] \in Users /\ Contains(q, q[i])
    BY DEF Queue, NoRepeats, Contains
  <1>2. k \in P[0]
    BY <1>1
  <1>3. k \in Near(k0) /\ \A kk \in Near(k0), x \in Users : KillJob(kk, x) \in Near(k0)
    BY TransitFacts, KillJobType
  <1>4. ASSUME NEW n \in 1 .. Len(q), NEW kk \in Near(k0) \cap P[n - 1]
        PROVE  KillJob(kk, q[n]) \in P[n]
    <2>1. n - 1 \in 0 .. Len(q) /\ n \in 0 .. Len(q) /\ n \in (n - 1) + 1 .. Len(q)
      BY <1>1
    <2>2. /\ kk \in Transit(k0, p, "KILLED") /\ kk.proc[q[n]].state = "STOPPED"
          /\ \A i \in (n - 1) + 1 .. Len(q) : kk.proc[q[i]].state = "STOPPED"
      BY <2>1
    <2>3. q[n] \in Users /\ q[n] # p
      BY <1>1
    <2>4. /\ KillJob(kk, q[n]) \in Transit(k0, p, "KILLED")
          /\ \A j \in Users : j # q[n] /\ kk.proc[j].state = "STOPPED"
                                => KillJob(kk, q[n]).proc[j].state = "STOPPED"
      BY <2>2, <2>3, KillJobTransit
    <2>5. ASSUME NEW i \in n + 1 .. Len(q)
          PROVE  KillJob(kk, q[n]).proc[q[i]].state = "STOPPED"
      <3>1. i \in (n - 1) + 1 .. Len(q) /\ i \in 1 .. Len(q) /\ i # n
        BY <1>1
      <3>2. q[i] \in Users /\ q[i] # q[n] /\ kk.proc[q[i]].state = "STOPPED"
        BY <1>1, <2>2, <3>1
      <3> QED
        BY <2>4, <3>2
    <2> QED
      BY <2>1, <2>4, <2>5
  <1> HIDE DEF P
  <1>5. FoldLeft(KillJob, k, q) \in P[Len(q)]
    BY <1>1, <1>2, <1>3, <1>4, KillJobReaches
  <1> QED
    BY <1>1, <1>5 DEF P

\* exit: p, which is on no list, is dead in the end, and listed as such.
LEMMA ExitProcessSettled ==
  ASSUME NEW k0, NEW p \in Users, NEW v, NEW k \in Transit(k0, p, v)
  PROVE  ExitProcess(k, p) \in Settled(k0, p, "KILLED")
  <1> DEFINE me       == k.proc[p]
             parent   == LookupLive(k, me.ppid)
             marked   == MarkKilled(k, p)
             informed == IF parent # NULL THEN Notify(marked, parent)
                         ELSE [marked EXCEPT !.proc[p].ppid = 1]
             jobs     == {j \in Users : k.proc[j].state = "STOPPED" /\ k.proc[j].ppid = me.pid}
             doomed   == Those(k.suspended, jobs)
             jobless  == FoldLeft(KillJob, informed, doomed)
             orphaned == SwitchParent(jobless, me.pid, 1, TRUE)
             released == Unpause(HandOver(orphaned, p, Lookup(k, me.ppid)), p)
             buried   == [released EXCEPT !.zombies = PushBack(released.zombies, p)]
  <1>1. ExitProcess(k, p) = WakeUp(buried, STATE_CHANGE)
    BY DEF ExitProcess
  <1>2. k \in KRecord /\ Off(k, p) /\ k.suspended \in Queue(Users) /\ me.pid \in 0 .. MaxPid
    <2>1. k \in KRecord /\ Off(k, p) /\ k \in Near(k0)
      BY TransitFacts
    <2>2. k.suspended \in Queue(Users) /\ k.proc[p] \in ProcessOK
      BY <2>1, StateFacts, StateAfter, Sets
    <2> QED
      BY <2>1, <2>2, ProcessFacts
  <1>3. parent \in Users \cup {NULL} /\ Lookup(k, me.ppid) \in Users \cup {NULL}
    BY LookupFacts, LookupLiveFacts
  <1>4. marked \in Transit(k0, p, "KILLED")
    BY MarkKilledTransit
  <1>5. \A j \in Users : j # p => marked.proc[j].state = k.proc[j].state
    BY <1>2, Sets DEF MarkKilled, KRecord
  <1> HIDE DEF marked, parent
  <1>6. informed \in Still(marked)
    <2>1. marked \in Still(marked)
      BY <1>4, TransitFacts, NearSelf
    <2>2. parent # NULL => Notify(marked, parent) \in Still(marked)
      BY <1>3, <2>1, NotifyStill
    <2>3. [marked EXCEPT !.proc[p].ppid = 1] \in Still(marked)
      BY <2>1, QuietField, EventFacts, Sets
    <2> QED
      BY <2>2, <2>3
  <1>7. doomed \in Queue(Users) /\ \A j : Contains(doomed, j) <=> Contains(k.suspended, j) /\ j \in jobs
    BY <1>2, ThoseFacts
  <1>8. \A j \in Users : Contains(doomed, j) => j # p /\ informed.proc[j].state = "STOPPED"
    <2>1. \A j \in Users : informed.proc[j].state = marked.proc[j].state
      BY <1>6, Sets DEF Still
    <2> QED
      BY <1>2, <1>5, <1>7, <2>1 DEF Off
  <1> HIDE DEF informed, doomed
  <1>9. informed \in Transit(k0, p, "KILLED")
    BY <1>4, <1>6, StillTransit
  <1>10. jobless \in Transit(k0, p, "KILLED")
    BY <1>7, <1>8, <1>9, KillJobsTransit
  <1> HIDE DEF jobless
  <1>11. orphaned \in Transit(k0, p, "KILLED")
    <2>1. jobless \in Still(jobless)
      BY <1>10, TransitFacts, NearSelf
    <2>2. orphaned \in Still(jobless)
      BY <2>1, SwitchParentStill, EventFacts
    <2> QED
      BY <1>10, <2>2, StillTransit
  <1> HIDE DEF orphaned
  <1>12. released \in Transit(k0, p, "KILLED")
    BY <1>3, <1>11, ReleaseTransit
  <1> HIDE DEF released
  <1>13. buried \in Settled(k0, p, "KILLED")
    BY <1>12, PutOn
  <1> HIDE DEF buried
  <1>14. WakeUp(buried, STATE_CHANGE) \in Mild(buried, {})
    BY <1>13, SettledFacts, WakeUpMild
  <1> QED
    BY <1>1, <1>13, <1>14, MildSettled

LEMMA TerminateSettled ==
  ASSUME NEW k \in KState, NEW p \in Users, Calm(k, {}),
         k.proc[p].state \notin {"STOPPED", "KILLED"}
  PROVE  Terminate(k, p) \in Settled(k, p, "KILLED")
  BY DequeueTransit, ExitProcessSettled DEF Terminate

LEMMA StillCalm ==
  ASSUME NEW k \in KState, Calm(k, {}), NEW kk \in Still(k)
  PROVE  kk \in KState /\ Calm(kk, {}) /\ \A q \in Users : kk.proc[q].state = k.proc[q].state
  <1>1. k \in Mild(k, {})
    BY MildStart
  <1>2. kk \in Mild(k, {})
    BY <1>1, StillMild
  <1> QED
    BY <1>2, MildFacts, Sets DEF Still

LEMMA StillThenTransit ==
  ASSUME NEW k, NEW kk \in Still(k), NEW p \in Users, NEW v, NEW r \in Transit(kk, p, v)
  PROVE  r \in Transit(k, p, v)
  <1>1. r \in Near(k)
    BY NearTrans DEF Still, Transit
  <1>2. \A q \in Users : kk.proc[q].state = k.proc[q].state
    BY Sets DEF Still
  <1> QED
    BY <1>1, <1>2 DEF Transit, Moved, Woken

LEMMA KillNowSettled ==
  ASSUME NEW k \in KState, NEW p \in Users, Calm(k, {}), Alive(k, p), Unprivileged(k, p)
  PROVE  KillNow(k, p) \in Settled(k, p, "KILLED")
  <1> DEFINE me       == k.proc[p]
             parent   == LookupLive(k, me.ppid)
             informed == Notify(k, parent)
             released == Unpause(HandOver(Dequeue(informed, p), p, Lookup(k, me.ppid)), p)
             removed  == IF me.state = "STOPPED"
                         THEN [informed EXCEPT !.suspended = Unlink(informed.suspended, p)]
                         ELSE released
             switched == SwitchParent(removed, me.pid, 1, FALSE)
             orphaned == KillChildren(switched, p, SIGKILL)
             marked   == MarkKilled(orphaned, p)
             r        == [marked EXCEPT !.proc[p].daemon = FALSE]
             dead     == [r EXCEPT !.zombies = PushBack(r.zombies, p)]
             v        == k.proc[p].state
  <1>1. KillNow(k, p) = WakeUp(dead, STATE_CHANGE)
    BY DEF KillNow
  <1>2. parent \in Users \cup {NULL} /\ Lookup(k, me.ppid) \in Users \cup {NULL}
    BY LookupFacts, LookupLiveFacts
  <1>3. v # "KILLED"
    BY DEF Alive
  <1> HIDE DEF parent
  <1>4. informed \in Still(k)
    BY <1>2, NearSelf, NotifyStill
  <1>5. informed \in KState /\ Calm(informed, {}) /\ informed.proc[p].state = v
    BY <1>4, StillCalm
  <1> HIDE DEF informed
  <1>6. removed \in Transit(informed, p, v)
    <2>1. CASE v = "STOPPED"
      BY <1>5, <2>1, TakeOff
    <2>2. CASE v # "STOPPED"
      <3>1. Dequeue(informed, p) \in Transit(informed, p, v)
        BY <1>3, <1>5, <2>2, DequeueTransit
      <3>2. released \in Transit(informed, p, v)
        BY <1>2, <3>1, ReleaseTransit
      <3> QED
        BY <2>2, <3>2
    <2> QED
      BY <2>1, <2>2
  <1> HIDE DEF removed
  <1>7. removed \in Transit(k, p, v)
    BY <1>4, <1>6, StillThenTransit
  <1>8. switched \in Transit(k, p, v)
    <2>1. removed \in Still(removed)
      BY <1>7, TransitFacts, NearSelf
    <2>2. switched \in Still(removed)
      BY <2>1, SwitchParentStill, EventFacts
    <2> QED
      BY <1>7, <2>2, StillTransit
  <1> HIDE DEF switched
  <1>9. orphaned \in Transit(k, p, v)
    <2>1. switched \in Mild(switched, {p})
      BY <1>8, TransitFacts
    <2>2. orphaned \in Mild(switched, {p})
      BY <2>1, KillChildrenMild, Sets
    <2> QED
      BY <1>8, <2>2, MildTransit
  <1> HIDE DEF orphaned
  <1>10. marked \in Transit(k, p, "KILLED")
    BY <1>9, MarkKilledTransit
  <1> HIDE DEF marked
  <1>11. r \in Transit(k, p, "KILLED")
    <2>1. marked \in Still(marked)
      BY <1>10, TransitFacts, NearSelf
    <2>2. \A b \in BOOLEAN : [marked EXCEPT !.proc[p].daemon = b] \in Still(marked)
      BY <2>1, QuietField, Sets
    <2>3. r \in Still(marked)
      BY <2>2
    <2> QED
      BY <1>10, <2>3, StillTransit
  <1> HIDE DEF r
  <1>12. dead \in Settled(k, p, "KILLED")
    BY <1>11, PutOn
  <1> HIDE DEF dead
  <1>13. WakeUp(dead, STATE_CHANGE) \in Mild(dead, {})
    BY <1>12, SettledFacts, WakeUpMild
  <1> QED
    BY <1>1, <1>12, <1>13, MildSettled

LEMMA StopSettled ==
  ASSUME NEW k \in KState, NEW p \in Users, Calm(k, {}), Unprivileged(k, p),
         k.proc[p].state \notin {"STOPPED", "KILLED"}
  PROVE  Stop(k, p) \in Settled(k, p, "STOPPED")
  <1> DEFINE ppid     == k.proc[p].ppid
             v        == k.proc[p].state
             parent   == LookupLive(k, ppid)
             off      == Dequeue(k, p)
             informed == InformOfStop(off, p, parent)
             released == Unpause(HandOver(informed, p, Lookup(k, ppid)), p)
             r        == [released EXCEPT !.proc[p].state = "STOPPED"]
             stopped  == [r EXCEPT !.suspended = PushBack(r.suspended, p)]
  <1>1. Stop(k, p) = WakeUp(stopped, STATE_CHANGE)
    BY DEF Stop
  <1>2. parent \in Users \cup {NULL} /\ Lookup(k, ppid) \in Users \cup {NULL}
    BY LookupFacts, LookupLiveFacts
  <1> HIDE DEF parent
  <1>3. off \in Transit(k, p, v)
    BY DequeueTransit
  <1> HIDE DEF off
  <1>4. informed \in Transit(k, p, v)
    <2>1. off \in Still(off)
      BY <1>3, TransitFacts, NearSelf
    <2>2. informed \in Still(off)
      BY <1>2, <2>1, InformOfStopStill
    <2> QED
      BY <1>3, <2>2, StillTransit
  <1> HIDE DEF informed
  <1>5. released \in Transit(k, p, v)
    BY <1>2, <1>4, ReleaseTransit
  <1> HIDE DEF released
  <1>6. r \in Transit(k, p, "STOPPED")
    BY <1>5, SetState DEF States
  <1> HIDE DEF r
  <1>7. stopped \in Settled(k, p, "STOPPED")
    BY <1>6, PutOn
  <1> HIDE DEF stopped
  <1>8. WakeUp(stopped, STATE_CHANGE) \in Mild(stopped, {})
    BY <1>7, SettledFacts, WakeUpMild
  <1> QED
    BY <1>1, <1>7, <1>8, MildSettled

\* A process that goes back to sleep.
LEMMA ResleepSettled ==
  ASSUME NEW k \in KState, NEW p \in Users, Calm(k, {}), Resleep(k, p) # k
  PROVE  k.proc[p].state = "READY" /\ Resleep(k, p) \in Settled(k, p, "SLEEP")
  <1> DEFINE r1 == [k EXCEPT !.ready = Unlink(k.ready, p)]
             r2 == [r1 EXCEPT !.proc[p].state = "SLEEP"]
             r3 == [r2 EXCEPT !.waiting = PushBack(r2.waiting, p)]
  <1>1. Contains(k.ready, p) /\ Resleep(k, p) = r3
    BY DEF Resleep
  <1>2. k.proc[p].state = "READY"
    BY <1>1 DEF Calm, Listed
  <1>3. r1 \in Transit(k, p, "READY")
    BY <1>2, TakeOff
  <1> HIDE DEF r1
  <1>4. r2 \in Transit(k, p, "SLEEP")
    BY <1>3, SetState DEF States
  <1> HIDE DEF r2
  <1> QED
    BY <1>1, <1>2, <1>4, PutOn

-----------------------------------------------------------------------------
(***************************************************************************)
(* Acting on signals.  SIGCONT is known to nobody: see OrderlyUse.         *)
(***************************************************************************)
\* No dead process comes back to life, no stopped one goes on, no process comes
\* or goes, and none gets the CPU.
Lawful(k, kk, q) == /\ k.proc[q].state = "KILLED" => kk.proc[q].state = "KILLED"
                    /\ k.proc[q].state = "STOPPED" => kk.proc[q].state \in {"STOPPED", "KILLED"}
                    /\ k.proc[q].state = "UNUSED" <=> kk.proc[q].state = "UNUSED"
                    /\ kk.proc[q].state = "RUNNING" => k.proc[q].state = "RUNNING"

Signalled(k) == {kk \in Near(k) : Calm(kk, {}) /\ \A q \in Users : Lawful(k, kk, q)}

LEMMA SignalledFacts ==
  ASSUME NEW k0, NEW k \in Signalled(k0)
  PROVE  k \in KState /\ k \in KRecord /\ k \in Near(k0) /\ Calm(k, {})
  BY StateFacts DEF Signalled

LEMMA SignalledSelf ==
  ASSUME NEW k \in KState, Calm(k, {})
  PROVE  k \in Signalled(k)
  BY NearSelf DEF Signalled, Lawful

LEMMA SignalledTrans ==
  ASSUME NEW k0, NEW k \in Signalled(k0), NEW kk \in Signalled(k)
  PROVE  kk \in Signalled(k0)
  <1>1. kk \in Near(k0)
    BY NearTrans DEF Signalled
  <1> QED
    BY <1>1 DEF Signalled, Lawful

LEMMA MildSignalled ==
  ASSUME NEW k, NEW kk \in Mild(k, {})
  PROVE  kk \in Signalled(k)
  BY DEF Mild, Signalled, Lawful, Woken

LEMMA StillSignalled ==
  ASSUME NEW k \in KState, Calm(k, {}), NEW kk \in Still(k)
  PROVE  kk \in Signalled(k)
  BY MildStart, StillMild, MildSignalled

LEMMA SettledSignalled ==
  ASSUME NEW k \in KState, NEW p \in Users, NEW v \in {"KILLED", "STOPPED", "SLEEP"},
         k.proc[p].state \notin {"KILLED", "UNUSED"}, k.proc[p].state = "STOPPED" => v # "SLEEP",
         NEW kk \in Settled(k, p, v)
  PROVE  kk \in Signalled(k)
  <1>1. kk \in Near(k) /\ Calm(kk, {}) /\ kk.proc[p].state = v
    BY SettledFacts
  <1>2. \A q \in Users \ {p} : Lawful(k, kk, q)
    BY DEF Settled, Moved, Woken, Lawful
  <1>3. Lawful(k, kk, p)
    BY <1>1 DEF Lawful
  <1> QED
    BY <1>1, <1>2, <1>3 DEF Signalled

LEMMA RedirectStill ==
  ASSUME NEW k \in KState, NEW p \in Users, NEW s \in Known, s # SIGCONT
  PROVE  /\ Redirect(k, p, s) \in Still(k)
         /\ Redirect(k, p, s).proc[p].signals = k.proc[p].signals
  <1> DEFINE a == Append(k.proc[p].proxied, k.proc[p].call)
             r == [k EXCEPT !.proc[p].proxied = a]
             h == [r.proc[p].handlers EXCEPT ![s] = DefHandlers[s]]
  <1>1. Redirect(k, p, s) = [r EXCEPT !.proc[p].handlers = h]
    BY DEF Redirect
  <1>2. p \in Slots /\ p # Idle /\ k \in KRecord /\ k.proc[p] \in ProcessOK /\ k \in Still(k)
    BY NearSelf, StateFacts, StateAfter, Sets
  <1>3. a \in Seq(CallOK)
    <2>1. k.proc[p].proxied \in Seq(CallOK) /\ k.proc[p].call \in CallOK
      BY <1>2, ProcessFacts
    <2> QED
      BY <2>1
  <1> HIDE DEF a
  <1>4. r \in Still(k)
    BY <1>2, <1>3, QuietField
  <1>5. r.proc[p].signals = k.proc[p].signals
    BY <1>2 DEF KRecord, ProcessOK
  <1>6. r.proc[p] \in ProcessOK /\ r \in KRecord
    BY <1>2, <1>4, StillSelf, StateAfter
  <1> HIDE DEF r
  <1>7. h \in [Known -> {"NULL", "DEFAULT", "USER"}]
    <2>1. r.proc[p].handlers \in [Known -> {"NULL", "DEFAULT", "USER"}]
      BY <1>6, ProcessFacts
    <2>2. DefHandlers[s] \in {"NULL", "DEFAULT", "USER"}
      BY BlankType
    <2> QED
      BY <2>1, <2>2
  <1> HIDE DEF h
  <1>8. [r EXCEPT !.proc[p].handlers = h] \in Still(k)
    BY <1>2, <1>4, <1>7, QuietField
  <1>9. [r EXCEPT !.proc[p].handlers = h].proc[p].signals = r.proc[p].signals
    BY <1>2, <1>6 DEF KRecord, ProcessOK
  <1> QED
    BY <1>1, <1>5, <1>8, <1>9

\* The default handlers stop or kill the process, or do nothing.
LEMMA DefaultHandlerSettled ==
  ASSUME NEW k \in KState, NEW p \in Users, Calm(k, {}), Alive(k, p), NEW s \in Known, s # SIGCONT,
         k.proc[p].state = "STOPPED" => s = SIGKILL
  PROVE  \/ DefaultHandler(k, p, s) = k
         \/ DefaultHandler(k, p, s) \in Settled(k, p, "KILLED")
         \/ DefaultHandler(k, p, s) \in Settled(k, p, "STOPPED")
  <1>1. k.proc[p].state # "KILLED"
    BY DEF Alive
  <1>2. CASE s \in {SIGHUP, SIGINT, SIGABRT, SIGTERM}
    <2>1. k.proc[p].state # "STOPPED"
      BY <1>2 DEF SIGHUP, SIGINT, SIGABRT, SIGTERM, SIGKILL
    <2>2. DefaultHandler(k, p, s) = Terminate(k, p)
      BY <1>2 DEF DefaultHandler, SIGHUP, SIGINT, SIGABRT, SIGTERM, SIGKILL, SIGTSTP, SIGSTOP, SIGCONT
    <2> QED
      BY <1>1, <2>1, <2>2, TerminateSettled
  <1>3. CASE s = SIGKILL
    <2>1. DefaultHandler(k, p, s) = KillNow(k, p)
      BY <1>3 DEF DefaultHandler, SIGHUP, SIGINT, SIGABRT, SIGTERM, SIGKILL, SIGTSTP, SIGSTOP, SIGCONT
    <2>2. ~ Unprivileged(k, p) => KillNow(k, p) = k
      BY DEF KillNow
    <2> QED
      BY <2>1, <2>2, KillNowSettled
  <1>4. CASE s \in {SIGTSTP, SIGSTOP}
    <2>1. k.proc[p].state # "STOPPED"
      BY <1>4 DEF SIGTSTP, SIGSTOP, SIGKILL
    <2>2. DefaultHandler(k, p, s) = Stop(k, p)
      BY <1>4 DEF DefaultHandler, SIGHUP, SIGINT, SIGABRT, SIGTERM, SIGKILL, SIGTSTP, SIGSTOP, SIGCONT
    <2>3. ~ Unprivileged(k, p) => Stop(k, p) = k
      BY DEF Stop
    <2> QED
      BY <1>1, <2>1, <2>2, <2>3, StopSettled
  <1>5. CASE s \notin {SIGHUP, SIGINT, SIGABRT, SIGTERM, SIGKILL, SIGTSTP, SIGSTOP}
    BY <1>5 DEF DefaultHandler
  <1> QED
    BY <1>2, <1>3, <1>4, <1>5

LEMMA ClearedStill ==
  ASSUME NEW k \in KState, NEW p \in Users, NEW s
  PROVE  /\ [k EXCEPT !.proc[p].signals = @ \ {s}] \in Still(k)
         /\ [k EXCEPT !.proc[p].signals = @ \ {s}].proc[p].signals = k.proc[p].signals \ {s}
  <1>1. k \in Still(k) /\ k \in KRecord /\ p \in Slots /\ k.proc[p] \in ProcessOK
    BY NearSelf, StateFacts, StateAfter, Sets
  <1>2. k.proc[p].signals \ {s} \in SignalSet
    BY <1>1, ProcessFacts, SignalFacts
  <1>3. [k EXCEPT !.proc[p].signals = k.proc[p].signals \ {s}] \in Still(k)
    BY <1>1, <1>2, QuietField
  <1> QED
    BY <1>1, <1>3 DEF KRecord, ProcessOK

LEMMA ResleepSignals ==
  ASSUME NEW k \in KState, NEW p \in Users
  PROVE  Resleep(k, p).proc[p].signals = k.proc[p].signals
  <1>1. k \in KRecord /\ p \in Slots /\ k.proc[p] \in ProcessOK
    BY NearSelf, StateFacts, StateAfter, Sets
  <1> QED
    BY <1>1 DEF Resleep, KRecord, ProcessOK

\* The process handles no more signals.
Over(k, p) == k.proc[p].state \in {"KILLED", "STOPPED"}

LEMMA DeliverSignalled ==
  ASSUME SIGCONT \notin Known, NEW k \in KState, NEW p \in Users, Calm(k, {}), NEW s \in Known
  PROVE  LET r == Deliver(k, p, s)
         IN  /\ r \in Signalled(k)
             /\ Over(k, p) => Over(r, p)
             /\ k.proc[p].state # "UNUSED" =>
                   Over(r, p) \/ r.proc[p].signals \subseteq k.proc[p].signals \ {s}
  <1> DEFINE handler == k.proc[p].handlers[s]
             handled == CASE handler = "USER"    -> Redirect(k, p, s)
                          [] handler = "DEFAULT" -> DefaultHandler(k, p, s)
                          [] OTHER               -> k
             cleared == [handled EXCEPT !.proc[p].signals = @ \ {s}]
             r       == Deliver(k, p, s)
             ignored == \/ s \notin k.proc[p].signals \/ ~ Alive(k, p)
                        \/ k.proc[p].state = "STOPPED" /\ s \notin {SIGKILL, SIGCONT}
  <1>1. s # SIGCONT
    OBVIOUS
  <1>2. r = IF ignored THEN k ELSE IF handler = "USER" THEN cleared ELSE Resleep(cleared, p)
    BY DEF Deliver
  <1>3. CASE ignored
    <2>1. r = k
      BY <1>2, <1>3
    <2> QED
      BY <1>3, <2>1, SignalledSelf DEF Alive, Over
  <1>4. CASE ~ ignored /\ handler = "USER"
    <2>1. handled \in Still(k) /\ handled.proc[p].signals = k.proc[p].signals
      BY <1>1, <1>4, RedirectStill
    <2> HIDE DEF handled
    <2>2. handled \in KState /\ Calm(handled, {}) /\ handled.proc[p].state = k.proc[p].state
      BY <2>1, StillCalm
    <2>3. cleared \in Still(handled) /\ cleared.proc[p].signals = handled.proc[p].signals \ {s}
      BY <2>2, ClearedStill
    <2>4. r = cleared
      BY <1>2, <1>4
    <2> HIDE DEF cleared
    <2>5. cleared \in Still(k)
      BY <2>1, <2>3, StillTrans
    <2>6. cleared \in Signalled(k) /\ cleared.proc[p].state = k.proc[p].state
      BY <2>5, StillSignalled, StillCalm
    <2> QED
      BY <2>1, <2>3, <2>4, <2>6 DEF Over
  <1>5. CASE ~ ignored /\ handler # "USER" /\ handled = k
    <2> HIDE DEF handled
    <2>1. cleared \in Still(k) /\ cleared.proc[p].signals = k.proc[p].signals \ {s}
      BY <1>5, ClearedStill
    <2>2. r = Resleep(cleared, p)
      BY <1>2, <1>5
    <2> HIDE DEF cleared
    <2>3. /\ cleared \in Signalled(k) /\ cleared \in KState /\ Calm(cleared, {})
          /\ cleared.proc[p].state = k.proc[p].state
      BY <2>1, StillSignalled, StillCalm
    <2>4. r.proc[p].signals = k.proc[p].signals \ {s}
      BY <2>1, <2>2, <2>3, ResleepSignals
    <2>5. CASE r = cleared
      BY <2>3, <2>4, <2>5 DEF Over
    <2>6. CASE r # cleared
      <3>1. cleared.proc[p].state = "READY" /\ r \in Settled(cleared, p, "SLEEP")
        BY <2>2, <2>3, <2>6, ResleepSettled
      <3>2. r \in Signalled(cleared)
        BY <2>3, <3>1, SettledSignalled
      <3>3. r \in Signalled(k)
        BY <2>3, <3>2, SignalledTrans
      <3> QED
        BY <2>3, <2>4, <3>1, <3>3 DEF Over
    <2> QED
      BY <2>5, <2>6
  <1>6. ASSUME ~ ignored, handler # "USER", NEW v \in {"KILLED", "STOPPED"},
               handled \in Settled(k, p, v)
        PROVE  r \in Signalled(k) /\ Over(r, p)
    <2>1. r = Resleep(cleared, p)
      BY <1>2, <1>6
    <2>2. k.proc[p].state \notin {"KILLED", "UNUSED"}
      BY <1>6 DEF Alive
    <2> HIDE DEF handled
    <2>3. handled \in KState /\ handled \in Mild(handled, {})
      BY <1>6, SettledFacts
    <2>4. cleared \in Still(handled)
      BY <2>3, ClearedStill
    <2> HIDE DEF cleared
    <2>5. cleared \in Settled(k, p, v)
      BY <1>6, <2>3, <2>4, StillMild, MildSettled
    <2>6. cleared \in KState /\ Calm(cleared, {}) /\ cleared.proc[p].state = v
      BY <2>5 DEF Settled, Near
    <2>7. r = cleared
      BY <1>6, <2>1, <2>6, ResleepSettled
    <2> QED
      BY <1>6, <2>2, <2>5, <2>6, <2>7, SettledSignalled DEF Over
  <1>7. CASE ~ ignored /\ handler # "USER" /\ handled # k
    <2>1. handler = "DEFAULT" /\ handled = DefaultHandler(k, p, s)
      BY <1>7
    <2>2. Alive(k, p) /\ (k.proc[p].state = "STOPPED" => s = SIGKILL)
      BY <1>1, <1>7
    <2>3. handled \in Settled(k, p, "KILLED") \/ handled \in Settled(k, p, "STOPPED")
      BY <1>1, <1>7, <2>1, <2>2, DefaultHandlerSettled
    <2> HIDE DEF handled
    <2> QED
      BY <1>6, <1>7, <2>3
  <1> QED
    BY <1>3, <1>4, <1>5, <1>7

\* All pending signals: in the end the process is dead or stopped, or none is left.
LEMMA CheckPendingSignalled ==
  ASSUME SIGCONT \notin Known, NEW k \in KState, NEW p \in Users, Calm(k, {})
  PROVE  LET r == CheckPendingSignals(k, p)
         IN  /\ r \in Signalled(k)
             /\ k.proc[p].state # "UNUSED" => Over(r, p) \/ r.proc[p].signals = {}
  <1> DEFINE q == SignalOrder
             P == [n \in 0 .. Len(q) |->
                     {kk \in Signalled(k) :
                        k.proc[p].state # "UNUSED" =>
                           Over(kk, p) \/ \A i \in 1 .. n : q[i] \notin kk.proc[p].signals}]
             d == DeliverSeq(k, q, p)
  <1>1. CheckPendingSignals(k, p) = IF k.proc[p].signals = {} THEN k ELSE d
    BY DEF CheckPendingSignals, DeliverSeq, FoldLeft, MapThenFoldSet
  <1>2. k \in Signalled(k)
    BY SignalledSelf
  <1>3. /\ q \in Seq(Known) /\ Len(q) \in Nat
        /\ \A s \in Known : \E i \in 1 .. Len(q) : q[i] = s
    BY SignalOrderFacts DEF Queue, Contains
  <1> HIDE DEF q
  <1>4. k \in Near(k) /\ \A kk \in Near(k), s \in Known : Deliver(kk, p, s) \in Near(k)
    BY NearSelf, DeliverType
  <1>5. k \in P[0]
    BY <1>2, <1>3
  <1>6. ASSUME NEW n \in 1 .. Len(q), NEW kk \in Near(k) \cap P[n - 1]
        PROVE  Deliver(kk, p, q[n]) \in P[n]
    <2> DEFINE r == Deliver(kk, p, q[n])
    <2>1. n - 1 \in 0 .. Len(q) /\ n \in 0 .. Len(q) /\ q[n] \in Known
      BY <1>3
    <2>2. /\ kk \in Signalled(k)
          /\ k.proc[p].state # "UNUSED" =>
                Over(kk, p) \/ \A i \in 1 .. n - 1 : q[i] \notin kk.proc[p].signals
      BY <2>1
    <2>3. kk \in KState /\ Calm(kk, {}) /\ Lawful(k, kk, p)
      BY <2>2, SignalledFacts DEF Signalled
    <2>4. /\ r \in Signalled(kk) /\ (Over(kk, p) => Over(r, p))
          /\ kk.proc[p].state # "UNUSED" =>
                Over(r, p) \/ r.proc[p].signals \subseteq kk.proc[p].signals \ {q[n]}
      BY <2>1, <2>3, DeliverSignalled
    <2> HIDE DEF r
    <2>5. r \in Signalled(k)
      BY <2>2, <2>4, SignalledTrans
    <2>6. ASSUME k.proc[p].state # "UNUSED", ~ Over(r, p)
          PROVE  \A i \in 1 .. n : q[i] \notin r.proc[p].signals
      <3>1. \A i \in 1 .. n - 1 : q[i] \notin kk.proc[p].signals
        BY <2>2, <2>4, <2>6
      <3>2. r.proc[p].signals \subseteq kk.proc[p].signals \ {q[n]}
        BY <2>3, <2>4, <2>6 DEF Lawful
      <3>3. \A i \in 1 .. n : i = n \/ i \in 1 .. n - 1
        BY <1>3
      <3> QED
        BY <3>1, <3>2, <3>3
    <2>7. r \in P[n]
      BY <2>1, <2>5, <2>6
    <2> QED
      BY <2>7 DEF r
  <1> HIDE DEF P
  <1>7. d \in P[Len(q)]
    BY <1>3, <1>4, <1>5, <1>6, DeliverReaches
  <1>8. /\ d \in Signalled(k)
        /\ k.proc[p].state # "UNUSED" =>
              Over(d, p) \/ \A i \in 1 .. Len(q) : q[i] \notin d.proc[p].signals
    BY <1>3, <1>7 DEF P
  <1> HIDE DEF d
  <1>9. d.proc[p].signals \subseteq Known
    <2>1. d.proc[p] \in ProcessOK
      BY <1>8, SignalledFacts, StateAfter, Sets
    <2> QED
      BY <2>1, ProcessFacts DEF SignalSet
  <1> QED
    BY <1>1, <1>2, <1>3, <1>8, <1>9

-----------------------------------------------------------------------------
(***************************************************************************)
(* The invariant.  Everybody is linked where his state says, and whoever   *)
(* is running has the CPU.                                                 *)
(***************************************************************************)
OutsideScheduler(k) == k.mode \in {"user", "kernel"}

OnCpu(k) == \A q \in Users : k.proc[q].state = "RUNNING" <=> q = k.curr /\ OutsideScheduler(k)

Orderly == {k \in KState : Calm(k, {}) /\ OnCpu(k)}

\* What a step may do to a process: the dead are at most cleaned up, the stopped
\* are at most killed, and whoever gets the CPU has no signal pending.
Proper(k, kk, q) ==
  /\ k.proc[q].state = "KILLED" => kk.proc[q].state \in {"KILLED", "UNUSED"}
  /\ k.proc[q].state = "STOPPED" => kk.proc[q].state \in {"STOPPED", "KILLED"}
  /\ k.proc[q].state # "RUNNING" /\ kk.proc[q].state = "RUNNING" => kk.proc[q].signals = {}

After(k) == {kk \in Orderly : \A q \in Users : Proper(k, kk, q)}

LEMMA OrderlyFacts ==
  ASSUME NEW k \in Orderly
  PROVE  /\ k \in KState /\ k \in KRecord /\ k \in Near(k) /\ k \in Still(k) /\ k \in Mild(k, {})
         /\ Calm(k, {}) /\ OnCpu(k) /\ k \in After(k)
  <1>1. k \in KState /\ Calm(k, {}) /\ OnCpu(k)
    BY DEF Orderly
  <1>2. k \in KRecord /\ k \in Near(k) /\ k \in Still(k) /\ k \in Mild(k, {})
    BY <1>1, NearSelf, StateFacts, MildStart
  <1> QED
    BY <1>1, <1>2 DEF After, Proper

\* Signals posted and processes woken up do no harm.
LEMMA MildAfter ==
  ASSUME NEW k0 \in Orderly, NEW k \in Mild(k0, {})
  PROVE  /\ k \in After(k0) /\ k \in Orderly /\ k.curr = k0.curr /\ k.mode = k0.mode
         /\ \A q \in Users : k.proc[q].state = "RUNNING" <=> k0.proc[q].state = "RUNNING"
  <1>1. k \in KState /\ Calm(k, {}) /\ k.curr = k0.curr /\ k.mode = k0.mode
    BY MildFacts
  <1>2. \A q \in Users : Woken(k0, k, q)
    BY DEF Mild
  <1>3. \A q \in Users : k.proc[q].state = "RUNNING" <=> k0.proc[q].state = "RUNNING"
    BY <1>2 DEF Woken
  <1>4. OnCpu(k)
    BY <1>1, <1>3 DEF Orderly, OnCpu, OutsideScheduler
  <1>5. \A q \in Users : Proper(k0, k, q)
    BY <1>2, <1>3 DEF Proper, Woken
  <1> QED
    BY <1>1, <1>3, <1>4, <1>5 DEF After, Orderly

LEMMA MildThenAfter ==
  ASSUME NEW k0 \in Orderly, NEW k \in Mild(k0, {}), NEW kk \in After(k)
  PROVE  kk \in After(k0)
  <1>1. \A q \in Users : Woken(k0, k, q) /\ Proper(k, kk, q)
    BY DEF Mild, After
  <1>2. \A q \in Users : Proper(k0, kk, q)
    BY <1>1 DEF Woken, Proper
  <1> QED
    BY <1>2 DEF After

LEMMA StillAfter ==
  ASSUME NEW k0 \in Orderly, NEW k \in Still(k0)
  PROVE  /\ k \in After(k0) /\ k \in Orderly /\ k \in Mild(k0, {})
         /\ k.curr = k0.curr /\ k.mode = k0.mode
         /\ \A q \in Users : k.proc[q].state = k0.proc[q].state
  <1>1. k \in Mild(k0, {})
    BY OrderlyFacts, StillMild
  <1> QED
    BY <1>1, MildAfter, Sets DEF Still

\* While the scheduler is at work nobody has the CPU.
LEMMA SignalledAfter ==
  ASSUME NEW k0 \in Orderly, ~ OutsideScheduler(k0), NEW k \in Signalled(k0)
  PROVE  /\ k \in After(k0)
         /\ \A q \in Users : k.proc[q].state # "RUNNING"
  <1>1. k \in KState /\ Calm(k, {}) /\ k.mode = k0.mode /\ \A q \in Users : Lawful(k0, k, q)
    BY StateFacts DEF Signalled
  <1>2. \A q \in Users : k.proc[q].state # "RUNNING"
    BY <1>1 DEF Lawful, Orderly, OnCpu
  <1>3. OnCpu(k)
    BY <1>1, <1>2 DEF OnCpu, OutsideScheduler
  <1>4. \A q \in Users : Proper(k0, k, q)
    BY <1>1, <1>2 DEF Proper, Lawful
  <1> QED
    BY <1>1, <1>2, <1>3, <1>4 DEF After, Orderly

\* The running process is on no list.
LEMMA RunningTransit ==
  ASSUME NEW k \in Orderly, OutsideScheduler(k), k.curr \in Users
  PROVE  k \in Transit(k, k.curr, "RUNNING") /\ k.proc[k.curr].state = "RUNNING"
  <1>1. k.proc[k.curr].state = "RUNNING"
    BY DEF Orderly, OnCpu
  <1> QED
    BY <1>1, OrderlyFacts, TakeOff

\* The running process gives up the CPU, and the scheduler is called.
LEMMA GiveUp ==
  ASSUME NEW k0 \in Orderly, OutsideScheduler(k0), k0.curr \in Users,
         NEW v \in {"READY", "SLEEP", "KILLED"}, NEW k \in Settled(k0, k0.curr, v)
  PROVE  Schedule(k) \in After(k0)
  <1> DEFINE c == k0.curr
             r == Schedule(k)
  <1>1. k \in KState /\ k \in KRecord /\ k \in Near(k0) /\ Calm(k, {}) /\ k.proc[c].state = v
    <2>1. k \in Near(k0) /\ Calm(k, {}) /\ k.proc[c].state = v
      BY DEF Settled
    <2> QED
      BY <2>1, StateFacts
  <1>2. r \in KState
    BY <1>1, ScheduleType DEF Kept
  <1>3. /\ r.proc = k.proc /\ r.ready = k.ready /\ r.waiting = k.waiting
        /\ r.suspended = k.suspended /\ r.zombies = k.zombies
        /\ ~ OutsideScheduler(r)
    BY <1>1 DEF Schedule, KRecord, OutsideScheduler
  <1> HIDE DEF r
  <1>4. Calm(r, {})
    BY <1>1, <1>3 DEF Calm, Listed
  <1>5. \A q \in Users : q # c => k0.proc[q].state # "RUNNING" /\ Moved(k0, k, q)
    BY DEF Orderly, OnCpu, Settled
  <1>6. \A q \in Users : r.proc[q].state # "RUNNING"
    BY <1>1, <1>3, <1>5 DEF Moved, Woken
  <1>7. k0.proc[c].state = "RUNNING"
    BY RunningTransit
  <1>8. \A q \in Users : Proper(k0, r, q)
    BY <1>3, <1>5, <1>6, <1>7 DEF Proper, Moved, Woken
  <1>9. OnCpu(r)
    BY <1>3, <1>6 DEF OnCpu
  <1>10. r \in After(k0)
    BY <1>2, <1>4, <1>8, <1>9 DEF After, Orderly
  <1> QED
    BY <1>10 DEF r

-----------------------------------------------------------------------------
(***************************************************************************)
(* Sleeping, being preempted, and leaving a system call.                   *)
(***************************************************************************)
LEMMA SleepAfter ==
  ASSUME NEW k \in Orderly, OutsideScheduler(k), k.curr \in Users, NEW ev \in NONE .. MaxPid
  PROVE  Sleep(k, ev) \in After(k)
  <1> DEFINE c  == k.curr
             r1 == [k EXCEPT !.proc[c].state = "SLEEP"]
             r2 == [r1 EXCEPT !.proc[c].event = ev]
             r3 == [r2 EXCEPT !.waiting = PushBack(r2.waiting, c)]
  <1>1. Sleep(k, ev) = Schedule(r3)
    <2>1. r3 = [k EXCEPT !.proc[k.curr].state = "SLEEP", !.proc[k.curr].event = ev,
                         !.waiting = PushBack(@, k.curr)]
      OBVIOUS
    <2> QED
      BY <2>1 DEF Sleep
  <1>2. k \in Transit(k, c, "RUNNING") /\ c \in Users
    BY RunningTransit
  <1>3. \A r \in Settled(k, c, "SLEEP") : Schedule(r) \in After(k)
    BY GiveUp
  <1> HIDE DEF c
  <1>4. r1 \in Transit(k, c, "SLEEP")
    BY <1>2, SetState DEF States
  <1> HIDE DEF r1
  <1>5. r2 \in Transit(k, c, "SLEEP")
    <2>1. r1 \in Still(r1)
      BY <1>2, <1>4, TransitFacts, NearSelf
    <2>2. r2 \in Still(r1)
      BY <1>2, <2>1, QuietField, Sets
    <2> QED
      BY <1>2, <1>4, <2>2, StillTransit
  <1> HIDE DEF r2
  <1>6. r3 \in Settled(k, c, "SLEEP")
    BY <1>2, <1>5, PutOn
  <1> QED
    BY <1>1, <1>3, <1>6

LEMMA PreemptAfter ==
  ASSUME NEW k \in Orderly, OutsideScheduler(k)
  PROVE  Preempt(k) \in After(k)
  <1> DEFINE c  == k.curr
             r1 == [k EXCEPT !.proc[c].state = "READY"]
             r2 == [r1 EXCEPT !.ready = PushBack(r1.ready, c)]
  <1>1. CASE k.ready = <<>>
    BY <1>1, OrderlyFacts DEF Preempt
  <1>2. CASE k.ready # <<>> /\ c # Idle
    <2>1. Preempt(k) = Schedule(r2)
      <3>1. r2 = [k EXCEPT !.proc[k.curr].state = "READY",
                           !.ready = IF k.curr = Idle THEN @ ELSE PushBack(@, k.curr)]
        BY <1>2
      <3> QED
        BY <1>2, <3>1 DEF Preempt
    <2>2. c \in Users
      BY <1>2, OrderlyFacts, StateFacts, Sets DEF Users, Slots, Idle
    <2>3. k \in Transit(k, c, "RUNNING")
      BY <2>2, RunningTransit
    <2>4. \A r \in Settled(k, c, "READY") : Schedule(r) \in After(k)
      BY <2>2, GiveUp
    <2> HIDE DEF c
    <2>5. r1 \in Transit(k, c, "READY")
      BY <2>2, <2>3, SetState DEF States
    <2> HIDE DEF r1
    <2>6. r2 \in Settled(k, c, "READY")
      BY <2>2, <2>5, PutOn
    <2> QED
      BY <2>1, <2>4, <2>6
  <1>3. CASE k.ready # <<>> /\ c = Idle
    <2> DEFINE r == Schedule(r1)
    <2>1. Preempt(k) = r
      <3>1. k \in KRecord
        BY OrderlyFacts
      <3>2. r1 = [k EXCEPT !.proc[k.curr].state = "READY",
                           !.ready = IF k.curr = Idle THEN @ ELSE PushBack(@, k.curr)]
        BY <1>3, <3>1 DEF KRecord
      <3> QED
        BY <1>3, <3>2 DEF Preempt
    <2>2. Preempt(k) \in KState
      BY OrderlyFacts, PreemptType DEF Kept
    <2>3. /\ r.ready = k.ready /\ r.waiting = k.waiting
          /\ r.suspended = k.suspended /\ r.zombies = k.zombies
          /\ \A q \in Users : r.proc[q].state = k.proc[q].state
          /\ ~ OutsideScheduler(r)
      BY <1>3, OrderlyFacts, Sets DEF Schedule, KRecord, OutsideScheduler
    <2> HIDE DEF r
    <2>4. Calm(r, {})
      BY <2>3, OrderlyFacts DEF Calm, Listed
    <2>5. \A q \in Users : r.proc[q].state # "RUNNING"
      BY <1>3, <2>3, Sets DEF Orderly, OnCpu
    <2>6. \A q \in Users : Proper(k, r, q)
      BY <2>3, <2>5 DEF Proper
    <2> QED
      BY <2>1, <2>2, <2>3, <2>4, <2>5, <2>6 DEF After, Orderly, OnCpu
  <1> QED
    BY <1>1, <1>2, <1>3

LEMMA LeaveAfter ==
  ASSUME NEW k0, NEW k \in After(k0), OutsideScheduler(k)
  PROVE  Leave(k) \in After(k0)
  <1> DEFINE r == Leave(k)
  <1>1. k \in KState /\ k \in KRecord /\ k \in Near(k) /\ k \in Orderly
    BY OrderlyFacts DEF After
  <1>2. r \in KState
    BY <1>1, LeaveType DEF Kept
  <1>3. /\ r.ready = k.ready /\ r.waiting = k.waiting
        /\ r.suspended = k.suspended /\ r.zombies = k.zombies
        /\ r.curr = k.curr /\ OutsideScheduler(r)
    BY <1>1 DEF Leave, KRecord, OutsideScheduler
  <1>4. \A q \in Users : r.proc[q].state = k.proc[q].state /\ r.proc[q].signals = k.proc[q].signals
    <2> DEFINE c  == k.curr
               r1 == [k.proc[c] EXCEPT !.inKernel = FALSE]
               r2 == [r1 EXCEPT !.call = IF "signal" \in Calls THEN r1.call ELSE NoCall]
    <2>1. c \in Slots /\ k.proc[c] \in ProcessOK
      BY <1>1, StateFacts
    <2>2. r2.state = k.proc[c].state /\ r2.signals = k.proc[c].signals
      BY <2>1 DEF ProcessOK
    <2>3. r.proc[c] = r2
      BY <1>1, <2>1 DEF Leave, KRecord
    <2>4. \A q \in Slots : q # c => r.proc[q] = k.proc[q]
      BY <1>1, <2>1 DEF Leave, KRecord
    <2> HIDE DEF c, r2, r
    <2> QED
      BY <2>2, <2>3, <2>4, Sets
  <1> HIDE DEF r
  <1>5. Calm(r, {}) /\ OnCpu(r)
    BY <1>1, <1>3, <1>4 DEF Orderly, Calm, Listed, OnCpu
  <1>6. \A q \in Users : Proper(k0, r, q)
    BY <1>4 DEF After, Proper
  <1>7. r \in After(k0)
    BY <1>2, <1>5, <1>6 DEF After, Orderly
  <1> QED
    BY <1>7 DEF r

LEMMA SleepLoopAfter ==
  ASSUME NEW k \in Orderly, OutsideScheduler(k), k.curr \in Users
  PROVE  SleepLoop(k) \in After(k)
  BY SleepAfter, LeaveAfter, OrderlyFacts, EventFacts DEF SleepLoop

LEMMA SetProcessTransit ==
  ASSUME NEW k0, NEW p \in Users, NEW v, NEW k \in Transit(k0, p, v), NEW r \in ProcessOK
  PROVE  [k EXCEPT !.proc[p] = r] \in Transit(k0, p, r.state)
  <1> DEFINE kk == [k EXCEPT !.proc[p] = r]
  <1>1. k \in KRecord /\ k \in Near(k0) /\ Calm(k, {p}) /\ Off(k, p)
    BY TransitFacts
  <1>2. kk \in Near(k0)
    BY <1>1, SetProcess, Sets
  <1>3. /\ kk.ready = k.ready /\ kk.waiting = k.waiting
        /\ kk.suspended = k.suspended /\ kk.zombies = k.zombies
        /\ kk.proc[p] = r /\ \A q \in Users : q # p => kk.proc[q] = k.proc[q]
    BY <1>1, Sets DEF KRecord
  <1> HIDE DEF kk
  <1>4. Calm(kk, {p}) /\ Off(kk, p)
    BY <1>1, <1>3 DEF Calm, Listed, Held, Off
  <1>5. \A q \in Users \ {p} : Moved(k0, kk, q)
    BY <1>3 DEF Transit, Moved, Woken
  <1>6. kk \in Transit(k0, p, r.state)
    BY <1>2, <1>3, <1>4, <1>5 DEF Transit
  <1> QED
    BY <1>6 DEF kk

\* Somebody who does not run is linked elsewhere.
LEMMA SettledAfter ==
  ASSUME NEW k0 \in Orderly, NEW p \in Users, NEW v, v # "RUNNING",
         k0.proc[p].state \notin {"RUNNING", "STOPPED"},
         k0.proc[p].state = "KILLED" => v = "UNUSED",
         NEW k \in Settled(k0, p, v)
  PROVE  k \in After(k0) /\ k.mode = k0.mode /\ k.curr = k0.curr
  <1>1. k \in Near(k0) /\ Calm(k, {}) /\ k.proc[p].state = v
    BY DEF Settled
  <1>2. k \in KState /\ k.mode = k0.mode /\ k.curr = k0.curr
    BY <1>1 DEF Near
  <1>3. \A q \in Users : q # p => Moved(k0, k, q)
    BY DEF Settled
  <1>4. \A q \in Users : k.proc[q].state = "RUNNING" <=> k0.proc[q].state = "RUNNING"
    BY <1>1, <1>3 DEF Moved, Woken
  <1>5. OnCpu(k)
    BY <1>2, <1>4 DEF Orderly, OnCpu, OutsideScheduler
  <1>6. \A q \in Users : Proper(k0, k, q)
    BY <1>1, <1>3, <1>4 DEF Proper, Moved, Woken
  <1> QED
    BY <1>1, <1>2, <1>5, <1>6 DEF After, Orderly

\* wait cleans up a zombie.
LEMMA ReapAfter ==
  ASSUME NEW k \in Orderly, NEW z \in Users, Contains(k.zombies, z)
  PROVE  Reap(k, z) \in After(k) /\ Reap(k, z).mode = k.mode
  <1> DEFINE removed == [k EXCEPT !.zombies = Unlink(k.zombies, z)]
             r       == [Blank EXCEPT !.pid = removed.proc[z].pid, !.event = removed.proc[z].event]
             freed   == [removed EXCEPT !.proc[z] = r]
  <1>1. k.proc[z].state = "KILLED"
    BY DEF Orderly, Calm, Listed
  <1>2. Reap(k, z) = freed
    BY <1>1 DEF Reap, Free
  <1>3. removed \in Transit(k, z, "KILLED")
    BY <1>1, OrderlyFacts, TakeOff
  <1> HIDE DEF removed
  <1>4. removed.proc[z] \in ProcessOK
    BY <1>3, TransitFacts, StateAfter, Sets
  <1>5. r \in ProcessOK /\ r.state = "UNUSED"
    <2>1. removed.proc[z].pid \in 0 .. MaxPid /\ removed.proc[z].event \in NONE .. MaxPid
      BY <1>4, ProcessFacts
    <2>2. Blank \in ProcessOK /\ Blank.state = "UNUSED"
      BY BlankType DEF Blank
    <2> QED
      BY <2>1, <2>2 DEF ProcessOK
  <1> HIDE DEF r
  <1>6. freed \in Transit(k, z, "UNUSED")
    BY <1>3, <1>5, SetProcessTransit
  <1> HIDE DEF freed
  <1>7. freed \in Settled(k, z, "UNUSED")
    BY <1>6, PutOn
  <1> QED
    BY <1>1, <1>2, <1>7, SettledAfter

LEMMA WaitLoopAfter ==
  ASSUME NEW k \in Orderly, OutsideScheduler(k), k.curr \in Users,
         k.proc[k.curr].call.op = "wait"
  PROVE  WaitLoop(k) \in After(k)
  <1> DEFINE c        == k.curr
             call     == k.proc[c].call
             known    == IF k.proc[c].wpid > 1 THEN Lookup(k, k.proc[c].wpid) ELSE NULL
             stopped  == known # NULL /\ k.proc[known].state = "STOPPED" /\ Contains(k.suspended, known)
             acked    == IF stopped THEN [k EXCEPT !.proc[c].wpid = call.arg] ELSE k
             ours     == IF k.proc[c].pid = 1 THEN Foster(acked) ELSE acked
             children == Children(ours, ours.proc[c].pid)
             dead     == {p \in children : Contains(ours.zombies, p)}
             wpid     == IF call.arg = -1 /\ dead # {} THEN ours.proc[Min(dead)].pid ELSE call.arg
             found    == Those(ours.zombies, {p \in Users : ours.proc[p].event = wpid})
             z        == Head(found)
  <1>1. \/ WaitLoop(k) \in {Leave(acked), Leave(ours), Sleep(ours, STATE_CHANGE)}
        \/ found # <<>> /\ WaitLoop(k) = Leave(Reap(ours, z))
    BY DEF WaitLoop
  <1>2. c \in Slots /\ call \in CallOK
    BY OrderlyFacts, StateFacts, ProcessFacts, Sets
  <1>3. call.arg \in -1 .. MaxPid
    BY <1>2 DEF CallOK
  <1> HIDE DEF stopped, wpid
  <1>4. acked \in Still(k)
    BY <1>2, <1>3, OrderlyFacts, QuietField
  <1> HIDE DEF acked
  <1>5. ours \in Still(k)
    BY <1>4, FosterStill
  <1> HIDE DEF ours
  <1>6. /\ acked \in After(k) /\ OutsideScheduler(acked)
        /\ ours \in After(k) /\ OutsideScheduler(ours) /\ ours \in Orderly /\ ours.curr \in Users
        /\ ours \in Mild(k, {})
    BY <1>4, <1>5, StillAfter DEF OutsideScheduler
  <1>7. ours.zombies \in Queue(Users)
    BY <1>6, OrderlyFacts, StateFacts
  <1>8. found \in Queue(Users) /\ \A p : Contains(found, p) => Contains(ours.zombies, p)
    BY <1>7, ThoseFacts
  <1>9. found # <<>> => z \in Users /\ Contains(ours.zombies, z)
    BY <1>8, TailFacts
  <1> HIDE DEF found
  <1>10. Leave(acked) \in After(k) /\ Leave(ours) \in After(k)
    BY <1>6, LeaveAfter
  <1>11. Sleep(ours, STATE_CHANGE) \in After(k)
    <2>1. Sleep(ours, STATE_CHANGE) \in After(ours)
      BY <1>6, SleepAfter, EventFacts
    <2> QED
      BY <1>6, <2>1, MildThenAfter
  <1>12. found # <<>> => Leave(Reap(ours, z)) \in After(k)
    <2> SUFFICES ASSUME found # <<>> PROVE Leave(Reap(ours, z)) \in After(k)
      OBVIOUS
    <2>1. Reap(ours, z) \in After(ours) /\ OutsideScheduler(Reap(ours, z))
      BY <1>6, <1>9, ReapAfter DEF OutsideScheduler
    <2>2. Leave(Reap(ours, z)) \in After(ours)
      BY <2>1, LeaveAfter
    <2> QED
      BY <1>6, <2>2, MildThenAfter
  <1> QED
    BY <1>1, <1>10, <1>11, <1>12

LEMMA StartAfter ==
  ASSUME NEW k0 \in Orderly, OutsideScheduler(k0), k0.curr \in Users,
         NEW k \in Still(k0), NEW call \in CallOK
  PROVE  Start(k, call) \in After(k0)
  <1> DEFINE c    == k.curr
             e    == Enter(k, call)
             slp  == [e EXCEPT !.proc[c].left = call.arg]
             wt   == [e EXCEPT !.proc[c].wpid = call.arg]
  <1>1. Start(k, call) = CASE call.op = "sleep" -> SleepLoop(slp)
                           [] call.op = "wait"  -> WaitLoop(wt)
                           [] OTHER             -> k
    BY DEF Start
  <1>2. k.curr = k0.curr /\ k \in After(k0) /\ k \in KRecord
    BY StillAfter, StillSelf
  <1>3. e \in Still(k0)
    BY EnterStill
  <1>4. e.curr = c /\ c \in Slots /\ c \in Users
    BY <1>2, <1>3, StillAfter, Sets
  <1>5. call.op = "sleep" => SleepLoop(slp) \in After(k0)
    <2> SUFFICES ASSUME call.op = "sleep" PROVE SleepLoop(slp) \in After(k0)
      OBVIOUS
    <2>1. call.arg \in 0 .. MaxSleep
      BY DEF CallOK
    <2> HIDE DEF e, c
    <2>2. slp \in Still(k0)
      BY <1>3, <1>4, <2>1, QuietField
    <2> HIDE DEF slp
    <2>3. slp \in Orderly /\ slp.curr \in Users /\ OutsideScheduler(slp) /\ slp \in Mild(k0, {})
      BY <2>2, StillAfter DEF OutsideScheduler
    <2>4. SleepLoop(slp) \in After(slp)
      BY <2>3, SleepLoopAfter
    <2> QED
      BY <2>3, <2>4, MildThenAfter
  <1>6. call.op = "wait" => WaitLoop(wt) \in After(k0)
    <2> SUFFICES ASSUME call.op = "wait" PROVE WaitLoop(wt) \in After(k0)
      OBVIOUS
    <2>1. call.arg \in -1 .. MaxPid
      BY DEF CallOK
    <2>2. e.proc[c].call = call
      <3>1. k.proc[c] \in ProcessOK
        BY <1>2, <1>4, StateAfter
      <3> QED
        BY <1>2, <1>4, <3>1 DEF Enter, KRecord, ProcessOK
    <2>3. e \in KRecord /\ e.proc[c] \in ProcessOK
      BY <1>3, <1>4, StillSelf, StateAfter
    <2> HIDE DEF e, c
    <2>4. wt \in Still(k0)
      BY <1>3, <1>4, <2>1, QuietField
    <2>5. wt.curr = c /\ wt.proc[c].call = call
      BY <1>4, <2>2, <2>3 DEF KRecord, ProcessOK
    <2> HIDE DEF wt
    <2>6. wt \in Orderly /\ wt.curr \in Users /\ OutsideScheduler(wt) /\ wt \in Mild(k0, {})
      BY <2>4, StillAfter DEF OutsideScheduler
    <2>7. WaitLoop(wt) \in After(wt)
      BY <2>5, <2>6, WaitLoopAfter
    <2> QED
      BY <2>6, <2>7, MildThenAfter
  <1> HIDE DEF slp, wt
  <1> QED
    BY <1>1, <1>2, <1>5, <1>6

-----------------------------------------------------------------------------
(***************************************************************************)
(* The other system calls, and the scheduler.                              *)
(***************************************************************************)
\* kill, except a hang-up to everybody.
LEMMA KillMild ==
  ASSUME NEW k \in Orderly, NEW p \in Slots, NEW target, NEW s \in Known,
         target = -1 => s # SIGHUP
  PROVE  Kill(k, p, target, s) \in Mild(k, {})
  <1> DEFINE t  == Lookup(k, target)
             A  == {q \in Others(k, p) : Alive(k, q)}
             C  == {q \in Others(k, p) : Alive(k, q) /\ k.proc[q].ppid = k.proc[p].pid}
             po == PostAll(k, A, s)
             r1 == [po EXCEPT !.proc[1].signals = po.proc[1].signals \cup {SIGTERM}]
             r2 == [r1 EXCEPT !.proc[Idle].signals = r1.proc[Idle].signals \cup {SIGTERM}]
  <1>1. k \in Mild(k, {})
    BY OrderlyFacts
  <1>2. t \in Users \cup {NULL}
    BY LookupFacts
  <1> HIDE DEF t, A, C
  <1>3. t # NULL => Post(k, t, s) \in Mild(k, {})
    BY <1>1, <1>2, PostMild
  <1>4. KillChildren(k, p, s) \in Mild(k, {})
    <2>1. PostAll(k, C, s) \in Mild(k, {})
      BY <1>1, PostAllMild
    <2> QED
      BY <2>1 DEF KillChildren, C
  <1>5. po \in Mild(k, {})
    BY <1>1, PostAllMild
  <1>6. target = -1 => KillAll(k, p, s) \in {po, r2}
    <2> SUFFICES ASSUME target = -1 PROVE KillAll(k, p, s) \in {po, r2}
      OBVIOUS
    <2>1. s = SIGTERM => [po EXCEPT !.proc[1].signals = @ \cup {s},
                                    !.proc[Idle].signals = @ \cup {s}] = r2
      OBVIOUS
    <2> HIDE DEF r2
    <2> QED
      BY <2>1 DEF KillAll, po, A, SIGHUP, SIGTERM
  <1> HIDE DEF po
  <1>7. r2 \in Mild(k, {})
    <2>1. po \in KState /\ 1 \in Slots /\ Idle \in Slots
      BY <1>5, MildFacts, Sets
    <2>2. po \in Still(po) /\ po.proc[1] \in ProcessOK
      BY <2>1, NearSelf, StateFacts, StateAfter
    <2>3. po.proc[1].signals \cup {SIGTERM} \in SignalSet
      BY <2>2, ProcessFacts, SignalFacts
    <2>4. r1 \in Still(po)
      BY <2>1, <2>2, <2>3, QuietField
    <2> HIDE DEF r1
    <2>5. r1.proc[Idle] \in ProcessOK
      BY <2>1, <2>4, StillSelf, StateAfter
    <2>6. r1.proc[Idle].signals \cup {SIGTERM} \in SignalSet
      BY <2>5, ProcessFacts, SignalFacts
    <2>7. r2 \in Still(po)
      BY <2>1, <2>4, <2>6, QuietField
    <2> HIDE DEF r2
    <2> QED
      BY <1>5, <2>7, StillMild
  <1> HIDE DEF r2
  <1>8. Kill(k, p, target, s) = CASE target = -1 -> KillAll(k, p, s)
                                  [] target = 0  -> KillChildren(k, p, s)
                                  [] OTHER       -> IF t = NULL THEN k ELSE Post(k, t, s)
    BY DEF Kill, t
  <1> QED
    BY <1>1, <1>3, <1>4, <1>5, <1>6, <1>7, <1>8

\* alloc_new_process: the slot has been on no list.
LEMMA AllocateTransit ==
  ASSUME NEW k \in Orderly, NEW c \in Users, c = Min(FreeSlots), k.proc[c].state = "UNUSED",
         k.pidNum <= MaxPid, NEW state \in States
  PROVE  Allocate(k, state) \in Transit(k, c, state)
  <1> DEFINE y     == Yield(k, k.curr)
             child == Child(k.pidNum, k.proc[k.curr].pid, state)
             r1    == [y EXCEPT !.proc[c] = child]
             r2    == [r1 EXCEPT !.zombies = CutAfter(r1.zombies, c)]
             a     == Allocate(k, state)
  <1>1. k \in KState /\ k \in KRecord /\ k \in Still(k) /\ k \in Near(k)
    BY OrderlyFacts
  <1>2. k.pidNum <= MaxPid /\ k.proc[c].state = "UNUSED"
    OBVIOUS
  <1>3. k.curr \in Slots
    BY <1>1, StateFacts
  <1>4. k \in Transit(k, c, "UNUSED")
    BY <1>2, OrderlyFacts, TakeOff
  <1>5. y \in Transit(k, c, "UNUSED")
    <2>1. y \in Still(k)
      BY <1>1, HandOverStill, EmptyQueue
    <2> QED
      BY <1>4, <2>1, StillTransit
  <1>6. child \in ProcessOK /\ child.state = state
    <2>1. k.pidNum \in 0 .. MaxPid
      BY <1>1, <1>2, StateFacts
    <2>2. k.proc[k.curr].pid \in 0 .. MaxPid
      BY <1>1, <1>3, StateFacts, ProcessFacts
    <2> QED
      BY <2>1, <2>2, BlankType DEF Child, ProcessOK
  <1>7. a \in Near(k)
    BY <1>1, <1>2, AllocateType
  <1>8. a = [r2 EXCEPT !.pidNum = r2.pidNum + 1]
    BY DEF Allocate
  <1> HIDE DEF y, child, a
  <1>9. r1 \in Transit(k, c, state)
    BY <1>5, <1>6, SetProcessTransit
  <1>10. r1 \in KRecord /\ r1.zombies \in Queue(Users) /\ ~ Contains(r1.zombies, c)
    <2> HIDE DEF r1
    <2>1. r1 \in KRecord /\ r1 \in Near(k) /\ Off(r1, c)
      BY <1>9, TransitFacts
    <2>2. r1.zombies \in Queue(Users)
      BY <2>1 DEF KRecord
    <2> QED
      BY <2>1, <2>2 DEF Off
  <1> HIDE DEF r1
  <1>11. CutAfter(r1.zombies, c) = r1.zombies
    BY <1>10, CutAfterFacts DEF Queue
  <1>12. /\ a.ready = r1.ready /\ a.waiting = r1.waiting /\ a.proc = r1.proc
         /\ a.suspended = r1.suspended /\ a.zombies = r1.zombies
    BY <1>8, <1>10, <1>11 DEF KRecord
  <1>13. a \in Transit(k, c, state)
    BY <1>7, <1>9, <1>12 DEF Transit, Calm, Listed, Held, Off, Moved, Woken
  <1> QED
    BY <1>13 DEF a

\* A living job is brought to the foreground, unless it is stopped.
LEMMA MoveToForeAfter ==
  ASSUME NEW k \in Orderly, NEW p \in Users, k.proc[p].state \in {"READY", "SLEEP", "STOPPED"}
  PROVE  MoveToFore(k, p) \in After(k)
  <1> DEFINE ev    == IF k.proc[p].event = DAEMON_INPUT THEN KEYBOARD_INPUT ELSE k.proc[p].event
             input == [k EXCEPT !.proc[p].event = ev]
             r1    == [input EXCEPT !.waiting = Unlink(input.waiting, p)]
             r2    == [r1 EXCEPT !.proc[p].state = "READY"]
             awake == IF k.proc[p].state # "SLEEP" THEN input ELSE r2
             d     == [awake EXCEPT !.proc[p].daemon = FALSE]
             e     == [d EXCEPT !.fg = p]
             f     == [e EXCEPT !.ready = IF Contains(e.ready, p) THEN e.ready ELSE PushBack(e.ready, p)]
  <1>1. MoveToFore(k, p) = IF k.proc[p].state = "STOPPED"
                           THEN [k EXCEPT !.proc[p].daemon = FALSE] ELSE f
    <2>1. input = [k EXCEPT !.proc[p].event = IF @ = DAEMON_INPUT THEN KEYBOARD_INPUT ELSE @]
      OBVIOUS
    <2>2. awake = LET in == [k EXCEPT !.proc[p].event = IF @ = DAEMON_INPUT THEN KEYBOARD_INPUT ELSE @]
                  IN  IF k.proc[p].state # "SLEEP" THEN in
                      ELSE [in EXCEPT !.waiting = Unlink(@, p), !.proc[p].state = "READY"]
      BY <2>1
    <2> QED
      BY <2>2 DEF MoveToFore
  <1>2. p \in Slots /\ k \in KState /\ k \in KRecord /\ k.proc[p] \in ProcessOK /\ k \in Still(k)
    BY OrderlyFacts, StateAfter, Sets
  <1>3. ev \in NONE .. MaxPid
    BY <1>2, ProcessFacts, EventFacts
  <1> HIDE DEF ev
  <1>4. input \in Still(k)
    BY <1>2, <1>3, QuietField
  <1>5. /\ input \in KState /\ Calm(input, {}) /\ input.proc[p].state = k.proc[p].state
        /\ input \in Orderly /\ input \in Mild(k, {})
    BY <1>4, StillAfter, OrderlyFacts
  <1> HIDE DEF input
  <1>6. ASSUME NEW kk \in KState
        PROVE  /\ [kk EXCEPT !.proc[p].daemon = FALSE] \in Still(kk)
               /\ [[kk EXCEPT !.proc[p].daemon = FALSE] EXCEPT !.fg = p] \in Still(kk)
    <2>1. kk \in Still(kk)
      BY <1>6, NearSelf
    <2>2. \A b \in BOOLEAN : [kk EXCEPT !.proc[p].daemon = b] \in Still(kk)
      BY <1>2, <2>1, QuietField
    <2>3. [kk EXCEPT !.proc[p].daemon = FALSE] \in Still(kk)
      BY <2>2
    <2> QED
      BY <2>3, QuietForeground
  <1>7. CASE k.proc[p].state = "STOPPED"
    BY <1>1, <1>2, <1>6, <1>7, StillAfter
  <1>8. CASE k.proc[p].state = "READY"
    <2>1. awake = input
      BY <1>8
    <2>2. e \in Still(input)
      BY <1>5, <1>6, <2>1
    <2> HIDE DEF e
    <2>3. e \in Still(k) /\ e \in KRecord
      BY <1>4, <2>2, StillTrans, StillSelf
    <2>4. e \in Orderly /\ e.proc[p].state = "READY" /\ e \in After(k)
      BY <1>8, <2>3, StillAfter
    <2>5. Contains(e.ready, p)
      BY <2>4 DEF Orderly, Calm, Listed
    <2>6. f = e
      BY <2>3, <2>5 DEF KRecord
    <2> QED
      BY <1>1, <1>8, <2>4, <2>6
  <1>9. CASE k.proc[p].state = "SLEEP"
    <2>1. r1 \in Transit(input, p, "SLEEP")
      BY <1>5, <1>9, TakeOff
    <2> HIDE DEF r1
    <2>2. r2 \in Transit(input, p, "READY")
      BY <2>1, SetState DEF States
    <2>3. awake = r2
      BY <1>9
    <2> HIDE DEF awake, r2
    <2>4. awake \in KState
      BY <2>2, <2>3, TransitFacts
    <2>5. e \in Still(awake)
      BY <1>6, <2>4
    <2> HIDE DEF e
    <2>6. e \in Transit(input, p, "READY")
      BY <2>2, <2>3, <2>5, StillTransit
    <2>7. ~ Contains(e.ready, p)
      BY <2>6, TransitFacts DEF Off
    <2>8. f \in Settled(input, p, "READY")
      BY <2>6, <2>7, PutOn
    <2> HIDE DEF f
    <2>9. f \in After(input)
      BY <1>5, <1>9, <2>8, SettledAfter
    <2>10. f \in After(k)
      BY <1>5, <2>9, MildThenAfter
    <2> QED
      BY <1>1, <1>9, <2>10
  <1> QED
    BY <1>7, <1>8, <1>9

-----------------------------------------------------------------------------
(***************************************************************************)
(* The steps.                                                              *)
(***************************************************************************)
Step == Now' \in After(Now)

LEMMA BecomeStep ==
  ASSUME NEW k \in After(Now), Become(k)
  PROVE  Step
  <1>1. k \in KState
    BY DEF After, Orderly
  <1> QED
    BY <1>1, BecomeFacts DEF Step

LEMMA OrderlyNow ==
  ASSUME Now \in Orderly
  PROVE  /\ TypeInv /\ Now \in KState /\ Now.proc = proc /\ Now.ready = ready
         /\ Now.waiting = waiting /\ Now.suspended = suspended /\ Now.zombies = zombies
         /\ Now.curr = curr /\ Now.mode = mode /\ Now.pidNum = pidNum
         /\ mode = "user" => OutsideScheduler(Now)
         /\ mode = "kernel" => OutsideScheduler(Now)
  BY OrderlyFacts DEF TypeInv, Now, OutsideScheduler

\* The process at the head of the ready queue gets the CPU.
LEMMA DispatchAfter ==
  ASSUME NEW k0 \in Orderly, ~ OutsideScheduler(k0), NEW k \in Signalled(k0), k.ready # <<>>,
         Over(k, Head(k.ready)) \/ k.proc[Head(k.ready)].signals = {}
  PROVE  Dispatch(k, Head(k.ready)) \in After(k0)
  <1> DEFINE p == Head(k.ready)
             d == Dispatch(k, p)
  <1>1. /\ k \in KState /\ k \in KRecord /\ k \in Near(k0) /\ Calm(k, {})
        /\ k.ready \in Queue(Users)
    BY SignalledFacts, StateFacts
  <1>2. /\ p \in Users /\ p \in Slots /\ Contains(k.ready, p)
        /\ \A q : Contains(Tail(k.ready), q) <=> Contains(k.ready, q) /\ q # p
    <2>1. /\ p \in Users /\ Contains(k.ready, p)
          /\ \A q : Contains(Tail(k.ready), q) <=> Contains(k.ready, q) /\ q # p
      BY <1>1, TailFacts
    <2> QED
      BY <2>1, Sets
  <1>3. k.proc[p].state = "READY" /\ k.proc[p].signals = {}
    BY <1>1, <1>2 DEF Calm, Listed, Over
  <1>4. d \in KState
    BY <1>1, <1>2, DispatchType
  <1> HIDE DEF p
  <1>5. k.proc[p] \in ProcessOK
    BY <1>1, <1>2, StateAfter
  <1>6. /\ d.ready = Tail(k.ready) /\ d.waiting = k.waiting /\ d.suspended = k.suspended
        /\ d.zombies = k.zombies /\ d.curr = p /\ d.mode \in {"user", "kernel"}
    BY <1>1 DEF Dispatch, KRecord
  <1>7. d.proc = [k.proc EXCEPT ![p] = [k.proc[p] EXCEPT !.state = "RUNNING"]]
    BY <1>1 DEF Dispatch, KRecord
  <1> HIDE DEF d
  <1>8. /\ d.proc[p].state = "RUNNING" /\ d.proc[p].signals = k.proc[p].signals
        /\ \A q \in Users : q # p => d.proc[q] = k.proc[q]
    <2> DEFINE r == [k.proc[p] EXCEPT !.state = "RUNNING"]
    <2>1. r.state = "RUNNING" /\ r.signals = k.proc[p].signals
      BY <1>5 DEF ProcessOK
    <2> HIDE DEF r
    <2>2. k.proc \in [Slots -> ProcessOK] /\ d.proc = [k.proc EXCEPT ![p] = r]
      BY <1>1, <1>7 DEF KRecord, r
    <2>3. d.proc[p] = r /\ \A q \in Slots : q # p => d.proc[q] = k.proc[q]
      BY <1>2, <2>2
    <2> QED
      BY <2>1, <2>3, Sets
  <1>9. k \in After(k0) /\ \A q \in Users : k.proc[q].state # "RUNNING"
    BY SignalledAfter
  <1>10. ASSUME NEW q \in Users PROVE Listed(d, q)
    <2>1. Listed(k, q)
      BY <1>1 DEF Calm
    <2>2. CASE q = p
      BY <1>2, <1>3, <1>6, <1>8, <2>1, <2>2 DEF Listed
    <2>3. CASE q # p
      BY <1>2, <1>6, <1>8, <2>1, <2>3 DEF Listed
    <2> QED
      BY <2>2, <2>3
  <1>11. Calm(d, {})
    BY <1>10 DEF Calm
  <1>12. OnCpu(d)
    BY <1>6, <1>8, <1>9 DEF OnCpu, OutsideScheduler
  <1>13. ASSUME NEW q \in Users PROVE Proper(k0, d, q)
    <2>1. Proper(k0, k, q)
      BY <1>9 DEF After
    <2>2. CASE q = p
      BY <1>3, <1>8, <2>1, <2>2 DEF Proper
    <2>3. CASE q # p
      BY <1>8, <2>1, <2>3 DEF Proper
    <2> QED
      BY <2>2, <2>3
  <1> QED
    BY <1>4, <1>11, <1>12, <1>13 DEF After, Orderly, d, p

LEMMA ScanSuspendedStep ==
  ASSUME SIGCONT \notin Known, Now \in Orderly, ScanSuspended
  PROVE  Step
  <1> DEFINE k == FoldLeft(CheckPendingSignals, Now, suspended)
             r == [k EXCEPT !.mode = "choose"]
             K == Signalled(Now)
  <1>1. Become(r) /\ ~ OutsideScheduler(Now)
    BY OrderlyNow DEF ScanSuspended, OutsideScheduler
  <1>2. suspended \in Seq(Users)
    BY OrderlyNow, NowFacts, StateFacts DEF Queue
  <1>3. Now \in K
    BY OrderlyFacts, SignalledSelf
  <1>4. \A kk \in K, p \in Users : CheckPendingSignals(kk, p) \in K
    <2> SUFFICES ASSUME NEW kk \in K, NEW p \in Users
                 PROVE  CheckPendingSignals(kk, p) \in K
      OBVIOUS
    <2>1. kk \in KState /\ Calm(kk, {})
      BY SignalledFacts
    <2>2. CheckPendingSignals(kk, p) \in Signalled(kk)
      BY <2>1, CheckPendingSignalled
    <2> QED
      BY <2>2, SignalledTrans
  <1> HIDE DEF K
  <1>5. k \in K
    BY <1>2, <1>3, <1>4, ScanLoop
  <1> HIDE DEF k
  <1>6. k \in After(Now) /\ k \in KRecord /\ \A q \in Users : k.proc[q].state # "RUNNING"
    BY <1>1, <1>5, SignalledAfter, SignalledFacts DEF K
  <1>7. /\ r \in KState /\ r.mode = "choose" /\ r.proc = k.proc
        /\ r.ready = k.ready /\ r.waiting = k.waiting
        /\ r.suspended = k.suspended /\ r.zombies = k.zombies
    BY <1>6 DEF After, Orderly, KState, KRecord, Mode
  <1> HIDE DEF r
  <1>8. r \in Orderly
    BY <1>6, <1>7 DEF After, Orderly, Calm, Listed, OnCpu, OutsideScheduler
  <1>9. r \in After(Now)
    BY <1>6, <1>7, <1>8 DEF After, Proper
  <1> QED
    BY <1>1, <1>9, BecomeStep

LEMMA ConsiderHeadStep ==
  ASSUME SIGCONT \notin Known, Now \in Orderly, ConsiderHead
  PROVE  Step
  <1> DEFINE p == Head(ready)
             k == CheckPendingSignals(Now, p)
  <1>1. /\ mode = "choose" /\ ready # <<>>
        /\ Become(IF k.ready # <<>> /\ Head(k.ready) = p THEN Dispatch(k, p) ELSE k)
    BY DEF ConsiderHead
  <1>2. p \in Users /\ Contains(ready, p) /\ ~ OutsideScheduler(Now)
    <2>1. ready \in Queue(Users)
      BY OrderlyNow, NowFacts, StateFacts
    <2> QED
      BY <1>1, <2>1, OrderlyNow, TailFacts DEF OutsideScheduler
  <1>3. Now \in KState /\ Calm(Now, {})
    BY OrderlyFacts
  <1>4. Now.proc[p].state = "READY"
    BY <1>2, <1>3, OrderlyNow DEF Calm, Listed
  <1> HIDE DEF p
  <1>5. k \in Signalled(Now) /\ (Over(k, p) \/ k.proc[p].signals = {})
    BY <1>2, <1>3, <1>4, CheckPendingSignalled
  <1> HIDE DEF k
  <1>6. CASE k.ready # <<>> /\ Head(k.ready) = p
    <2>1. Dispatch(k, p) \in After(Now)
      BY <1>2, <1>5, <1>6, DispatchAfter
    <2> QED
      BY <1>1, <1>6, <2>1, BecomeStep
  <1>7. CASE ~ (k.ready # <<>> /\ Head(k.ready) = p)
    <2>1. k \in After(Now)
      BY <1>2, <1>5, SignalledAfter
    <2> QED
      BY <1>1, <1>7, <2>1, BecomeStep
  <1> QED
    BY <1>6, <1>7

LEMMA RunIdleStep ==
  ASSUME Now \in Orderly, RunIdle
  PROVE  Step
  <1> DEFINE r == [Now EXCEPT !.proc[Idle].state = "RUNNING"]
             m == IF waiting = <<>> /\ SIGTERM \in proc[Idle].signals THEN "halt" ELSE "user"
             k == [r EXCEPT !.curr = Idle, !.mode = m]
  <1>1. Become(k) /\ mode = "choose"
    <2>1. k = [Now EXCEPT !.curr = Idle, !.proc[Idle].state = "RUNNING", !.mode = m]
      BY IdleTakes
    <2> QED
      BY <2>1 DEF RunIdle
  <1>2. ~ OutsideScheduler(Now) /\ Now \in KRecord /\ OnCpu(Now) /\ Calm(Now, {})
    BY <1>1, OrderlyNow, OrderlyFacts DEF OutsideScheduler
  <1>3. r \in Near(Now)
    BY OrderlyNow, NowFacts, SetField, Sets DEF States
  <1>4. r \in KRecord /\ m \in {"halt", "user"}
    BY <1>3, StateFacts
  <1>5. /\ r.ready = Now.ready /\ r.waiting = Now.waiting /\ r.suspended = Now.suspended
        /\ r.zombies = Now.zombies /\ \A q \in Users : r.proc[q] = Now.proc[q]
    BY <1>2, Sets DEF KRecord
  <1> HIDE DEF r, m
  <1>6. /\ k \in KState /\ k.curr = Idle /\ k.proc = r.proc /\ k.ready = r.ready
        /\ k.waiting = r.waiting /\ k.suspended = r.suspended /\ k.zombies = r.zombies
    BY <1>3, <1>4, Sets DEF Near, KState, KRecord, Mode
  <1> HIDE DEF k
  <1>7. Calm(k, {})
    BY <1>2, <1>5, <1>6 DEF Calm, Listed
  <1>8. OnCpu(k)
    BY <1>2, <1>5, <1>6, Sets DEF OnCpu
  <1>9. \A q \in Users : Proper(Now, k, q)
    BY <1>5, <1>6 DEF Proper
  <1>10. k \in After(Now)
    BY <1>6, <1>7, <1>8, <1>9 DEF After, Orderly
  <1> QED
    BY <1>1, <1>10, BecomeStep

LEMMA TickStep ==
  ASSUME Now \in Orderly, Tick
  PROVE  Step
  <1> DEFINE t     == [p \in Slots |-> [proc[p] EXCEPT !.left = IF @ > 0 THEN @ - 1 ELSE 0]]
             later == [Now EXCEPT !.proc = t]
             woken == WakeUp(later, SLEEP_SYSCALL)
  <1>1. Become(Preempt(woken)) /\ OutsideScheduler(Now)
    BY OrderlyNow DEF Tick
  <1>2. proc \in [Slots -> ProcessOK] /\ proc[Idle].proxied = <<>>
    BY OrderlyNow, NowFacts, StateFacts
  <1>3. ASSUME NEW p \in Slots
        PROVE  /\ [proc[p] EXCEPT !.left = IF @ > 0 THEN @ - 1 ELSE 0] \in ProcessOK
               /\ [proc[p] EXCEPT !.left = IF @ > 0 THEN @ - 1 ELSE 0].proxied = proc[p].proxied
               /\ [proc[p] EXCEPT !.left = IF @ > 0 THEN @ - 1 ELSE 0].state = proc[p].state
    <2>1. proc[p] \in ProcessOK /\ proc[p].left \in 0 .. MaxSleep
      BY <1>2, ProcessFacts
    <2>2. (IF proc[p].left > 0 THEN proc[p].left - 1 ELSE 0) \in 0 .. MaxSleep
      BY <2>1, KernelAssumption
    <2>3. \A v \in 0 .. MaxSleep : [proc[p] EXCEPT !.left = v] \in ProcessOK
      BY <2>1, FieldFacts
    <2>4. \A v : /\ [proc[p] EXCEPT !.left = v].proxied = proc[p].proxied
                 /\ [proc[p] EXCEPT !.left = v].state = proc[p].state
      BY <2>1, FieldKept, FieldSteady
    <2> QED
      BY <2>2, <2>3, <2>4
  <1>4. /\ t \in [Slots -> ProcessOK] /\ t[Idle].proxied = <<>>
        /\ \A p \in Slots : t[p].state = Now.proc[p].state
    BY <1>2, <1>3, Sets, OrderlyNow
  <1> HIDE DEF t
  <1>5. later \in Mild(Now, {})
    <2>1. later \in Still(Now)
      BY <1>4, OrderlyFacts, QuietTable
    <2> QED
      BY <2>1, StillAfter
  <1> HIDE DEF later
  <1>6. woken \in Mild(Now, {})
    BY <1>5, WakeUpMild
  <1> HIDE DEF woken
  <1>7. woken \in Orderly /\ OutsideScheduler(woken)
    BY <1>1, <1>6, MildAfter DEF OutsideScheduler
  <1>8. Preempt(woken) \in After(Now)
    BY <1>6, <1>7, PreemptAfter, MildThenAfter
  <1> QED
    BY <1>1, <1>8, BecomeStep

LEMMA ResumeStep ==
  ASSUME Now \in Orderly, Resume
  PROVE  Step
  <1>1. OutsideScheduler(Now) /\ Now.curr \in Users
    BY OrderlyNow, NowFacts, StateFacts DEF Resume
  <1>2. \/ Become(SleepLoop(Now))
        \/ Now.proc[Now.curr].call.op = "wait" /\ Become(WaitLoop(Now))
    BY OrderlyNow DEF Resume
  <1> QED
    BY <1>1, <1>2, SleepLoopAfter, WaitLoopAfter, BecomeStep

\* Whoever makes a system call is on the CPU.
LEMMA CallerFacts ==
  ASSUME Now \in Orderly, mode = "user", curr # Idle
  PROVE  /\ OutsideScheduler(Now) /\ curr \in Users /\ Now.curr = curr
         /\ Now.proc[curr].state = "RUNNING"
         /\ Now \in Transit(Now, curr, "RUNNING")
  <1>1. OutsideScheduler(Now) /\ curr \in Users /\ Now.curr = curr
    BY OrderlyNow, UserFacts
  <1> QED
    BY <1>1, RunningTransit

\* The call in the context frame does not matter here.
LEMMA CalledStill ==
  ASSUME Now \in Orderly
  PROVE  /\ Called \in Still(Now) /\ Called \in Orderly
         /\ Called.curr = curr /\ Called.mode = mode /\ Called.pidNum = pidNum
         /\ \A q \in Users : Called.proc[q].state = proc[q].state
  <1>1. TypeInv /\ Now.proc = proc /\ Now.curr = curr /\ Now.mode = mode
    BY OrderlyNow
  <1>2. Called \in Near(Now) /\ curr \in Slots /\ proc \in [Slots -> ProcessOK]
    BY <1>1, CalledNear, NowFacts, StateFacts
  <1>3. \A q \in Slots : Called.proc[q].state = proc[q].state
    BY <1>1, <1>2 DEF Called, Now, ProcessOK
  <1>4. Called \in Still(Now)
    BY <1>1, <1>2, <1>3 DEF Still, Called, Now
  <1>5. Called.pidNum = pidNum
    BY DEF Called, Now
  <1> QED
    BY <1>1, <1>3, <1>4, <1>5, StillAfter, Sets

LEMMA BecomeCalled ==
  ASSUME Now \in Orderly, NEW k \in After(Called), Become(k)
  PROVE  Step
  <1>1. Called \in Mild(Now, {})
    BY CalledStill, StillAfter
  <1> HIDE DEF Called
  <1> QED
    BY <1>1, MildThenAfter, BecomeStep

LEMMA ForkStep ==
  ASSUME Now \in Orderly, SysFork \/ SysForkFails
  PROVE  Step
  <1> DEFINE c == Min(FreeSlots)
             a == Allocate(Called, "READY")
             f == Allocate(Called, "INIT")
  <1>1. FreeSlots # {} /\ pidNum <= MaxPid
    BY DEF SysFork, SysForkFails
  <1>2. c \in Users /\ c \in FreeSlots
    <2>1. FreeSlots \subseteq Users
      BY DEF FreeSlots
    <2> QED
      BY <1>1, <2>1, MinFacts, Sets
  <1>3. Called \in Orderly /\ Called.proc[c].state = "UNUSED" /\ Called.pidNum <= MaxPid
    BY <1>1, <1>2, CalledStill DEF FreeSlots
  <1>4. a \in Transit(Called, c, "READY") /\ f \in Transit(Called, c, "INIT")
    BY <1>2, <1>3, AllocateTransit DEF States
  <1>5. CASE SysForkFails
    <2>1. Become(f)
      BY <1>5 DEF SysForkFails
    <2> HIDE DEF f, c
    <2>2. f \in Settled(Called, c, "INIT")
      BY <1>2, <1>4, PutOn
    <2>3. f \in After(Called)
      BY <1>2, <1>3, <2>2, SettledAfter
    <2> QED
      BY <2>1, <2>3, BecomeCalled
  <1>6. CASE SysFork
    <2> DEFINE b == [a EXCEPT !.ready = PushBack(a.ready, c)]
    <2>1. Become(b)
      BY <1>6 DEF SysFork
    <2> HIDE DEF a, c
    <2>2. b \in Settled(Called, c, "READY")
      BY <1>2, <1>4, PutOn
    <2> HIDE DEF b
    <2>3. b \in After(Called)
      BY <1>2, <1>3, <2>2, SettledAfter
    <2> QED
      BY <2>1, <2>3, BecomeCalled
  <1> QED
    BY <1>5, <1>6

\* The running process exits, after its fields have changed.
LEMMA ExitAfter ==
  ASSUME Now \in Orderly, mode = "user", curr # Idle, NEW k \in Still(Now)
  PROVE  Schedule(ExitProcess(k, curr)) \in After(Now)
  <1>1. /\ k \in Mild(Now, {}) /\ k \in Orderly /\ OutsideScheduler(k)
        /\ k.curr = curr /\ curr \in Users
    BY CallerFacts, StillAfter DEF OutsideScheduler
  <1>2. k \in Transit(k, curr, "RUNNING")
    BY <1>1, RunningTransit
  <1>3. ExitProcess(k, curr) \in Settled(k, curr, "KILLED")
    BY <1>1, <1>2, ExitProcessSettled
  <1>4. Schedule(ExitProcess(k, curr)) \in After(k)
    BY <1>1, <1>3, GiveUp
  <1> QED
    BY <1>1, <1>4, MildThenAfter

LEMMA SysExecStep ==
  ASSUME Now \in Orderly, SysExec
  PROVE  Step
  <1>1. mode = "user" /\ curr # Idle /\ curr \in Users
    BY OrderlyNow, UserFacts DEF SysExec, InUserCode
  <1>2. PICK background \in BOOLEAN, readable \in BOOLEAN :
           LET named == IF background THEN Background(Called, curr) ELSE Called
           IN  Become(IF readable
                      THEN [InitHandlers(named, curr) EXCEPT !.proc[curr].proxied = <<>>]
                      ELSE Schedule(ExitProcess(named, curr)))
    BY DEF SysExec
  <1> DEFINE named == IF background THEN Background(Called, curr) ELSE Called
  <1>3. \/ Become([InitHandlers(named, curr) EXCEPT !.proc[curr].proxied = <<>>])
        \/ Become(Schedule(ExitProcess(named, curr)))
    BY <1>2
  <1>4. named \in Still(Now)
    BY <1>1, CalledStill, BackgroundStill
  <1> HIDE DEF named
  <1>5. [InitHandlers(named, curr) EXCEPT !.proc[curr].proxied = <<>>] \in After(Now)
    BY <1>1, <1>4, InitHandlersStill, StillAfter
  <1>6. Schedule(ExitProcess(named, curr)) \in After(Now)
    BY <1>1, <1>4, ExitAfter
  <1> QED
    BY <1>3, <1>5, <1>6, BecomeStep

LEMMA SysExitStep ==
  ASSUME Now \in Orderly, SysExit
  PROVE  Step
  <1>1. mode = "user" /\ curr # Idle /\ Become(Schedule(ExitProcess(Now, curr)))
    BY DEF SysExit, InUserCode
  <1>2. Schedule(ExitProcess(Now, curr)) \in After(Now)
    BY <1>1, OrderlyFacts, ExitAfter
  <1> QED
    BY <1>1, <1>2, BecomeStep

LEMMA BlockingStep ==
  ASSUME Now \in Orderly, SysWait \/ SysSleep
  PROVE  Step
  <1>1. mode = "user" /\ curr # Idle /\ TypeInv
    BY OrderlyNow DEF SysWait, SysSleep, InUserCode
  <1>2. \E call \in CallOK : Become(Start(Now, call))
    <2>1. CASE SysSleep
      BY <1>1, <2>1, CallFacts DEF SysSleep
    <2>2. CASE SysWait
      BY <1>1, <2>2, CallFacts DEF SysWait
    <2> QED
      BY <2>1, <2>2
  <1> QED
    BY <1>1, <1>2, CallerFacts, OrderlyFacts, StartAfter, BecomeStep

LEMMA SysKillStep ==
  ASSUME SIGHUP \in Sendable => -1 \notin Targets, Now \in Orderly, SysKill
  PROVE  Step
  <1>1. PICK s \in Sendable, target \in Targets \cup 2 .. pidNum - 1 :
           Become(Kill(Called, curr, target, s))
    BY DEF SysKill
  <1>2. target = -1 => s # SIGHUP
    OBVIOUS
  <1>3. curr \in Slots /\ s \in Known
    BY OrderlyNow, NowFacts, StateFacts DEF Known
  <1>4. Kill(Called, curr, target, s) \in After(Called)
    BY <1>2, <1>3, CalledStill, KillMild, MildAfter
  <1> QED
    BY <1>1, <1>4, BecomeCalled

LEMMA SysSignalStep ==
  ASSUME Now \in Orderly, SysSignal
  PROVE  Step
  <1>1. PICK s \in Sendable \ {SIGKILL, SIGSTOP}, handler \in {"NULL", "DEFAULT", "USER"} :
           Become([Called EXCEPT !.proc[curr].handlers[s] = handler])
    BY DEF SysSignal
  <1> DEFINE h == [Called.proc[curr].handlers EXCEPT ![s] = handler]
  <1>2. Become([Called EXCEPT !.proc[curr].handlers = h])
    BY <1>1
  <1>3. curr \in Slots /\ h \in [Known -> {"NULL", "DEFAULT", "USER"}]
    <2>1. curr \in Slots /\ Called.proc[curr] \in ProcessOK
      BY OrderlyNow, CalledNear, NowFacts, StateFacts
    <2>2. Called.proc[curr].handlers \in [Known -> {"NULL", "DEFAULT", "USER"}]
      BY <2>1, ProcessFacts
    <2> QED
      BY <2>1, <2>2
  <1> HIDE DEF h
  <1>4. [Called EXCEPT !.proc[curr].handlers = h] \in Still(Now)
    BY <1>3, CalledStill, QuietField
  <1> QED
    BY <1>2, <1>4, StillAfter, BecomeStep

LEMMA SigProxyRestoreStep ==
  ASSUME Now \in Orderly, SigProxyRestore
  PROVE  Step
  <1> DEFINE q == Now.proc[curr].proxied
             j == [Now EXCEPT !.proc[curr].proxied = Front(q)]
             k == [j EXCEPT !.proc[curr].call = Last(q)]
  <1>1. mode = "user" /\ q # <<>> /\ (Become(Start(k, Last(q))) \/ Become(k))
    <2>1. proc[curr].proxied = q
      BY OrderlyNow
    <2> QED
      BY <2>1 DEF SigProxyRestore
  <1>2. curr # Idle /\ curr \in Users /\ curr \in Slots
    BY <1>1, UserFacts, OrderlyNow, NowFacts, StateFacts
  <1>3. q \in Seq(CallOK)
    BY <1>2, OrderlyNow, NowFacts, StateFacts, ProcessFacts
  <1> HIDE DEF q
  <1>4. Front(q) \in Seq(CallOK) /\ Last(q) \in CallOK
    BY <1>1, <1>3, FrontLastFacts
  <1>5. k \in Still(Now)
    <2>1. j \in Still(Now)
      BY <1>2, <1>4, OrderlyFacts, QuietField
    <2> HIDE DEF j
    <2> QED
      BY <1>2, <1>4, <2>1, QuietField
  <1> HIDE DEF k
  <1>6. Start(k, Last(q)) \in After(Now)
    BY <1>1, <1>2, <1>4, <1>5, CallerFacts, StartAfter
  <1>7. k \in After(Now)
    BY <1>5, StillAfter
  <1> QED
    BY <1>1, <1>6, <1>7, BecomeStep

LEMMA SysPctrlStep ==
  ASSUME ForeStates \subseteq {"READY", "SLEEP", "STOPPED"}, Now \in Orderly, SysPctrl
  PROVE  Step
  <1>1. PICK p \in Users : \/ proc[p].state \in ForeStates /\ Become(MoveToFore(Called, p))
                           \/ Become(MoveToBack(Called, p))
    BY LookupJobFacts DEF SysPctrl
  <1>2. CASE proc[p].state \in ForeStates /\ Become(MoveToFore(Called, p))
    <2>1. Called.proc[p].state \in {"READY", "SLEEP", "STOPPED"} /\ Called \in Orderly
      BY <1>2, CalledStill
    <2> HIDE DEF Called
    <2> QED
      BY <1>2, <2>1, MoveToForeAfter, BecomeCalled
  <1>3. CASE Become(MoveToBack(Called, p))
    BY <1>3, CalledStill, MoveToBackStill, StillAfter, BecomeStep
  <1> QED
    BY <1>1, <1>2, <1>3

LEMMA StepOrderly ==
  ASSUME OrderlyUse, Now \in Orderly, [Next]_vars
  PROVE  Step
  <1>1. SIGCONT \notin Known
    BY DEF OrderlyUse, Known, SIGCONT, SIGTERM, SIGKILL, SIGCHLD
  <1>2. CASE UNCHANGED vars
    <2>1. Now' = Now
      BY <1>2 DEF vars, Now
    <2> QED
      BY <2>1, OrderlyFacts DEF Step
  <1>3. CASE Halted
    BY <1>2, <1>3 DEF Halted
  <1>4. CASE Tick \/ ScanSuspended \/ ConsiderHead \/ RunIdle \/ Resume
    BY <1>1, <1>4, TickStep, ScanSuspendedStep, ConsiderHeadStep, RunIdleStep, ResumeStep
  <1>5. CASE SysFork \/ SysForkFails \/ SysExec \/ SysExit \/ SysWait \/ SysSleep
    BY <1>5, ForkStep, SysExecStep, SysExitStep, BlockingStep
  <1>6. CASE SysKill \/ SysSignal \/ SigProxyRestore \/ SysPctrl
    BY <1>6, SysKillStep, SysSignalStep, SigProxyRestoreStep, SysPctrlStep DEF OrderlyUse
  <1> QED
    BY <1>2, <1>3, <1>4, <1>5, <1>6 DEF Next

LEMMA InitOrderly ==
  Init => Now \in Orderly
  <1> SUFFICES ASSUME Init PROVE Now \in Orderly
    OBVIOUS
  <1>1. Now \in KState
    BY InitTypes DEF TypeInv
  <1>2. /\ Now.proc = proc /\ Now.ready = <<1>> /\ Now.waiting = <<>>
        /\ Now.suspended = <<>> /\ Now.zombies = <<>>
        /\ Now.curr = Idle /\ Now.mode = "user"
    BY DEF Init, Now
  <1>3. \A q : ~ Contains(<<>>, q) /\ (Contains(<<1>>, q) <=> q = 1)
    BY DEF Contains
  <1>4. ASSUME NEW q \in Users
        PROVE  proc[q].state = IF q = 1 THEN "READY" ELSE "UNUSED"
    <2>1. q \in Slots /\ q # Idle
      BY <1>4, Sets
    <2>2. proc[q] = IF q = 1 THEN [Child(1, 0, "READY") EXCEPT !.daemon = TRUE] ELSE Blank
      BY <2>1 DEF Init
    <2> QED
      BY <2>2 DEF Child, Blank
  <1>5. \A q \in Users : Listed(Now, q)
    BY <1>2, <1>3, <1>4 DEF Listed
  <1>6. OnCpu(Now)
    BY <1>2, <1>4, Sets DEF OnCpu
  <1> QED
    BY <1>1, <1>5, <1>6 DEF Orderly, Calm

-----------------------------------------------------------------------------
(***************************************************************************)
(* Theorems.  OrderlyUse is what programs must keep to.                    *)
(***************************************************************************)
InOrder == Now \in Orderly

LEMMA OrderKept == ASSUME OrderlyUse PROVE Spec => []InOrder
  <1>1. Init => InOrder
    BY InitOrderly DEF InOrder
  <1>2. InOrder /\ [Next]_vars => InOrder'
    BY StepOrderly DEF InOrder, Step, After
  <1> QED
    BY <1>1, <1>2, PTL DEF Spec

\* Whoever is on a list of the scheduler is in the state of that list and is on
\* it once: nobody is on two lists, and no dead process is scheduled.
THEOREM ListsAgree == ASSUME OrderlyUse PROVE Spec => []ListedInState
  <1>1. InOrder => ListedInState
    <2> SUFFICES ASSUME InOrder PROVE ListedInState
      OBVIOUS
    <2>1. \A p \in Users : Listed(Now, p)
      BY DEF InOrder, Orderly, Calm
    <2>2. \A q \in {ready, waiting, suspended, zombies} : q \in Queue(Users)
      BY DEF InOrder, Orderly, KState, KRecord, Now
    <2> QED
      BY <2>1, <2>2 DEF ListedInState, Listed, Now, Queue
  <1> QED
    BY OrderKept, <1>1, PTL

\* Whoever is not running is found on the list of its state, where wake_up,
\* schedule and wait look for it; whoever is running is the current process.
THEOREM NobodyLost == ASSUME OrderlyUse PROVE Spec => []NoneLost
  <1>1. InOrder => NoneLost
    BY DEF InOrder, Orderly, Calm, Listed, OnCpu, NoneLost, Now
  <1> QED
    BY OrderKept, <1>1, PTL

\* A dead process is never made ready, put to sleep or stopped again.
THEOREM NoRevival == ASSUME OrderlyUse PROVE Spec => DeadStayDead
  <1>1. InOrder /\ [Next]_vars =>
           [\A p \in Users : proc[p].state = "KILLED" => proc'[p].state \in {"KILLED", "UNUSED"}]_vars
    BY StepOrderly DEF InOrder, Step, After, Proper, Now
  <1> QED
    BY OrderKept, <1>1, PTL DEF Spec, DeadStayDead

\* A stopped process does not run, become ready or fall asleep again, whatever it
\* is sent, whoever wakes whom, and whether or not it is brought to the foreground.
THEOREM NoResumption == ASSUME OrderlyUse PROVE Spec => StayStopped
  <1>1. InOrder /\ [Next]_vars =>
           [\A p \in Users :
               (proc[p].state = "STOPPED" /\ proc'[p].state \notin {"STOPPED", "KILLED"})
                   => SIGCONT \in proc[p].signals]_vars
    BY StepOrderly DEF InOrder, Step, After, Proper, Now
  <1> QED
    BY OrderKept, <1>1, PTL DEF Spec, StayStopped

\* Whoever gets the CPU has no signal pending: the scheduler has dealt with all
\* of them, those that its handlers posted included.
THEOREM SignalsFirst == ASSUME OrderlyUse PROVE Spec => SignalsBeforeRun
  <1>1. InOrder /\ [Next]_vars =>
           [\A p \in Users : (proc[p].state # "RUNNING" /\ proc'[p].state = "RUNNING")
                                 => proc'[p].signals = {}]_vars
    BY StepOrderly DEF InOrder, Step, After, Proper, Now
  <1> QED
    BY OrderKept, <1>1, PTL DEF Spec, SignalsBeforeRun
=============================================================================
