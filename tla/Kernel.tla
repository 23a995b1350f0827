------------------------------- MODULE Kernel -------------------------------
(***************************************************************************)
(* Process and signal management of the frostbyte kernel: process/         *)
(* process.c, process/signal.c, the timer path of irq/handler.c and the    *)
(* process system calls of irq/syscall.c.                                  *)
(*                                                                         *)
(* There is one CPU, and exceptions are taken with interrupts masked, so   *)
(* kernel code runs without interruption from the entry of an exception to *)
(* the next context switch.  A C function is therefore an operator from    *)
(* kernel states to kernel states (a record k), and an action is one such  *)
(* uninterrupted stretch:                                                  *)
(*   "user"      curr runs at EL0 (or idle waits for an interrupt); it may *)
(*               make a system call, fault, or be preempted by the timer   *)
(*   "scan"      schedule() is about to scan the suspended list, which    *)
(*               happens only if there is one                              *)
(*   "choose"    schedule() is choosing the next process                   *)
(*   "kernel"    swap() has returned inside a system call that had slept   *)
(*   "halt"      the idle process was told to shut the system down         *)
(*                                                                         *)
(* Operators marked (faulty) are not part of the model: they are plausible *)
(* mistakes in the definition that follows them, which a property catches. *)
(***************************************************************************)
EXTENDS Lists

CONSTANTS
    NProc,        \* slots of process_table besides slot 0 (PROC_TABLE_SIZE - 1)
    MaxPid,       \* bound: fork is not attempted once this PID is given out
    MaxSleep,     \* bound: longest sleep, in ticks
    MaxJobs,      \* bound: job numbers a parent hands out
    MaxNest,      \* bound: user handlers a process has pending at once
    Calls,        \* system calls the processes make ("read": see Console)
    Sendable,     \* signals they send
    Targets,      \* arguments of kill that are not a PID: subset of {0, -1}
    WaitOptions,  \* option sets passed to waitpid
    ForeStates,   \* states of the jobs that "fg" is used on
    MemoryFails   \* whether copy_uvm may fail in fork

SIGHUP  == 1
SIGINT  == 2
SIGABRT == 6
SIGKILL == 9
SIGTERM == 15
SIGCHLD == 17
SIGCONT == 18
SIGSTOP == 19
SIGTSTP == 20

\* enum En_SleepEvent; a zombie's event is its own PID
NONE           == -255
SLEEP_SYSCALL  == -254
STATE_CHANGE   == -253
KEYBOARD_INPUT == -252
DAEMON_INPUT   == -251
FG_PAUSED      == -250

Idle    == 0
Users   == 1 .. NProc
Slots   == 0 .. NProc
NULL    == -1                                  \* the null process pointer
States  == {"UNUSED", "INIT", "RUNNING", "READY", "SLEEP", "STOPPED", "KILLED"}
Default == {SIGHUP, SIGINT, SIGABRT, SIGTERM, SIGKILL, SIGSTOP, SIGTSTP, SIGCONT}
Known   == Sendable \cup {SIGTERM, SIGKILL, SIGCHLD}

ASSUME KernelAssumption ==
    /\ NProc \in Nat \ {0} /\ MaxPid \in Nat \ {0} /\ MaxSleep \in Nat
    /\ MaxJobs \in Nat /\ MaxNest \in Nat /\ MemoryFails \in BOOLEAN
    /\ Calls \subseteq {"fork", "exec", "exit", "wait", "sleep", "kill", "signal", "fg", "bg", "read"}
    /\ Sendable \subseteq Default \cup {SIGCHLD}
    /\ Targets \subseteq {0, -1}
    /\ WaitOptions \subseteq SUBSET {"WNOHANG", "WUNTRACED"}
    /\ ForeStates \subseteq States

VARIABLES
    proc,        \* process_table
    ready,       \* pc.ready_que
    waiting,     \* pc.wait_list
    suspended,   \* pc.suspended
    zombies,     \* pc.zombies
    curr,        \* pc.curr_process
    fg,          \* pc.fg_process
    pidNum,      \* pid_num
    mode         \* what the CPU is doing (see above)

vars == <<proc, ready, waiting, suspended, zombies, curr, fg, pidNum, mode>>

\* The kernel state as one value, and the step to a new one
Now == [proc |-> proc, ready |-> ready, waiting |-> waiting, suspended |-> suspended,
        zombies |-> zombies, curr |-> curr, fg |-> fg, pidNum |-> pidNum, mode |-> mode]

Become(new) ==
    \E k \in {new} :
        /\ proc' = k.proc           /\ ready' = k.ready       /\ waiting' = k.waiting
        /\ suspended' = k.suspended /\ zombies' = k.zombies   /\ curr' = k.curr
        /\ fg' = k.fg               /\ pidNum' = k.pidNum     /\ mode' = k.mode

-----------------------------------------------------------------------------
(***************************************************************************)
(* The process table.  call is the last system call, with its arguments    *)
(* (what x8 and x1 of the context frame still hold), if it was one that    *)
(* can block, else NoCall; inKernel says whether the process is inside it. *)
(* left is the number of ticks until the target of sys_sleep.  proxied     *)
(* holds, for each user handler the context frame was redirected to, the   *)
(* call in the frame at that time.                                         *)
(***************************************************************************)
NoCall == [op |-> "none", arg |-> 0, opts |-> {}]

\* def_handlers: NULL where the kernel has no default handler
DefHandlers == [s \in Known |-> IF s \in Default THEN "DEFAULT" ELSE "NULL"]

\* A zeroed entry.  Every field is cleared again when the slot is allocated;
\* until then only the PID and the event of a free slot can be read, through
\* pc.fg_process and through a list the slot is still on.
Blank == [state |-> "UNUSED", pid |-> 0, ppid |-> 0, wpid |-> 0, daemon |-> FALSE,
          jobs |-> 0, job |-> 0, event |-> NONE, signals |-> {},
          handlers |-> DefHandlers, call |-> NoCall, inKernel |-> FALSE,
          left |-> 0, proxied |-> <<>>]

Free(k, p) ==
    [k EXCEPT !.proc[p] = [Blank EXCEPT !.pid = k.proc[p].pid, !.event = k.proc[p].event]]

Lookup(k, pid) ==                                            \* get_process
    LET found == {p \in Users : k.proc[p].state # "UNUSED" /\ k.proc[p].pid = pid}
    IN  IF found = {} THEN NULL ELSE Min(found)

LookupLive(k, pid) ==             \* the callers' test for a parent to inform
    LET p == Lookup(k, pid)
    IN  IF p # NULL /\ k.proc[p].state = "KILLED" THEN NULL ELSE p

\* The children of a process, those awaiting collection included
Children(k, ppid) ==
    {c \in Users : k.proc[c].state # "UNUSED" /\ k.proc[c].ppid = ppid}

LookupJob(k, job, ppid) ==                                   \* find_job
    LET found == {p \in Children(k, ppid) : k.proc[p].job = job}
    IN  IF job <= 0 \/ found = {} THEN NULL ELSE Min(found)

\* A loop over the process table, in slot order, that acts on the slots in P
InSlotOrder(k, P, Op(_, _)) ==
    FoldLeft(Op, k, Those([p \in Users |-> p], P))

-----------------------------------------------------------------------------
(***************************************************************************)
(* wake_up: everybody waiting for ev goes from the wait list to the ready  *)
(* queue, in order.                                                        *)
(***************************************************************************)
\* (faulty) Only the first is woken up
WakeUpFirst(k, ev) ==
    LET called == Those(k.waiting, {p \in Users : k.proc[p].event = ev})
    IN  IF called = <<>> THEN k
        ELSE [k EXCEPT !.waiting = Unlink(@, Head(called)),
                       !.ready = PushBack(@, Head(called)),
                       !.proc[Head(called)].event = NONE,
                       !.proc[Head(called)].state = "READY"]

WakeUp(k, ev) ==
    LET called == {p \in Users : k.proc[p].event = ev}
        woken  == Those(Without(k.waiting, ToSet(k.ready)), called)
    IN  [k EXCEPT !.waiting = Without(@, called),
                  !.ready   = @ \o woken,
                  !.proc    = [p \in Slots |->
                                 IF p \in ToSet(woken)
                                 THEN [@[p] EXCEPT !.event = NONE, !.state = "READY"]
                                 ELSE @[p]]]

(***************************************************************************)
(* kill.  Post is what all three of its branches do to one target: the     *)
(* signal becomes pending and a sleeping target is made ready to act on    *)
(* it, its event unchanged.                                                *)
(***************************************************************************)
Cancelled(s) == IF s \in {SIGSTOP, SIGTSTP} THEN {SIGCONT}
                ELSE IF s = SIGCONT THEN {SIGSTOP, SIGTSTP} ELSE {}

\* (faulty) The target is marked as ready and not queued
PostUnqueued(k, p, s) ==
    [k EXCEPT !.proc[p].signals = (@ \ Cancelled(s)) \cup {s},
              !.waiting = Unlink(@, p),
              !.proc[p].state = IF @ = "SLEEP" THEN "READY" ELSE @]

\* (faulty) The target is made ready whatever its state
PostAnyway(k, p, s) ==
    [k EXCEPT !.proc[p].signals = (@ \ Cancelled(s)) \cup {s},
              !.waiting = Unlink(@, p),
              !.ready   = IF Contains(@, p) THEN @ ELSE PushBack(@, p),
              !.proc[p].state = "READY"]

Post(k, p, s) ==
    LET marked == [k EXCEPT !.proc[p].signals = (@ \ Cancelled(s)) \cup {s}]
    IN  IF k.proc[p].state # "SLEEP" THEN marked
        ELSE [marked EXCEPT !.waiting = Unlink(@, p),
                            !.ready   = PushBack(@, p),
                            !.proc[p].state = "READY"]

PostAll(k, P, s) == InSlotOrder(k, P, LAMBDA kk, p : Post(kk, p, s))

\* Slots a group signal of process p considers: not slot 1, not the sender
Others(k, p) == {q \in Users \ {1} : k.proc[q].pid # k.proc[p].pid}

Alive(k, q) == k.proc[q].state \notin {"UNUSED", "KILLED"}

KillChildren(k, p, s) ==
    PostAll(k, {q \in Others(k, p) : Alive(k, q) /\ k.proc[q].ppid = k.proc[p].pid}, s)

\* A hang-up also frees the zombies init does not own, and restarts the PIDs;
\* a system-wide SIGTERM also marks init and idle: it is a shutdown request.
KillAll(k, p, s) ==
    LET posted == PostAll(k, {q \in Others(k, p) : Alive(k, q)}, s)
        rogue  == {q \in Others(k, p) : k.proc[q].state = "KILLED" /\ k.proc[q].ppid # 1}
        freed  == InSlotOrder(posted, rogue, Free)
    IN  CASE s = SIGHUP  -> [freed EXCEPT !.pidNum = 2]
          [] s = SIGTERM -> [posted EXCEPT !.proc[1].signals = @ \cup {s},
                                           !.proc[Idle].signals = @ \cup {s}]
          [] OTHER       -> posted

Kill(k, p, target, s) ==
    CASE target = -1 -> KillAll(k, p, s)
      [] target = 0  -> KillChildren(k, p, s)
      [] OTHER       -> LET t == Lookup(k, target)
                        IN  IF t = NULL THEN k ELSE Post(k, t, s)

-----------------------------------------------------------------------------
(***************************************************************************)
(* exit and what it shares with the signal handlers.                       *)
(***************************************************************************)
\* (faulty) A transferred job keeps its number
SwitchParentAsIs(k, old, new, transferJobs) ==
    IF LookupLive(k, new) = NULL THEN k
    ELSE InSlotOrder(k, Children(k, old), LAMBDA kk, c : [kk EXCEPT !.proc[c].ppid = new])

\* switch_parent: nothing happens if the new parent is gone.  A transferred
\* job gets the new parent's next job number, unless it is stopped.
SwitchParent(k, old, new, transferJobs) ==
    LET parent == LookupLive(k, new)
        Adopt(kk, c) ==
            LET moved == [kk EXCEPT !.proc[c].ppid = new]
            IN  IF transferJobs /\ kk.proc[c].job # 0 /\ kk.proc[c].state # "STOPPED"
                THEN [moved EXCEPT !.proc[parent].jobs = @ + 1,
                                   !.proc[c].job = kk.proc[parent].jobs + 1]
                ELSE moved
    IN  IF parent = NULL THEN k ELSE InSlotOrder(k, Children(k, old), Adopt)

IsForeground(k, p) == k.fg # NULL /\ k.proc[p].pid = k.proc[k.fg].pid

HandOverNever(k, p, parent) == k                                  \* (faulty)

\* The process gives up being the foreground process: to its parent, or to
\* whoever claims the role next
HandOver(k, p, parent) ==
    IF ~ IsForeground(k, p) THEN k
    ELSE [k EXCEPT !.fg = IF parent # NULL /\ ~ k.proc[parent].daemon THEN parent ELSE NULL]

Yield(k, p) == IF IsForeground(k, p) THEN [k EXCEPT !.fg = NULL] ELSE k

\* Whoever was paused while p ran in the foreground may go on
Unpause(k, p) == IF k.proc[p].daemon THEN k ELSE WakeUp(k, FG_PAUSED)

Notify(k, parent) ==
    IF parent = NULL THEN k
    ELSE [k EXCEPT !.proc[parent].signals = @ \cup {SIGCHLD}]

MarkKilled(k, p) == [k EXCEPT !.proc[p].state = "KILLED", !.proc[p].event = k.proc[p].pid]

KillJobNot(k, job) == k                                           \* (faulty)

\* A stopped job of an exiting process dies with it, and its children get SIGTERM
KillJob(k, job) ==
    LET killed == KillChildren(MarkKilled(k, job), job, SIGTERM)
    IN  [killed EXCEPT !.suspended = Unlink(@, job), !.zombies = PushBack(@, job)]

\* exit, up to the call of schedule
ExitProcess(k, p) ==
    LET me       == k.proc[p]
        parent   == LookupLive(k, me.ppid)
        marked   == MarkKilled(k, p)
        informed == IF parent # NULL THEN Notify(marked, parent)
                    ELSE [marked EXCEPT !.proc[p].ppid = 1]
        jobs     == {j \in Users : k.proc[j].state = "STOPPED" /\ k.proc[j].ppid = me.pid}
        jobless  == FoldLeft(KillJob, informed, Those(k.suspended, jobs))
        orphaned == SwitchParent(jobless, me.pid, 1, TRUE)
        released == Unpause(HandOver(orphaned, p, Lookup(k, me.ppid)), p)
    IN  WakeUp([released EXCEPT !.zombies = PushBack(@, p)], STATE_CHANGE)

-----------------------------------------------------------------------------
(***************************************************************************)
(* signal.c: the default handlers, and check_pending_signals.              *)
(***************************************************************************)
Unprivileged(k, p) == k.proc[p].pid \notin {0, 1}

DequeueNot(k, p) == k                                             \* (faulty)

\* Off the ready queue or, failing that, off the wait list
Dequeue(k, p) == IF Contains(k.ready, p) THEN [k EXCEPT !.ready = Unlink(@, p)]
                 ELSE [k EXCEPT !.waiting = Unlink(@, p)]

Terminate(k, p) == ExitProcess(Dequeue(k, p), p)

KillNow(k, p) ==
    LET me       == k.proc[p]
        informed == Notify(k, LookupLive(k, me.ppid))
        removed  == IF me.state = "STOPPED" THEN [informed EXCEPT !.suspended = Unlink(@, p)]
                    ELSE Unpause(HandOver(Dequeue(informed, p), p, Lookup(k, me.ppid)), p)
        orphaned == KillChildren(SwitchParent(removed, me.pid, 1, FALSE), p, SIGKILL)
        dead     == [MarkKilled(orphaned, p) EXCEPT !.proc[p].daemon = FALSE,
                                                    !.zombies = PushBack(@, p)]
    IN  IF Unprivileged(k, p) THEN WakeUp(dead, STATE_CHANGE) ELSE k

\* The parent is told, and told whom to look at; a new job gets a number
InformOfStop(k, p, parent) ==
    IF parent = NULL THEN k
    ELSE LET told == [Notify(k, parent) EXCEPT !.proc[parent].wpid = k.proc[p].pid]
         IN  IF k.proc[p].job # 0 THEN told
             ELSE [told EXCEPT !.proc[parent].jobs = @ + 1,
                               !.proc[p].job = k.proc[parent].jobs + 1]

Stop(k, p) ==
    LET ppid     == k.proc[p].ppid
        informed == InformOfStop(Dequeue(k, p), p, LookupLive(k, ppid))
        released == Unpause(HandOver(informed, p, Lookup(k, ppid)), p)
        stopped  == [released EXCEPT !.proc[p].state = "STOPPED", !.suspended = PushBack(@, p)]
    IN  IF Unprivileged(k, p) /\ k.proc[p].state # "STOPPED"
        THEN WakeUp(stopped, STATE_CHANGE) ELSE k

\* The foreground process makes way for a continued one
PauseForeground(k) ==
    IF k.fg = NULL THEN k
    ELSE [k EXCEPT !.proc[k.fg].state = "SLEEP", !.proc[k.fg].event = FG_PAUSED,
                   !.ready = Unlink(@, k.fg), !.waiting = PushBack(@, k.fg)]

\* Off the suspended list: ready if it waited for nothing, else asleep again
Unsuspend(k, p) ==
    LET me == k.proc[p]
    IN  IF me.event = NONE
        THEN [k EXCEPT !.suspended = Unlink(@, p), !.ready = PushBack(@, p),
                       !.proc[p].state = "READY"]
        ELSE [k EXCEPT !.suspended = Unlink(@, p), !.waiting = PushBack(@, p),
                       !.proc[p].state = "SLEEP",
                       !.proc[p].event = IF ~ me.daemon /\ @ = DAEMON_INPUT
                                         THEN KEYBOARD_INPUT ELSE @]

Continue(k, p) ==
    LET resumed == Unsuspend(k, p)
        shown   == IF k.proc[p].daemon THEN resumed
                   ELSE [PauseForeground(resumed) EXCEPT !.fg = p]
    IN  IF Unprivileged(k, p) /\ k.proc[p].state = "STOPPED"
        THEN Notify(shown, LookupLive(k, k.proc[p].ppid)) ELSE k

DefaultHandler(k, p, s) ==                                \* def_handler_entry
    CASE s \in {SIGHUP, SIGINT, SIGABRT, SIGTERM} -> Terminate(k, p)
      [] s = SIGKILL                              -> KillNow(k, p)
      [] s \in {SIGTSTP, SIGSTOP}                 -> Stop(k, p)
      [] s = SIGCONT                              -> Continue(k, p)
      [] OTHER                                    -> k

\* The context frame of p is redirected to the proxy of its own handler, which
\* is used once; SIGCONT continues the process all the same.
Redirect(k, p, s) ==
    LET resumed == IF s = SIGCONT THEN Continue(k, p) ELSE k
    IN  [resumed EXCEPT !.proc[p].proxied = Append(@, k.proc[p].call),
                        !.proc[p].handlers[s] = DefHandlers[s]]

\* A process that was woken for the signal alone resumes its sleep
Resleep(k, p) ==
    IF Contains(k.ready, p) /\ k.proc[p].event # NONE
    THEN [k EXCEPT !.ready = Unlink(@, p), !.waiting = PushBack(@, p),
                   !.proc[p].state = "SLEEP"]
    ELSE k

\* One turn of the loop over the signals.  A dead process handles none, a
\* stopped one only SIGKILL and SIGCONT.
Deliver(k, p, s) ==
    LET handler  == k.proc[p].handlers[s]
        handled  == CASE handler = "USER"    -> Redirect(k, p, s)
                      [] handler = "DEFAULT" -> DefaultHandler(k, p, s)
                      [] OTHER               -> k
        cleared  == [handled EXCEPT !.proc[p].signals = @ \ {s}]
    IN  IF \/ s \notin k.proc[p].signals \/ ~ Alive(k, p)
           \/ k.proc[p].state = "STOPPED" /\ s \notin {SIGKILL, SIGCONT}
        THEN k
        ELSE IF handler = "USER" THEN cleared ELSE Resleep(cleared, p)

SignalOrder ==
    Those(<<SIGHUP, SIGINT, SIGABRT, SIGKILL, SIGTERM, SIGCHLD, SIGCONT, SIGSTOP, SIGTSTP>>, Known)

\* (faulty) One signal at a time
CheckOneSignal(k, p) ==
    IF k.proc[p].signals = {} THEN k ELSE Deliver(k, p, Min(k.proc[p].signals))

CheckPendingSignals(k, p) ==
    IF k.proc[p].signals = {} THEN k
    ELSE FoldLeft(LAMBDA kk, s : Deliver(kk, p, s), k, SignalOrder)

-----------------------------------------------------------------------------
(***************************************************************************)
(* The scheduler.  schedule() first gives every suspended process a chance *)
(* to act on SIGKILL or SIGCONT (ScanSuspended), then goes through the     *)
(* ready queue (ConsiderHead, one step per turn of the loop), and in the   *)
(* end idle runs (RunIdle).                                                *)
(***************************************************************************)
Schedule(k) == [k EXCEPT !.mode = IF k.suspended = <<>> THEN "choose" ELSE "scan"]

ScanSuspended ==
    /\ mode = "scan"
    /\ Become([FoldLeft(CheckPendingSignals, Now, suspended) EXCEPT !.mode = "choose"])

Sleep(k, ev) == Schedule([k EXCEPT !.proc[k.curr].state = "SLEEP", !.proc[k.curr].event = ev,
                                   !.waiting = PushBack(@, k.curr)])

\* trigger_scheduler
Preempt(k) ==
    IF k.ready = <<>> THEN k
    ELSE Schedule([k EXCEPT !.proc[k.curr].state = "READY",
                            !.ready = IF k.curr = Idle THEN @ ELSE PushBack(@, k.curr)])

\* A process that is not a daemon claims the foreground if nobody has it
Dispatch(k, p) ==
    [k EXCEPT !.ready = Tail(@), !.curr = p, !.proc[p].state = "RUNNING",
              !.fg = IF @ = NULL /\ ~ k.proc[p].daemon THEN p ELSE @,
              !.mode = IF k.proc[p].inKernel THEN "kernel" ELSE "user"]

\* The process at the head acts on its signals first.  If it is at the head
\* even then it gets the CPU, else the next one is considered.
ConsiderHead ==
    /\ mode = "choose" /\ ready # <<>>
    /\ \E k \in {CheckPendingSignals(Now, Head(ready))} :
          Become(IF k.ready # <<>> /\ Head(k.ready) = Head(ready)
                 THEN Dispatch(k, Head(ready)) ELSE k)

\* (faulty) The request is looked up at init, who has acted on it
RunIdleAsksInit ==
    /\ mode = "choose" /\ ready = <<>>
    /\ Become([Now EXCEPT !.curr = Idle, !.proc[Idle].state = "RUNNING",
                          !.mode = IF waiting = <<>> /\ SIGTERM \in proc[1].signals
                                   THEN "halt" ELSE "user"])

\* (faulty) Idle takes the foreground, as if it were no daemon
RunIdleInFront ==
    /\ mode = "choose" /\ ready = <<>>
    /\ Become([Now EXCEPT !.curr = Idle, !.proc[Idle].state = "RUNNING",
                          !.fg = IF @ = NULL THEN Idle ELSE @, !.mode = "user"])

\* Nobody is ready: idle runs.  If nobody waits either and a shutdown was
\* requested, idle is told to halt the system.
RunIdle ==
    /\ mode = "choose" /\ ready = <<>>
    /\ Become([Now EXCEPT !.curr = Idle, !.proc[Idle].state = "RUNNING",
                          !.mode = IF waiting = <<>> /\ SIGTERM \in proc[Idle].signals
                                   THEN "halt" ELSE "user"])

\* The timer interrupt, 100 times a second
Tick ==
    /\ mode = "user"
    /\ LET later == [Now EXCEPT !.proc = [p \in Slots |->
                        [proc[p] EXCEPT !.left = IF @ > 0 THEN @ - 1 ELSE 0]]]
       IN  Become(Preempt(WakeUp(later, SLEEP_SYSCALL)))

-----------------------------------------------------------------------------
(***************************************************************************)
(* System calls that block.  Enter starts one, Leave returns to EL0.       *)
(***************************************************************************)
Enter(k, call) ==
    [k EXCEPT !.proc[k.curr].call = call, !.proc[k.curr].inKernel = TRUE]

\* The registers of a finished call matter to the restart of an interrupted
\* call only, so they are forgotten when no process installs a handler.
Leave(k) ==
    [k EXCEPT !.proc[k.curr].inKernel = FALSE, !.mode = "user",
              !.proc[k.curr].call = IF "signal" \in Calls THEN @ ELSE NoCall]

\* One turn of the loop of sys_sleep
SleepLoop(k) == IF k.proc[k.curr].left > 0 THEN Sleep(k, SLEEP_SYSCALL) ELSE Leave(k)

\* (faulty) Init takes every child whose parent does not wait, dead or not
FosterLiving(k) ==
    [k EXCEPT !.proc = [p \in Slots |->
        IF \E q \in Users : /\ k.proc[p].state # "UNUSED" /\ k.proc[p].ppid = k.proc[q].pid
                            /\ k.proc[q].state # "UNUSED"
                            /\ k.proc[q].wpid >= 0 /\ k.proc[q].wpid # k.proc[p].pid
        THEN [@[p] EXCEPT !.ppid = 1] ELSE @[p]]]

\* Init takes the zombies whose parent is gone or is not waiting for them.  (A
\* parent whose wpid is negative waits for any child.)
Foster(k) ==
    LET abandoned(z) ==
            LET parent == Lookup(k, k.proc[z].ppid)
            IN  \/ parent = NULL
                \/ /\ k.proc[parent].wpid >= 0
                   /\ k.proc[parent].wpid # k.proc[z].pid
    IN  [k EXCEPT !.proc = [p \in Slots |->
            IF Contains(k.zombies, p) /\ @[p].ppid # 1 /\ abandoned(p)
            THEN [@[p] EXCEPT !.ppid = 1] ELSE @[p]]]

\* (faulty) The slot is not freed
ReapNoSlot(k, z) == [k EXCEPT !.zombies = Unlink(@, z)]

\* wait removes the zombie and frees its slot, unless it is not dead any more
Reap(k, z) ==
    LET removed == [k EXCEPT !.zombies = Unlink(@, z)]
    IN  IF k.proc[z].state = "KILLED" THEN Free(removed, z) ELSE removed

\* One turn of the loop of wait, for curr, with the arguments of its call
WaitLoop(k) ==
    LET c        == k.curr
        call     == k.proc[c].call
        known    == IF k.proc[c].wpid > 1 THEN Lookup(k, k.proc[c].wpid) ELSE NULL
        stopped  == known # NULL /\ k.proc[known].state = "STOPPED" /\ Contains(k.suspended, known)
        acked    == IF stopped THEN [k EXCEPT !.proc[c].wpid = call.arg] ELSE k
        ours     == IF k.proc[c].pid = 1 THEN Foster(acked) ELSE acked
        children == Children(ours, ours.proc[c].pid)
        dead     == {p \in children : Contains(ours.zombies, p)}
        wpid     == IF call.arg = -1 /\ dead # {} THEN ours.proc[Min(dead)].pid ELSE call.arg
        hasChild == IF call.arg = -1 THEN children # {} ELSE Lookup(ours, call.arg) \in children
        found    == Those(ours.zombies, {p \in Users : ours.proc[p].event = wpid})
    IN  CASE stopped /\ "WUNTRACED" \in call.opts                  -> Leave(acked)
          [] ~ (stopped /\ "WUNTRACED" \in call.opts) /\ ~ hasChild -> Leave(ours)
          [] OTHER -> IF found # <<>> THEN Leave(Reap(ours, Head(found)))
                      ELSE IF "WNOHANG" \in call.opts THEN Leave(ours)
                      ELSE Sleep(ours, STATE_CHANGE)

Start(k, call) ==
    CASE call.op = "sleep" -> SleepLoop([Enter(k, call) EXCEPT !.proc[k.curr].left = call.arg])
      [] call.op = "wait"  -> WaitLoop([Enter(k, call) EXCEPT !.proc[k.curr].wpid = call.arg])
      [] OTHER             -> k

\* swap() returns inside the call the process had slept in
Resume ==
    /\ mode = "kernel" /\ proc[curr].call.op \in {"sleep", "wait"}
    /\ Become(IF proc[curr].call.op = "sleep" THEN SleepLoop(Now) ELSE WaitLoop(Now))

InUserCode(call) == mode = "user" /\ curr # Idle /\ call \in Calls

\* user/init/main.c runs: it forks, waits, sleeps and signals everybody
InitProcess == proc[curr].pid = 1

SysSleep ==
    /\ InUserCode("sleep")
    /\ \E n \in 0 .. MaxSleep :
          Become(Start(Now, [op |-> "sleep", arg |-> n, opts |-> {}]))

\* The PIDs waitpid is called with: any, or one that has been given out.  Init
\* waits for any child, without options.
SysWait ==
    /\ InUserCode("wait")
    /\ \E pid \in {-1} \cup 2 .. pidNum - 1, opts \in WaitOptions :
          /\ InitProcess => pid = -1 /\ opts = {}
          /\ Become(Start(Now, [op |-> "wait", arg |-> pid, opts |-> opts]))

-----------------------------------------------------------------------------
(***************************************************************************)
(* System calls that do not block.                                         *)
(***************************************************************************)
\* The context frame holds a call that does not block
Called == [Now EXCEPT !.proc[curr].call = NoCall]

FreeSlots == {p \in Users : proc[p].state = "UNUSED"}

\* alloc_new_process: the lowest free slot, zeroed (with its next pointer), and
\* the next PID
Child(pid, ppid, state) ==
    [Blank EXCEPT !.pid = pid, !.ppid = ppid, !.state = state]

Allocate(k, state) ==
    LET c == Min(FreeSlots)
    IN  [Yield(k, k.curr) EXCEPT !.proc[c] = Child(k.pidNum, k.proc[k.curr].pid, state),
                                 !.zombies = CutAfter(@, c),
                                 !.pidNum  = @ + 1]

SysFork ==
    /\ InUserCode("fork")
    /\ FreeSlots # {} /\ pidNum <= MaxPid
    /\ Become([Allocate(Called, "READY") EXCEPT !.ready = PushBack(@, Min(FreeSlots))])

\* copy_uvm runs out of memory: the new entry stays as it is
SysForkFails ==
    /\ InUserCode("fork") /\ MemoryFails
    /\ FreeSlots # {} /\ pidNum <= MaxPid
    /\ Become(Allocate(Called, "INIT"))

\* An argument "&" makes a job of the process
Background(k, p) ==
    LET parent == LookupLive(k, k.proc[p].ppid)
        daemon == [Yield(k, p) EXCEPT !.proc[p].daemon = TRUE]
    IN  IF parent = NULL THEN daemon
        ELSE [daemon EXCEPT !.proc[parent].jobs = @ + 1,
                            !.proc[p].job = k.proc[parent].jobs + 1]

InitHandlers(k, p) == [k EXCEPT !.proc[p].signals = {}, !.proc[p].handlers = DefHandlers]

\* exec of a program that can be opened.  The old program is gone when the read
\* fails, so that the process must exit.
SysExec ==
    /\ InUserCode("exec") /\ ~ InitProcess
    /\ \E background, readable \in BOOLEAN :
          LET named == IF background THEN Background(Called, curr) ELSE Called
          IN  /\ \A p \in Users : named.proc[p].jobs <= MaxJobs
              /\ Become(IF readable
                        THEN [InitHandlers(named, curr) EXCEPT !.proc[curr].proxied = <<>>]
                        ELSE Schedule(ExitProcess(named, curr)))

\* sys_exit, or a fault at EL0.  Init returns when it has no child to wait for.
SysExit ==
    /\ InUserCode("exit")
    /\ InitProcess => \A p \in Users : proc[p].state # "UNUSED" => proc[p].ppid # 1
    /\ Become(Schedule(ExitProcess(Now, curr)))

\* sys_kill refuses to signal init
SysKill ==
    /\ InUserCode("kill")
    /\ \E s \in Sendable, target \in Targets \cup 2 .. pidNum - 1 :
          /\ InitProcess => target = -1 /\ s \in {SIGHUP, SIGTERM}
          /\ Become(Kill(Called, curr, target, s))

\* sys_signal: SIGKILL and SIGSTOP cannot be caught
SysSignal ==
    /\ InUserCode("signal") /\ ~ InitProcess /\ Len(proc[curr].proxied) < MaxNest
    /\ \E s \in Sendable \ {SIGKILL, SIGSTOP}, handler \in {"NULL", "DEFAULT", "USER"} :
          Become([Called EXCEPT !.proc[curr].handlers[s] = handler])

\* The proxy handler returns, and the context frame is as it was before.  If the
\* process is still marked as waiting for its event, the call in the frame is
\* made again, unless x0, where the number of arguments should be, is negative
\* (as after a call that failed).  To make a call again that does not block is
\* one of the next steps that the program is free to take anyway.
SigProxyRestore ==
    /\ mode = "user" /\ proc[curr].proxied # <<>>
    /\ LET call == Last(proc[curr].proxied)
           k    == [Now EXCEPT !.proc[curr].proxied = Front(@), !.proc[curr].call = call]
       IN  \/ Become(k)
           \/ proc[curr].event # NONE /\ Become(Start(k, call))

\* (faulty) The process is queued even if it is queued already
MoveToForeAgain(k, p) ==
    [k EXCEPT !.proc[p].daemon = FALSE, !.fg = p, !.waiting = Unlink(@, p),
              !.ready = PushBack(@, p), !.proc[p].state = "READY"]

\* (faulty) A stopped job runs again at once
MoveToForeStopped(k, p) ==
    [k EXCEPT !.proc[p].daemon = FALSE, !.fg = p,
              !.suspended = Unlink(@, p), !.waiting = Unlink(@, p),
              !.ready = IF Contains(@, p) THEN @ ELSE PushBack(@, p),
              !.proc[p].state = "READY"]

\* The job may use the keyboard from now on; a stopped one stays stopped
MoveToFore(k, p) ==
    LET input == [k EXCEPT !.proc[p].event = IF @ = DAEMON_INPUT THEN KEYBOARD_INPUT ELSE @]
        awake == IF k.proc[p].state # "SLEEP" THEN input
                 ELSE [input EXCEPT !.waiting = Unlink(@, p), !.proc[p].state = "READY"]
    IN  IF k.proc[p].state = "STOPPED" THEN [k EXCEPT !.proc[p].daemon = FALSE]
        ELSE [awake EXCEPT !.proc[p].daemon = FALSE, !.fg = p,
                           !.ready = IF Contains(@, p) THEN @ ELSE PushBack(@, p)]

MoveToBack(k, p) ==
    IF k.proc[p].state # "STOPPED" THEN k
    ELSE [k EXCEPT !.proc[p].daemon = TRUE,
                   !.proc[p].event = IF @ \in {KEYBOARD_INPUT, FG_PAUSED}
                                     THEN DAEMON_INPUT ELSE @]

\* sys_pctrl, on a job of the caller's parent
SysPctrl ==
    /\ mode = "user" /\ curr # Idle /\ ~ InitProcess
    /\ \E job \in 1 .. MaxJobs :
          LET p == LookupJob(Now, job, proc[curr].ppid)
          IN  /\ p # NULL
              /\ \/ /\ "fg" \in Calls /\ proc[p].state \in ForeStates
                    /\ Become(MoveToFore(Called, p))
                 \/ /\ "bg" \in Calls
                    /\ Become(MoveToBack(Called, p))

-----------------------------------------------------------------------------
\* init_process: idle runs, and init is ready.  Both are daemons.
Init ==
    /\ proc = [p \in Slots |->
                 CASE p = Idle -> [Blank EXCEPT !.state = "RUNNING", !.daemon = TRUE]
                   [] p = 1    -> [Child(1, 0, "READY") EXCEPT !.daemon = TRUE]
                   [] OTHER    -> Blank]
    /\ ready = <<1>> /\ waiting = <<>> /\ suspended = <<>> /\ zombies = <<>>
    /\ curr = Idle /\ fg = NULL /\ pidNum = 2 /\ mode = "user"

\* The idle loop of boot.s is over: the system stays as it is
Halted == mode = "halt" /\ UNCHANGED vars

Next ==
    \/ Halted
    \/ Tick \/ ScanSuspended \/ ConsiderHead \/ RunIdle \/ Resume
    \/ SysFork \/ SysForkFails \/ SysExec \/ SysExit \/ SysWait \/ SysSleep
    \/ SysKill \/ SysSignal \/ SigProxyRestore \/ SysPctrl

Spec == Init /\ [][Next]_vars

(***************************************************************************)
(* Fairness.  The timer interrupts whatever runs outside the kernel.       *)
(* Interrupts are masked inside, so the kernel's own steps (ScanSuspended, *)
(* ConsiderHead, RunIdle, Resume: one of them is possible in every such    *)
(* state) just follow one another.  KernelProceeds is WF_vars of these     *)
(* steps, with the condition that enables them written out.                *)
(***************************************************************************)
InKernel == mode \in {"scan", "choose", "kernel"}

KernelProceeds == []<>(~ InKernel) \/ []<><<InKernel>>_vars

FairSpec == Spec /\ WF_vars(Tick) /\ KernelProceeds

\* A program that gets the CPU again and again makes its next call: init waits
\* or, without children, returns; the others come to their end.  This is strong
\* fairness of those calls, with the condition that enables them written out.
Runs(p) == mode = "user" /\ curr = p

InitGoesOn ==
    \/ <>[](~ (mode = "user" /\ InitProcess))
    \/ []<><<InitProcess /\ (SysWait \/ SysExit)>>_vars

ProgramsEnd ==
    \A p \in Users : \/ <>[](~ (Runs(p) /\ ~ InitProcess))
                     \/ []<><<Runs(p) /\ ~ InitProcess /\ SysExit>>_vars

ProgramsFair == InitGoesOn /\ ProgramsEnd
=============================================================================
