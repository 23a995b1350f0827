---------------------------- MODULE KernelProps ----------------------------
(***************************************************************************)
(* What the process and signal management of Kernel must guarantee.        *)
(***************************************************************************)
EXTENDS Kernel

Call == [op : {"none", "sleep", "wait"}, arg : -1 .. (MaxPid + MaxSleep),
         opts : SUBSET {"WNOHANG", "WUNTRACED"}]

Process == [state : States, pid : 0 .. MaxPid, ppid : 0 .. MaxPid, wpid : -1 .. MaxPid,
            daemon : BOOLEAN, jobs : Nat, job : Nat, event : NONE .. MaxPid,
            signals : SUBSET Known, handlers : [Known -> {"NULL", "DEFAULT", "USER"}],
            call : Call, inKernel : BOOLEAN, left : 0 .. MaxSleep, proxied : Seq(Call)]

\* The type invariant.
TypeOK ==
    /\ proc \in [Slots -> Process]
    /\ {ready, waiting, suspended, zombies} \subseteq Seq(Users)
    /\ curr \in Slots /\ fg \in Users \cup {NULL} /\ pidNum \in 1 .. MaxPid + 1
    /\ mode \in {"user", "scan", "choose", "kernel", "halt"}

\* The promises to parents and children are made while init lives
InitAlive == Alive(Now, 1)

-----------------------------------------------------------------------------
\* Whoever is on one of the four lists of ProcessControl is there once, and is
\* in the state of that list: so nobody is on two lists, although a process has
\* one next pointer only, and no dead process is scheduled.
ListedInState ==
    /\ \A q \in {ready, waiting, suspended, zombies} : NoRepeats(q)
    /\ \A p \in Users : /\ Contains(ready, p)     => proc[p].state = "READY"
                        /\ Contains(waiting, p)   => proc[p].state = "SLEEP"
                        /\ Contains(suspended, p) => proc[p].state = "STOPPED"
                        /\ Contains(zombies, p)   => proc[p].state = "KILLED"

\* Nobody is lost: whoever is not running can be found on the list of its state,
\* which wake_up, schedule, SIGCONT and wait search.
NoneLost ==
    \A p \in Users : /\ proc[p].state = "READY"   => Contains(ready, p)
                     /\ proc[p].state = "SLEEP"   => Contains(waiting, p)
                     /\ proc[p].state = "STOPPED" => Contains(suspended, p)
                     /\ proc[p].state = "KILLED"  => Contains(zombies, p)
                     /\ proc[p].state = "RUNNING" => p = curr

\* A job number means one child of a parent (find_job returns the first match),
\* also after jobs were handed over to init and numbered again.
JobsDistinct ==
    \A p, q \in Users :
        (/\ Alive(Now, p) /\ Alive(Now, q) /\ proc[p].ppid = proc[q].ppid
         /\ proc[p].job = proc[q].job /\ proc[p].job # 0) => p = q

\* The foreground process, whom the keyboard talks to, is a living process:
\* every way to die or stop passes the role on.
ForegroundAlive == InitAlive /\ fg # NULL => Alive(Now, fg)

AsleepInWait(p) == /\ proc[p].state = "SLEEP" /\ proc[p].event = STATE_CHANGE
                   /\ proc[p].inKernel /\ proc[p].call.op = "wait"

\* No wakeup is lost: nobody sleeps in wait while a child it waits for is dead,
\* or while the stop it asked to hear about (WUNTRACED) has been reported to it
\* (exit: "Wake up the process sleeping in wait to clean up this zombie process";
\* the stop handler: "Unblock the parent if it is waiting").
NoLostWakeup ==
    \A p, c \in Users : AsleepInWait(p) =>
        /\ Contains(zombies, c) /\ proc[c].ppid = proc[p].pid
              => proc[p].call.arg \notin {-1, proc[c].pid}
        /\ proc[c].state = "STOPPED" /\ proc[c].pid = proc[p].wpid
              => "WUNTRACED" \notin proc[p].call.opts

\* A process gets the CPU only when schedule has dealt with all of its pending
\* signals, those posted while it was chosen included.
SignalsBeforeRun ==
    [][\A p \in Users : (proc[p].state # "RUNNING" /\ proc'[p].state = "RUNNING")
                            => proc'[p].signals = {}]_vars

\* The dead stay dead until they are cleaned up (exit: "Set the state to killed
\* and event to PID for the wait function to sweep it later").  It holds unless
\* a dead job is brought to the foreground (move_to_fore).
DeadStayDead ==
    [][\A p \in Users : proc[p].state = "KILLED" =>
                            proc'[p].state \in {"KILLED", "UNUSED"}]_vars

\* A stopped process stays stopped until it is continued or killed, whatever is
\* sent to it, whoever wakes whom, and whether or not it is brought to the
\* foreground (move_to_fore: "Stopped processes won't resume without a continue
\* signal").  It holds unless another process is continued while the stopped one
\* is the foreground process.
StayStopped ==
    [][\A p \in Users :
          (proc[p].state = "STOPPED" /\ proc'[p].state \notin {"STOPPED", "KILLED"})
              => SIGCONT \in proc[p].signals]_vars

\* Nobody is starved: the FIFO ready queue and the timer bring every ready
\* process to the CPU (or to a signal handler that takes it off the queue),
\* whatever programs do.
ReadyRuns == \A p \in Users : proc[p].state = "READY" ~> proc[p].state # "READY"

\* A zombie of init does not stay, if programs come to their end and init
\* waits: init is woken up in time and collects it, unless init ends first.
OrphansCollected ==
    ProgramsFair =>
        \A z \in Users : (proc[z].state = "KILLED" /\ proc[z].ppid = 1 /\ InitAlive)
                            ~> (proc[z].state # "KILLED" \/ ~ InitAlive)

\* A shutdown request (SIGTERM to everybody) halts the system, if programs come
\* to their end and init waits: every process acts on the signal, init too, and
\* idle is told.
ShutdownHalts == ProgramsFair => (SIGTERM \in proc[Idle].signals ~> mode = "halt")

\* Seen as a family tree, the kernel implements Family: no step of any
\* interleaving creates, kills, adopts or collects a process in another way.
FamilyView == INSTANCE Family WITH
    stage <- [p \in Users |-> CASE proc[p].state = "UNUSED" -> "none"
                                [] proc[p].state = "KILLED" -> "dead"
                                [] OTHER                    -> "alive"],
    pid   <- [p \in Users |-> proc[p].pid],
    ppid  <- [p \in Users |-> proc[p].ppid],
    HangUps <- SIGHUP \in Sendable /\ -1 \in Targets

ImplementsFamily == FamilyView!Spec
=============================================================================
