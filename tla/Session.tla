------------------------------ MODULE Session ------------------------------
(***************************************************************************)
(* The programs of a session on top of Console: user/init, user/login,     *)
(* user/shell and the commands that act on processes (user/jobctl, which   *)
(* is fg and bg, user/exit, user/shutdown).  A job is any other command:   *)
(* it reads the keyboard, computes and ends.  at holds, for each process,  *)
(* the system call its program makes next, or is in; what lies between two *)
(* calls is taken together with the call after it.  A line the user types  *)
(* is one key.                                                             *)
(*                                                                         *)
(* The user does not stop fg, bg, exit and shutdown by Ctrl-Z, which are   *)
(* over in a moment.  Left out: Ctrl-C, nested shells, the kill command,   *)
(* and command names that are not found.                                   *)
(***************************************************************************)
EXTENDS Console

CONSTANTS
    MaxAttempts,    \* MAX_LOGIN_ATTEMPTS
    Commands        \* what the user types: "job", "job &", "fg", "bg", "exit", "shutdown"

ASSUME SessionAssumption ==
    /\ MaxAttempts \in Nat \ {0}
    /\ Commands \subseteq {"job", "job &", "fg", "bg", "exit", "shutdown"}

VARIABLES
    at,         \* where the program of each process is
    shellPid    \* login_shell_pid, in init's memory

session == <<vars, keyboard, at, shellPid>>

Gone == <<"gone">>

\* A program ends with its process
Going(f) == [p \in Users |-> IF proc'[p].state \in {"UNUSED", "KILLED"} THEN Gone ELSE f[p]]

Stay     == at' = Going(at)
Goto(pc) == at' = Going([at EXCEPT ![curr] = pc])

At(label) == mode = "user" /\ curr # Idle /\ at[curr][1] = label

\* A call that does not block, and what the program does after it
Does(label, k, pc) == At(label) /\ Become(k) /\ Goto(pc) /\ UNCHANGED <<keyboard, shellPid>>

-----------------------------------------------------------------------------
(***************************************************************************)
(* Where a program goes on when a call that may block has returned.        *)
(***************************************************************************)
\* Whom wait took off the zombie list.  The event it was found by is the PID that
\* wait returns, whether the process is still dead or not.
Found == {z \in Users : Contains(zombies, z) /\ ~ Contains(zombies', z)}

\* init: the loop over wait
AfterWait == IF Found = {} THEN <<"return">>
             ELSE IF \E z \in Found : proc[z].event = shellPid THEN <<"hangup">> ELSE <<"reap">>

\* What the user can enter: each command needs a PID
Typed == {c \in Commands : pidNum < MaxPid \/ c \in {"exit", "shutdown"}}

After(pc) ==
    CASE pc[1] = "reap"   -> {AfterWait}
      [] pc[1] = "nap"    -> {<<"respawn">>}
      [] pc[1] = "name"   -> {<<"exec", "shell">>, <<"delay", pc[2] - 1>>}
      [] pc[1] = "delay"  -> {IF pc[2] = 0 THEN <<"giveup">> ELSE <<"name", pc[2]>>}
      [] pc[1] = "prompt" -> {<<"fork", c>> : c \in Typed}
      [] pc[1] = "await"  -> {<<"prompt">>}
      [] OTHER            -> {pc}

Returns == IF proc'[curr].inKernel THEN Stay ELSE \E pc \in After(at[curr]) : Goto(pc)

Blocks(label, call) ==
    At(label) /\ Become(Start(Now, call)) /\ Returns /\ UNCHANGED <<keyboard, shellPid>>

\* The kernel goes on with a call that has blocked
Awake == ((Resume /\ UNCHANGED keyboard) \/ ResumeRead) /\ Returns /\ UNCHANGED shellPid

\* getchar
Reads(label) == At(label) /\ Foreground(Now) # NULL /\ SysKeyboardRead /\ Returns /\ UNCHANGED shellPid

Exits(label) == Does(label, Schedule(ExitProcess(Now, curr)), Gone)

\* fork: the child gets the program counter child
Forks(pc, child) ==
    /\ Become([Allocate(Called, "READY") EXCEPT !.ready = PushBack(@, Min(FreeSlots))])
    /\ at' = Going([at EXCEPT ![curr] = pc, ![Min(FreeSlots)] = child])
    /\ UNCHANGED keyboard

-----------------------------------------------------------------------------
(***************************************************************************)
(* user/init/main.c                                                        *)
(***************************************************************************)
\* A login is started; without a free slot init goes on at failed
StartLogin(label, failed) ==
    /\ At(label)
    /\ IF FreeSlots = {} THEN UNCHANGED <<vars, keyboard, shellPid>> /\ Goto(failed)
       ELSE Forks(<<"reap">>, <<"exec", "login">>) /\ shellPid' = pidNum

InitSpawn   == StartLogin("spawn", <<"return">>)
InitRespawn == StartLogin("respawn", <<"giveup">>)

InitWait   == Blocks("reap", [op |-> "wait", arg |-> -1, opts |-> {}])
InitHangUp == Does("hangup", Kill(Called, curr, -1, SIGHUP), <<"nap">>)

\* (faulty) The next login is started at once
InitNapNot == Does("nap", Now, <<"respawn">>)

InitNap == Blocks("nap", [op |-> "sleep", arg |-> 1, opts |-> {}])

-----------------------------------------------------------------------------
(***************************************************************************)
(* user/login/main.c                                                       *)
(***************************************************************************)
\* signal(SIGTSTP, SIG_IGN), also in the shell
Mute == /\ At("mute")
        /\ Become([Called EXCEPT !.proc[curr].handlers[SIGTSTP] = "NULL"])
        /\ Goto(Tail(at[curr])) /\ UNCHANGED <<keyboard, shellPid>>

LoginReads  == Reads("name")
LoginDelay  == Blocks("delay", [op |-> "sleep", arg |-> 1, opts |-> {}])
GiveUp      == Does("giveup", Kill(Called, curr, -1, SIGTERM), <<"return">>)

-----------------------------------------------------------------------------
(***************************************************************************)
(* user/shell/main.c                                                       *)
(***************************************************************************)
ShellReads == Reads("prompt")

\* After a failed fork the shell waits for the PID -1, which is any child
ShellForks ==
    /\ At("fork")
    /\ LET command == at[curr][2]
           wait(pid) == IF command = "job &" THEN <<"prompt">> ELSE <<"await", pid>>
       IN  IF FreeSlots = {} THEN UNCHANGED <<vars, keyboard>> /\ Goto(wait(-1))
           ELSE Forks(wait(pidNum), <<"exec", command>>)
    /\ UNCHANGED shellPid

ShellWaits == At("await")
    /\ Blocks("await", [op |-> "wait", arg |-> at[curr][2], opts |-> {"WUNTRACED"}])

-----------------------------------------------------------------------------
(***************************************************************************)
(* The programs that replace login and the children of the shell.          *)
(***************************************************************************)
Entry == [login |-> <<"mute", "name", MaxAttempts>>, shell |-> <<"mute", "prompt">>,
          exit  |-> <<"term">>, shutdown |-> <<"giveup">>, job |-> <<"job">>]
             @@ ("job &" :> <<"job">>) @@ ("fg" :> <<"look", "fg">>) @@ ("bg" :> <<"look", "bg">>)

Exec ==
    /\ At("exec")
    /\ LET program == at[curr][2]
           named   == IF program = "job &" THEN Background(Called, curr) ELSE Called
       IN  /\ \A p \in Users : named.proc[p].jobs <= MaxJobs
           /\ Become(InitHandlers(named, curr)) /\ Goto(Entry[program])
    /\ UNCHANGED <<keyboard, shellPid>>

JobReads == Reads("job")
JobEnds  == Exits("job")

\* user/jobctl/main.c: the first job of the shell, which bg wants to be stopped
JobctlLooks ==
    /\ At("look") /\ UNCHANGED <<vars, keyboard, shellPid>>
    /\ LET jobs == {p \in Children(Now, proc[curr].ppid) : Alive(Now, p) /\ proc[p].job > 0}
           job  == Min(jobs)
       IN  IF jobs = {} \/ (at[curr][2] = "bg" /\ proc[job].state # "STOPPED")
           THEN Goto(<<"return">>)
           ELSE Goto(<<"set", at[curr][2], proc[job].job, proc[job].pid>>)

JobctlSets ==
    /\ At("set")
    /\ LET job == LookupJob(Now, at[curr][3], proc[curr].ppid)
       IN  IF job = NULL THEN UNCHANGED vars /\ Goto(<<"return">>)
           ELSE /\ Become(IF at[curr][2] = "fg" THEN MoveToFore(Called, job) ELSE MoveToBack(Called, job))
                /\ Goto(<<"cont", at[curr][4]>>)
    /\ UNCHANGED <<keyboard, shellPid>>

JobctlContinues == At("cont") /\ Does("cont", Kill(Called, curr, at[curr][2], SIGCONT), <<"return">>)

\* user/exit/main.c
ExitAsks == Does("term", Kill(Called, curr, proc[curr].ppid, SIGTERM), <<"return">>)

Return == Exits("return")

-----------------------------------------------------------------------------
\* The process runs one of the commands, which are over in a moment
Command(p) == \/ at[p][1] \in {"look", "set", "cont", "term", "giveup", "return"}
              \/ at[p][1] = "exec" /\ at[p][2] \in {"fg", "bg", "exit", "shutdown"}

SessionInit ==
    /\ ConsoleInit /\ shellPid = 0
    /\ at = [p \in Users |-> IF p = 1 THEN <<"spawn">> ELSE Gone]

\* The interrupts, and the kernel between two programs.  Keys are typed while
\* there is a foreground process.
KernelStep ==
    /\ \/ (Halted \/ Tick \/ ScanSuspended \/ ConsiderHead \/ RunIdle) /\ UNCHANGED keyboard
       \/ /\ Foreground(Now) # NULL /\ UartInterrupt
          /\ Command(fg) => proc'[fg].signals = proc[fg].signals
    /\ Stay /\ UNCHANGED shellPid

Program ==
    \/ InitSpawn \/ InitRespawn \/ InitWait \/ InitHangUp \/ InitNap
    \/ Mute \/ LoginReads \/ LoginDelay \/ GiveUp
    \/ ShellReads \/ ShellForks \/ ShellWaits
    \/ Exec \/ JobReads \/ JobEnds \/ JobctlLooks \/ JobctlSets \/ JobctlContinues
    \/ ExitAsks \/ Return

SessionNext == KernelStep \/ Awake \/ Program

SessionSpec == SessionInit /\ [][SessionNext]_session

-----------------------------------------------------------------------------
\* No two living processes have the same PID, although every logout restarts
\* the count.
PidsApart ==
    \A p, q \in Users : (Alive(Now, p) /\ Alive(Now, q) /\ proc[p].pid = proc[q].pid) => p = q

\* When init starts a new session nothing of the one before is alive.
SessionsApart ==
    At("respawn") => \A p \in Users \ {1} : ~ Alive(Now, p)
=============================================================================
