# A TLA+ model of the frostbyte kernel

frostbyte is a small Unix-like kernel for the Raspberry Pi (AArch64): one CPU, a
process table with a FIFO scheduler driven by a timer, fork/exec/wait/exit, signals
and job control, pages and environments per process, a read-only FAT16 file system, a
console on the UART, and a handful of programs (init, login, shell, commands). This
directory holds models of these parts, their composition, the model checking of the
models, and proofs about most of them.

## 1. Inventory

| Component | Code | State it keeps | Operations | Interacts with |
|---|---|---|---|---|
| Process management | `process/process.c`, `process.h` | `process_table`, `pc` (ready queue, wait list, suspended list, zombies, `curr_process`, `fg_process`), `pid_num` | `schedule`, `trigger_scheduler`, `sleep`, `wake_up`, `fork`, `exec`, `exit`, `wait`, `kill`, `switch_parent`, `move_to_fore/back`, `find_job` | everything |
| Signals | `process/signal.c` | `signals`, `handlers` of a process; `def_handlers`, `target_proc` | `check_pending_signals`, `def_handler_entry`, `register_handler` | called by `schedule`; calls `exit`, `kill`, `wake_up`, `switch_parent` |
| Intrusive lists | `lib/lib.c` | one `next` pointer per process, head and tail per list | `push_back`, `pop_front`, `remove`, `remove_evt`, `contains` | the four lists of `pc` |
| Interrupts, system calls | `irq/handler.c`, `irq/syscall.c` | `ticks`, `syscall_list` | timer, UART dispatch, faults, `system_call`, `sigproxy_restore` | all |
| Console | `io/keyboard.c`, `io/uart.c` | `key_buf` | `uart_handler`, `capture_key`, `read_key_buffer` | `fg_process`, `kill`, `wake_up`, `sleep` |
| init program | `user/init/main.c` | `login_shell_pid` | forks the login shell, collects children and orphans, hangs up and respawns at log-out | fork, wait, kill(-1) |
| Boot, idle | `boot/boot.s`, `main.c` | - | start-up, the idle loop, halt | the shutdown flag from `schedule` |
| Context switch | `irq/exception.s` | kernel stacks, context frames | vectors, `swap`, `trap_return` | `switch_process`, `handler` |
| Memory | `memory/memory.c`, `mmu.s` | free list of pages, page tables, region tables | `kalloc`, `kfree`, `setup_uvm`, `copy_uvm`, `free_uvm` | fork, exec, wait |
| File system | `fs/file.c` | `inode_table`, `global_file_table`, `fd_table` of a process | `open_file`, `close_file`, `read_file` | fork, exec, wait, hang-up |
| Environment | `lib/lib.c`, `irq/syscall.c` | a hash map per process, in a page of its own | `insert`, `erase`, `at`; `sys_setenv`, `sys_getenv`, `sys_unsetenv`, `sys_switchpenv` | fork, wait, the parent |
| Session programs | `user/login`, `shell`, `jobctl`, `exit`, `shutdown` | where each program is | login attempts, fork/exec/waitpid of a command, fg, bg, SIGTERM to the shell | the system calls, init |
| Other programs, user library | `user/` | - | read the keyboard, print, end | the system calls |

**What is hard.** There is no concurrency inside the kernel: exceptions are taken with
interrupts masked, so kernel code runs from an exception to the next context switch
without interruption. The difficulty is in the interleaving of these stretches.
`wait`, `sys_sleep` and `sys_keyboard_read` give up the CPU in the middle and go on
with state that others have changed; signals are posted to processes in every state
and acted on later, by the scheduler; one `next` pointer serves four lists; and death
changes many things at once (the parent, the children, stopped jobs, the foreground,
sleepers). `PROJECT.json` lists the hazards, each at its line with the properties
that cover it.

**What makes the components correct.** Lists agree with process states; nobody is lost,
no wakeup is lost, nobody starves; every process but init has a living parent and is
collected exactly once; the dead stay dead; signals are acted on before a process runs;
the foreground process is alive; shutdown halts; a process goes on where it stopped.
Keys reach the foreground process in order. Reference counts equal the references, and
nobody's file is taken away. No page is used twice or lost. An environment is a
function from names to values that only its process, or a child that asked for it,
changes. And nothing of a session outlives the logout, so that PIDs may be counted from
2 again.

## 2. Modules

```
Lists <-- Kernel <-- KernelProps <-- MCKernel          (runs: shutdown, jobs, lost_wakeup)
  ^          ^            |
  |          |            +-- INSTANCE Family           (refinement ImplementsFamily)
  |          +-- Switch  <-- MCSwitch                   (run: processes)
             +-- Console <-- MCConsole                  (run: console)
                    ^
                    +-- Session <-- MCSession           (runs: session, revived)
KernelProofs (KernelProps, Switch) <-- QueueProofs <-- KinProofs
                                            ^---------- WakeProofs
                                                        (theorems)
Family <-- FamilyProofs                                 (theorems)
   ^           ^
   +-- Environ +-- EnvironProofs                        (runs: environ, parent_env; theorems)
   |      |
   |      +-- INSTANCE EnvMap                           (refinement ImplementsEnvMap)
   +-- EnvMap
Memory <-- MemoryProofs                                 (run: memory; theorems)
Files  <-- FilesProofs                                  (theorems)
   ^------ MCFiles                                      (runs: files, shared_close)
```

| Module | Models |
|---|---|
| `Lists` | the lists of `lib/lib.c` as sequences of slots |
| `Kernel` | `process.c`, `signal.c`, the timer path of `handler.c`, the process calls of `syscall.c` |
| `KernelProps` | the properties of `Kernel` and its refinement mapping to `Family` |
| `Switch` | `switch_process` and `swap`: the saved stack pointers, composed with `Kernel` |
| `Console` | `keyboard.c`, `uart_handler`, `sys_keyboard_read`, composed with `Kernel` |
| `Session` | the programs init, login, shell, jobctl, exit and shutdown, composed with `Console` |
| `Files` | `file.c`'s descriptor, file and inode tables, under all calls that change them |
| `Memory` | `memory.c`'s free list and page maps, under fork, exit, wait and hang-up |
| `Family` | abstract: who is alive, whose child one is, who collects whom, which PIDs are in use |
| `EnvMap` | abstract: the variables of the processes of `Family` |
| `Environ` | `lib.c`'s hash map, the environment calls, and the page behind them, over `Family` |
| `FamilyProofs`, `FilesProofs`, `MemoryProofs`, `EnvironProofs` | the theorems about these modules and their proofs |
| `KernelProofs` | lemmas about `Lists` and loops; theorems about `Kernel` and `Switch`: types, saved stack pointers |
| `QueueProofs` | theorems about `Kernel`: lists and states, the dead, the stopped, signals before running |
| `KinProofs` | theorems about `Kernel`: it implements `Family`, the foreground process is alive |
| `WakeProofs` | theorem about `Kernel`: nobody sleeps in wait beside a child it waits for that is dead |
| `MC*` | values of constants that a `.cfg` cannot write, and unions of modules for TLC |

### How Kernel corresponds to the code

* A C function is an operator from a kernel state (a record `k` of all variables) to a
  kernel state, with its calls nested as in the code: `ExitProcess` contains
  `KillJob`, `SwitchParent`, `HandOver`, `Unpause` and `WakeUp` in the order of `exit`.
  The function's early returns are its IFs.
* An action is one uninterrupted stretch. `mode` says where the CPU is: in user code
  (`user`), in `schedule()` (`scan`: the scan of the suspended list; `choose`: the loop
  over the ready queue, one `ConsiderHead` per turn), back from `swap()` inside a
  blocking call (`kernel`), or after the shutdown flag was set (`halt`).
* `call` and `inKernel` of a process stand for its context frame and saved kernel stack:
  which call it made last, with which arguments, and whether it is inside. `Resume` goes
  on there. Calls that cannot block set it to `NoCall` (`Called`): what a program that
  catches a signal makes again is its last call, of whatever kind.
* `SigProxyRestore` ends a user handler. If the event is still set, the call in the frame
  may be made again: the code does so unless `x0` is negative, which is left free.
* A process table entry keeps the fields that control depends on. `status`, names,
  addresses and files are left out. `Blank` is the zeroed entry; freeing a slot blanks
  it at once except for `pid` and `event`, the two fields that can still be read
  through `fg_process` or a list until the slot is used again.
* Lists are sequences. `PushBack` of a node that is already on the list cuts off what
  follows it, as clearing its `next` pointer does. The sequences are exact as long as
  no process is on two lists, which `ListedInState` checks; the runs that expect a
  violation stop at the first state where their property fails.
* Programs are free to make any call of `Calls` at any time; init makes the calls of
  its program only. Three things are narrowed: `wait` is called with -1 or a PID
  that was given out; `kill` with the signals in `Sendable`; and `fg` on
  jobs in a state of `ForeStates`, because `fg` on a sleeping or dead process breaks
  properties that the passing runs check (see 5).
* A timer tick is possible in every user state. Sleeping counts ticks.
* `swap()` when a process is switched to itself is modelled as carrying on; what
  `swap` does otherwise is left to `Switch`.
* Operators marked *(faulty)* are not part of the model: each is a plausible mistake in
  the definition after it, and a run finds it (`mutants` in `PROJECT.json`).

### How Switch corresponds to the code

`Kernel` takes it for granted that a process that gets the CPU goes on where it stopped.
`Switch` says when that is so. Every entry from a program starts at the top of the kernel
stack of the process, so the calls on it (`at`) determine the stack pointer and stand for
it. `sp` is `process->sp`: set by `swap` for the process that stops, and by
`alloc_new_process` to the frame from which `trap_return` starts a program. `OthersResume`
compares the two whenever the CPU changes hands. Registers are left out (see 5).

### How Session corresponds to the code

`at` says which system call the program of each process makes next or is in; what it
computes between two calls is taken together with the later call. The calls are the
operators of `Kernel` and `Console`, so nothing about the kernel is simplified, except that
only the programs' own calls are made. A line the user types is one key, and whether a
name and password are right is free. `Entry` is the program a file holds. Interrupts come
between any two calls. init's two forks fail differently: at start-up `main` returns, after a
hang-up the loop is left (`InitSpawn`, `InitRespawn`). What wait returned is the zombie
that has left the list (`Found`), also one that was scheduled again. Left out are Ctrl-C, nested shells, the `kill` command and file
names that are not found; and the user does not press Ctrl-Z while one of the commands
`fg`, `bg`, `exit`, `shutdown` runs (see 5 for what happens then).

### How Console corresponds to the code

`front` and `end` are the positions of `key_buf`. What the keys are is left out: a key
is named by its position, so that a key taken while `front = end` is one that was
never typed. An interrupt finds 1 to `MaxBurst` keys in the receive FIFO, captures them in
turn and wakes the readers, as `uart_handler` does. Two places where the kernel stops
for good are in the model as the mode `stuck`: the loop of `uart_handler` without a
foreground process, and the null pointer that `sys_keyboard_read` reads in the same
situation. A read that a caught signal interrupted is made again by `RestoreRead`. Between a fork, which yields the foreground, and the next scheduling there is
no foreground process, so both are reached in run `console`.

### How Files corresponds to the code

* A descriptor of a process (`fds`) points to an entry of the global file table
  (`entryFile`, `entryRefs`, `offset`), which points to an inode (`inodeRefs`). An entry is
  free when it points to no inode, which is how `open_file` looks for one. Inodes are
  named by their file, as `inode_table` has the indices of the root directory.
* Each call is one step: kernel code is not interrupted and none of these calls sleeps.
  The loops over descriptors are written in closed form (a count goes down by the
  number of descriptors that point there; an entry is reset by the turn that drops the
  last reference), so that `FilesProofs` can use them; a fold could not be proved about.
* `fork` and `exec` open and close the file of the program inside one call (`copy_uvm`,
  `exec`). What stays of that is the entry, which keeps its inode, and the position to which the file
  was read. A fork that fails
  half way leaves its slot in the stage `lost`.
* Who is whose parent is left out: any dead process may be collected at any time. The
  slot keeps its stale pointers until the next fork, as in the code.
* `HangUp` has the code's inner loop with its own `i` (`process.c:746`): for each zombie
  it visits descriptor `i` of the process in slot `i`, for every `i`.
* The model stops in `halted` where the kernel fails an assertion or follows a null
  pointer. Reads go through open descriptors only, and offset and size do not wrap.
* Two constants narrow the environment. With `CloseShared = FALSE` no program closes a
  descriptor it shares since a fork; the programs under `user/` open, read and close
  without a fork between, so they satisfy this. With `RogueFiles = FALSE` a hang-up
  happens only while neither the zombies it releases nor the descriptors it mistakes
  for theirs have a file open.

### How Memory corresponds to the code

* The free list is a sequence, taken from and added to at its front, as behind
  `free_mem_head`. Its `NPages` pages are those behind the kernel less the two that `init_fs`
  takes at boot and never gives back. A process's page tables live in the page of its `page_map`, and have one
  entry for the program and one for the environment (`table`).
* `Fork` is `alloc_new_process` and `copy_uvm`, which take a page for tables and kernel
  stack, one for the environment and one for the program. `ForkFails` is a `copy_uvm` that
  gets no page, or cannot open the file of the program: it frees what is mapped so far,
  which is not the environment, and the slot stays in state INIT. Without the first two
  pages an assertion stops the kernel (`ForkHalts`).
* `loaded` is the process whose tables the CPU uses, changed by `switch_vm` before `swap`;
  a dead process's tables stay loaded until somebody else is scheduled.
* `schedule` makes whoever is first on the ready queue RUNNING and asks for no state, so
  `SwitchVm` takes any state of `Queued`, a constant. A living process is READY here. A job
  that died before `move_to_fore` queued it is KILLED (the run `revived` shows how it comes to be
  queued), lives again and may die again. Both are in the run and in the theorems. What neither
  covers is a job that was even collected before it is scheduled (UNUSED): its tables are
  free, and `LoadedNotFree` and `PagesApart` are false then.
* A hang-up frees the zombies slot by slot; nothing else happens in between. Which
  zombies belong to init, which it skips, is not known here, so it may skip any.

### How Environ corresponds to the code

* `page[s]` is the table in the environment page of slot `s`; `ptr[s]` says what
  `process->env` is: the kernel address of the own page, the user address of it (init,
  after `setup_uvm`), or 0 after `switchpenv`.
* `At`, `Insert` and `Erase` are `at`, `insert` and `erase` of `lib.c`: first entry
  with the hash, else first free one, and a cleared hash that leaves the text. A name is
  its hash.
* `EnvOf` is the table a call works on: its own, that of the parent found by PID, or none.
  If the parent is init, the user address in init's entry is resolved in the page of the
  caller, so a switched child of init works on its own table.
* The steps of `Family` are extended by what becomes of the page: copied by fork, cleared
  when the slot is given away. Programs that have switched do not fork. There is no
  hang-up: it ends with processes that have one PID, by which a parent is looked for.
* `EnvMap` is the promise: `vals[s]` is a function of names. `Put` needs room for a
  further variable; in the code an insert into a full table is silently lost, which is a
  stutter of `EnvMap`.

### Family and the refinement

`Family` has four variables: the stage of each slot (none, alive, dead), its PID, its
parent's PID, and the next PID. Its steps are: a living process gets a child; some
processes die together and init takes over their children; the living parent of a dead
process collects it; a hang-up takes some of the dead away and counts PIDs from 2 again; or
init dies and the promises end (`Collapse`). The constant `HangUps` says whether there are
hang-ups. After one, a PID names several processes, so `PidsUnique` and `ParentOlder` are
promises for the time before it; `ParentAlive` is not. `ImplementsFamily` says that each step of
`Kernel`, which may kill, adopt and collect in one go, is one of these steps or changes none of
this; it is checked and proved for programs that do not hang up.

## 3. Runs

| Run | What is in it | What it shows | States |
|---|---|---|---|
| `processes` | fork, sleep, wait (WUNTRACED), exit, SIGKILL, SIGTSTP, fg (ready and stopped jobs), bg, `swap` | lists and states agree, nobody is lost, no wakeup is lost, the dead stay dead, the stopped stay stopped, everybody goes on where it stopped | 1.9 million |
| `shutdown` | fork, wait (WNOHANG), exit, SIGTERM to one, to children, to all, under fairness | nobody starves, orphans are collected, shutdown halts, the foreground is alive, nobody is lost, refinement of `Family` | 36,000 |
| `jobs` | 4 slots: exec with `&`, bg, SIGTSTP, default, caught or ignored, failed forks, exits that hand jobs over to init | job numbers are distinct, signals are handled before running | 1.1 million |
| `console` | keyboard, bursts of 3 keys into a buffer of 2, Ctrl-Z by default, ignored or caught, exec with `&`, failed forks | only the foreground reads, no key is read twice, no reader with the default handlers sleeps on a key | 1.6 million |
| `files` | open, read, close, fork, exec, exit, collection; shared entries are not closed | counts are exact, nobody's file is taken away, reads stay in the file, no assertion fails | 238,000 |
| `memory` | fork, failed fork, exit, wait, context switch (to dead jobs, too), hang-up, 10 pages | pages are apart, none is lost, the tables in use are not free, the assertion fails only when pages have run out | 93,000 |
| `environ` | set, unset, switch, fork, death, adoption, collection | PIDs, parents and ages until a hang-up; no duplicates, only the owner changes a table, refinement of `EnvMap` | 96,000 |
| `session` | init, login, shell, a job, fg, bg, exit, two sessions in a row, Ctrl-Z, SIGHUP, SIGTERM, SIGCONT | PIDs of living processes differ, no process survives into the next session, signals are handled before running | 1.5 million |
| `lost_wakeup` | violation | a parent sleeps in wait beside its zombie | |
| `shared_close` | violation, shared entries are closed | a file with two open descriptors and a count of one | |
| `parent_env` | violation | a switched program reads its own page where its parent's variable is | |
| `revived` | violation, `job &`, fg, exit | a dead job is made the foreground process and scheduled | |

**Bounds.** The runs of `Kernel` have 3 slots besides idle (init and two more): enough for a
parent, a child and a grandchild, for two children of one parent, and for a slot to be
reused. `jobs` has 4: a job handed over to init can meet another job of init only if
there are init, the job's parent, the job, and a job of init's own. To make up for it only the programs in
slot 2 change their handlers there (`OneCatcher`, a CONSTRAINT of the run). `MaxPid` bounds the
number of forks; with `MaxPid = 3` the two slots beside init
are used, or one of them twice. In `shutdown` a sleep is over at once, in `processes` it takes a
tick. `session` has 4 slots and PIDs up to 5, which is a
login that becomes the shell, two commands and the next login, at most three of them at a time; one
login attempt, one key at a time. `files` has 2 descriptors per process, 5 entries and 2
files, one of them empty. An entry, once used by an open, a fork or an exec, is free again
only when a collection drops the last reference to its inode through it; 5 entries are
enough for two opens and two forks or execs, and for the full table; 3 slots share one
entry three ways. `memory` has 4 slots and 10 pages: three processes and one page over, so that
forks fail for each reason, and the assertion can fail. `environ` has 3 names for
tables of 2 entries, so that a table is full, has holes, and refuses a name. Where the
bounds end the proofs take over: for `Family`, `Files`, `Memory` and `Environ`, and for the
properties of `Kernel` and `Switch` named in 4.

`CHECK_DEADLOCK` is on in every run but `shared_close`: a halted system and a stuck one are
states with a step of their own (`Halted`, `Stuck`, `Stopped`), every other
state must have a step. In `shared_close` the kernel may really stop (`halted` in `Files`);
in `files` the same state is excluded by `NeverHalts`.

**Fairness.** `FairSpec` assumes that the timer interrupts user code again and again
(`WF_vars(Tick)`; the timer is reloaded by each interrupt), and that kernel code, which
cannot be interrupted, goes on. `ProgramsFair`, a premise of `OrphansCollected` and
`ShutdownHalts` only, adds that a program that gets the CPU again and again comes to
its end, and that init goes back to wait, as its loop does. `ReadyRuns` needs none of
that: it holds with programs that compute for ever. Kernel fairness and
`ProgramsFair` are written with `[]<>` and the enabling conditions, which says the same as
`WF`/`SF` and avoids evaluating ENABLED on actions of this size.

**Where properties hold.** Several properties are true of a part of the system only. The
passing runs leave out exactly the calls named here:

* `NoLostWakeup` and then the list properties fail with SIGCONT (finding), and so does
  `StayStopped` (see 5). `NoLostWakeup` fails, too, when a process in wait ignores a signal.
* `DeadStayDead` fails with `fg` on a dead job (finding); and with a background job among the
  commands of `session` so does `SessionsApart`, since the revived process can be stopped and
  outlive the logout.
* `SignalsBeforeRun` holds with handlers (`jobs`) and with SIGCONT (`session`); it was
  proved without SIGCONT.
* `JobsDistinct` fails with SIGKILL, which hands jobs over to init with the numbers they had
  (`signal.c:135`). With 4 slots TLC finds two jobs of init with one number. It fails with
  SIGCONT as well: a stopped job that has fallen off the suspended list (see 5) does not die with its parent. `jobs` has neither.
* `ReadersAwake` is about readers with the default handlers. One that ignores Ctrl-Z, as login and
  shell do, or catches it, can be put back to sleep beside a key (see 5). Such readers are in the run
  beside those it is about.
* `NoEmptyRead` fails with SIGCONT and with `fg`, which `console` leaves out (see 5).
* `ForegroundAlive` fails with SIGKILL and SIGTSTP to a foreground process (see 5).
* `ImplementsFamily` fails with a stopped job that has children, which are left with a dead
  parent. Hang-ups are not in the run either.
* `PidsUnique` and `ParentOlder` are promises until the first hang-up. What remains after it is
  `PidsApart`, of the living (`session`); a zombie may have a namesake (see 5).
* The counts of `Files` are wrong when shared descriptors are closed (finding) or a hang-up
  meets open files (see 5).
* The properties of `Memory` hold as long as no job that was collected is scheduled.
* No passing run makes an interrupted wait or sleep again; `console` does so with reads. With wait
  and a SIGTERM that is caught or ignored in the middle of it, a scratch run finds `NoneLost` kept
  (3 slots, 1.1 million states, complete), and the proofs in `QueueProofs` include handlers.

`Family` with hang-ups was checked in a scratch run of 3 slots and 4 PIDs (`TypeOK`, `ParentAlive`, 32,000
states) before it was proved. Scratch runs with 4 slots (the calls of `processes` with SIGKILL only, 1.7 million states,
complete; `shutdown` without liveness, 7 million states, not complete) found nothing more.

## 4. Proofs

`FamilyProofs` proves, for every `NProc > 0` and every `MaxPid`, that `Family` keeps
`TypeOK` and `ParentAlive`, with hang-ups or without, and `PidsUnique` and `ParentOlder` under
the hypothesis `~ HangUps`. There are two inductive invariants. `Parented` is enough for the first
pair: types, and that init is there with PID 1 and everybody has a living parent. When some
processes die, a child whose parent's PID is that of one of the dead goes to init, also if the
parent was another process with that PID; a child that is not adopted has a parent outside the
dying set. For the second pair `FamilyInv` adds that PIDs differ and lie below the next one
and above init's. Each needs the others: an adopted child is younger than init, and the next PID is
unused, which takes the bound. There is one lemma per kind of step with one step per
conjunct. The only assumption besides is `FamilyAssumption`, on the constants.

`EnvironProofs` proves that `Environ` implements `Family` without hang-ups (so the four properties hold of
it, too), keeps `NoDuplicates` and `TablesKept`, and implements `EnvMap`, for every number of
processes, names, values and entries. Assumed are `FamilyAssumption` and
`EnvironAssumption`. The hash map is studied first, as a pure function of a good table (no
name twice, every name with a value): `AtFacts` says what the search finds,
`InsertValues` and `EraseValues` what an operation does to the value of every name,
`InsertGood` and `EraseGood` that the table stays good, and `RoomLeft` that a table with a
free entry has fewer names than entries, which is the room that `Put` asks for. The inductive
invariant `EnvInv` adds to `FamilyInv` that all tables are good and that init is the only
process known by its user address. Then each action maps to an action of `EnvMap`
or a stutter, with one lemma each (`SetEnvMaps`, `ForkMaps`, ...); `CallerWorksOn` shows that
the table found by PID is the one `WorksOn` names, which takes `PidsUnique`.

`MemoryProofs` proves, for every number of slots and at least three pages
(`MemoryAssumption`, `QueuedAssumption`), and under the hypothesis `NoneCollectedQueued` that nobody is
scheduled who has been collected, that `Memory` keeps `TypeOK`, `PagesApart`, `NoPageLost`,
`HaltsOnlyWhenFull`, `LoadedNotFree` and `PagesKept`. The inductive invariant `MemoryInv`
adds `PagesWhole` (a process has three different pages, so freeing it adds three to
the list) and `LoadedHeld` (the tables in use are those of a process that is not collected,
also of a dead one that was scheduled, and during a hang-up of a living one, which is why the loop over the zombies cannot free the
kernel stack it runs on). `ThreePagesEach` follows: with three pages for every slot,
the kernel never stops for lack of pages, because a failed fork keeps only
one page but occupies a slot for good. The lemmas `KfreeFacts`, `FreeUvmFacts`, `RestFacts`
say what the operations do to the free list; `AddSlot` and `RemoveSlot` how the counts change.

`FilesProofs` proves, for every number of slots, descriptors, entries and files, that
`Files` keeps `FilesTypeOK`, `EntryCounts`, `InodeCounts`, `OffsetInFile`, `NeverHalts` and
`FileStays`. Assumed are `FilesAssumption` (on the constants) and, in each theorem,
`CloseShared = FALSE` and `RogueFiles = FALSE`; without either the counts are wrong (see
5). The inductive invariant `FilesInv` adds two facts:

* `HeldFiles`: a descriptor of a process that lives or waits to be collected points to an
  entry with an inode. Without it `fork` and `wait` could follow a null pointer.
* `FdsDistinct`: the open descriptors of one process point to different entries. So
  an entry that is closed, and whose count is 1, is in no other descriptor.

The argument is that the last reference is dropped only when nobody else has one. When
a dead process is collected, the entries it resets are those of files whose count
comes to zero; by `InodeCounts` every use of such a file is a use by the dead process
(`InodeSplit`), so no entry held by somebody else is reset (`ResetUnheld`). When an entry is
taken by `open`, it points to no inode, so by `HeldFiles` nobody holds it (`FreeUnheld`). A fork
adds the row of the child to each count (`AddRow`). There is one lemma per action.

`KernelProofs` begins with lemmas about data. They say what `PushBack`, `Unlink`, `Without`, `Those` and `CutAfter`
return: who is on the result, in which order, and that nobody is there twice (`PushBackFacts`,
`UnlinkFacts`, `ThoseFacts`, ...). The loops of `Kernel` over the process table, the signals
and the suspended list are folds, and a fold is defined by recursion. Nothing can be said about a
recursive function before one knows that its equation has a solution, which `LoopTotal` says of every loop whose turns stay in a set. `LoopStays` says
that the loop stays in the set, too, and `LoopReaches` that the loop ends in the last of a
sequence of sets if each turn leads from one to the next. They are proved from the
least number for which the claim would fail.

It then proves, for every value of the constants (`KernelAssumption`), that `Kernel` keeps `TypeOK`
(`Typed`), and that in `Switch` a process goes on where it stopped (`Resumes`). No program is excluded:
SIGCONT, hang-ups and `fg` on anything are allowed. The invariant is `Now \in KState`. Its part
about idle says that idle is never inside a system call. There is one lemma per operator, in the
order of `Kernel.tla`, that it maps `Near(k)` (the states with the same process on the CPU in the same
mode) into itself, and one per action. `Resumes` adds `Saved`, that the stored stack pointer of
everybody but the running process is that of its topmost call.

`QueueProofs` proves `ListedInState` (`ListsAgree`), `NoneLost` (`NobodyLost`), `DeadStayDead`
(`NoRevival`), `StayStopped` (`NoResumption`) and `SignalsBeforeRun` (`SignalsFirst`) under a hypothesis on what programs do,
`OrderlyUse`: nobody sends SIGCONT, `fg` is used on ready, sleeping and stopped jobs
only, and no SIGHUP goes to everybody. Each part is needed. With SIGCONT, TLC finds `NoneLost`
violated; with SIGHUP to everybody, `ListedInState` and `NoneLost`; with `fg` on a dead job,
these and `DeadStayDead` and `SignalsBeforeRun`; and `StayStopped` with SIGCONT. The
runs `processes`, `shutdown`, `jobs` and `console` satisfy `OrderlyUse`; `session` sends
SIGCONT, so that `SignalsBeforeRun` with SIGCONT is model-checked only.

The two list properties are not inductive over a kernel function, since a function
takes a process off its list, changes others, and only in the end links it where its new
state belongs. So the argument is about a process *in transit*: `Calm(k, X)` says
that everybody outside `X` is linked exactly where its state says, and that those in `X` are
not on a list they could be woken from. `Still` and `Mild` are what the harmless operators do
(change no state; wake somebody up), `Transit` is what is true after a process was unlinked,
`Settled` after it was linked again. `exit`, `KillNow`, `Stop`, `Resleep` are each a path from
`Calm(k, {})` through `Transit` to `Settled`; the jobs that die with their parent are in
transit one at a time, inside the transit of the parent. `Signalled` is what a whole
`check_pending_signals` may do, `After` what a step may do. The inductive invariant is
`InOrder` (`Now \in Orderly`): `Calm` with nobody in transit, and `OnCpu`, that outside the
scheduler `curr` is running, and nobody else ever.

`KinProofs` proves that `Kernel` implements `Family` (`FamilyKept`), so that what `FamilyProofs`
says of the abstract family holds of the process table (`TableWhole`), and `ForegroundAlive`
(`KeyboardHeard`). The hypothesis `FamilyUse` is `OrderlyUse`, which excludes hang-ups, and that nobody sends
SIGSTOP or SIGTSTP. With stopped jobs TLC finds both violated, in scratch runs of 4 and 3 slots: a stopped
job that dies with its parent leaves its children a dead parent, and a stopped process
that is killed does not hand over the foreground. The run `shutdown`, which checks both,
satisfies `FamilyUse`.

A kernel function is compared with the state `k` in which the step begins: `Folk(k, D, R, f)` are
the states in which the family is that of `k`, but for the deaths `D`, the parents `R` and the
foreground `f`. Most functions stay in it (`FolkWakeUp`, `FolkSleep`, ...). `exit` and `KillNow`,
for a process `p`, end in `Mourning(k, p)`: `p` is dead, its children have init as their parent,
and the foreground has passed to a living process (`ExitMourning`, `KillNowMourning`); on the way
there `p` is marked dead before or after its children are moved, which is why `D` and `R` are
parameters. That a lookup by PID, which skips no dead process but the freed ones, finds
the process meant takes `Whole`: a PID names one process. In wait, whoever is found on the
zombie list is a child of the caller (`FoundIsChild`): its event is the PID waited for, the event
of a dead process is its PID, and that PID was seen among the children. So a step is one of
`Relief` (init takes some of the dead, or nothing happens), `Loss` (one process dies), `Burial`
(one is collected) and `Birth` (`StepKin`), and each of them is a step of `Family`
(`ReliefView`, ...). The inductive invariant `KinInv` is `Orderly`, `Steady` (nobody stopped, a dead
process's event is its PID, the foreground alive, init nobody's child but its own) and `FamilyInv`
of the view, which gives back `Whole`: the invariant of the abstract specification is used in the
proof that it is implemented.

`WakeProofs` proves `NoLostWakeup` (`NoWakeupLost`): nobody sleeps in wait beside a dead child it
waits for, or beside a stop that was reported to it. The hypothesis `WakefulUse` is `OrderlyUse` and
that no program catches signals, nobody sends SIGCHLD, and `fg` is not used on a sleeping job.
Stops, kills, terminations and job control on ready and stopped jobs are allowed; the run
`processes` satisfies it. Each part is needed, since a process that a signal takes off the wait
list is missed by `wake_up`, and `check_pending_signals` puts it back to sleep without a look
at its children if the signal was ignored. TLC finds the property violated, in scratch runs,
with an ignored SIGTERM (3 slots), with a SIGCHLD that somebody sends (3 slots), and with a
job that sleeps in wait and is brought to the foreground (4 slots): it is made ready, its child
ends before it runs, and the SIGCHLD of that very child sends it back to sleep.

The invariant is `Wakeful`, on top of `Orderly`. `Alert` is the reason why nobody goes back to sleep
without a look: who is ready with the event of wait still set has a signal pending that stops or
kills it (`Doomed`). `Numbered` says that PIDs are given out once and below `pidNum`, so that a child
just forked is not the one somebody waits for, and that only init has PID 1. `Answered` is the
property itself, by states rather than lists. A step that lets somebody die or stop is compared with its
beginning: `Watch(k, loud)` are the states in which nobody has gone to sleep in wait since `k` and,
unless the step is loud, nobody died or stopped; a loud step must leave nobody asleep in wait
(`Roused`), which `wake_up` does, since the event of wait is the same for all. `Heard(k)` are the
results of both kinds; what is only heard of keeps the invariant (`HeardWakeful`). Every function
that marks somebody dead or stopped, or gives a dead child to init, ends in that `wake_up`, be it in
the middle of a loop over pending signals (`ExitAnnounced`, `KillNowAnnounced`, `StopAnnounced`).
What remains are the steps that go to sleep (`WaitLoopWakeful`), where the loop has just looked at
every child, and fork (`AllocateWakeful`), whose child nobody waits for yet.

What stays with TLC: liveness (`ReadyRuns`, `OrphansCollected`, `ShutdownHalts`) and
everything under fairness; `ImplementsFamily` where programs catch or send signals that `FamilyUse`
excludes; `NoLostWakeup` where they do what `WakefulUse` excludes; `JobsDistinct`; and the properties of `Console` and `Session`, whose
states extend that of `Kernel`.

## 5. What the code does not keep

Four runs show a place where code and comment disagree; `findings` in `PROJECT.json`
quotes both. The following were seen in scratch runs of the same models, or while
writing them, and have no run of their own:

* A hang-up marks zombies UNUSED and leaves them on the zombie list (`process.c:757`);
  the next fork into the slot cuts the list behind it.
* `fg` on a job that sleeps in wait takes it off the wait list with its event set; the
  next signal puts it back to sleep without a look at what happened.
* init adopts zombies of parents that live and are not in wait at that moment
  (`process.c:501`), also when they will wait later.
* The children of a stopped job are left without a parent when the parent of the job exits
  (`process.c:441-446`): the job gets no `switch_parent`.
* A sleep that is over is started again when a user handler ran and the event was still
  set (`syscall.c:257`).
* SIGKILL of a stopped process that is the foreground process leaves a dead foreground
  process (`signal.c:117-118`); the same happens to a stopped foreground job
  killed by the exit of its parent.
* SIGKILL gives the children of its target to init before it looks for processes whose
  parent is the target (`signal.c:135`), so the children it means to kill live on.
* A hang-up that releases zombies drops the references of other descriptors
  (`process.c:746`), because its inner loop hides the index of the zombie. With
  `RogueFiles = TRUE` a scratch run violates `InodeCounts` in four steps.
* `close_file` resets the pointer of the process where freeing the entry would mean to
  reset the inode pointer of the entry (`file.c:328`): every open, fork and exec uses up an
  entry, which is free again only if `wait` drops the last reference to its inode through this
  very entry. In the end every open fails, and so does every fork.
* After shared descriptors were closed, counts become negative and the assertion of
  `inode_put` stops the kernel at a later close.
* A reader takes a key from an empty buffer: it sleeps under an `if` (`keyboard.c:45`), and SIGCONT
  for a stopped foreground job changes its event to FG_PAUSED, so that the exit of that
  job wakes it inside `read_key_buffer`. `front` then passes `end`.
* SIGCONT puts the foreground process to sleep whatever its state (`signal.c:206-210`). When it is
  stopped and another process is continued, it goes on without a SIGCONT of its own, against the
  comment at `process.c:271`, and is on two lists (TLC finds `StayStopped` violated with SIGCONT,
  SIGTSTP and 4 slots); when it is asleep, it is linked a second time and the list behind it is
  cut; when it is dead, it lives again.
* A hang-up sets `pid_num` to 2 (`process.c:769`) while zombies that init has yet to collect keep
  their PIDs: the next login shell may get the PID of one of them, against the comment at
  `process.c:69`. TLC finds it in the model of `session`.
* A process that computes alone is never killed: `trigger_scheduler` returns at once when the
  ready queue is empty (`process.c:208`), and no other path to user mode looks at
  signals, against the comment at `process.c:167`.
* A key that arrives while there is no foreground process stops the kernel (`uart.c:53`), and
  so does a read at such a moment (`syscall.c:104`). Both are the mode `stuck` of `Console`.
* When the reader ignores Ctrl-C or Ctrl-Z, the key is in the buffer, but the reader, made
  ready by the signal, is put back to sleep on it until the next key.
* A read that had its key when a caught signal came is made again, if the event is still set, and
  the key is lost (`syscall.c:257`).
* `jobctl` whose shell has exited is a child of init, and `find_job` looks for the job
  among the children of init, which is also where `jobctl` itself may be.
* When fork fails, the shell and `respawn` go on with the PID -1; the shell waits for any child.
* Ctrl-Z on the `exit` command between its kill and its end leaves a stopped process that is
  nobody's job, and it survives the logout.
* Two Ctrl-C in a row kill the shell: `check_pending_signals` resets the handler
  (`signal.c:67`), and the shell registers it again only when it runs.
* `swap` does not restore x22, x23, x25 and x27 to what was saved (`exception.s:276-278`), against the
  comment at `exception.s:273`; and `sync_handler` takes the number of a fault from x2 where
  x1 was set (`exception.s:188-191`).
* A process that is switched to itself continues with the stack pointer of its switch
  before (`process.c:138`), as `new->sp` is read before `swap` stores it.
* A fork by a program that has switched to its parent's environment would copy from
  address 0 (`process.c:600`); no program does that.

## 6. Plan

Done: `Lists`, `Kernel`, `KernelProps`, `Family`, `Switch`, `Console`, `Session`, `Files`, `Memory`,
`EnvMap`, `Environ`, and the eight modules of proofs. What is left, in this order:

1. `KeyBuffer`: the ring buffer as an implementation of a bounded FIFO queue, proved for
   every size; `Console` uses it.
2. `Lists` against the linked nodes of `lib.c`: the sequence operators as an abstraction of
   the `next` pointers while no node is on two lists.
3. `Session` with Ctrl-C: the state space is too large at present for the bounds
   that make two sessions possible.
4. Registers in `Switch`.

## 7. Not modelled

Register contents, the vectors and MMU set-up; lines of text, their editing and parsing
(`read_cmd`, `get_cmd_info`, `scanf`), and the output of programs; nested shells, and
the programs that only print what the kernel knows (jobs, ps, list, cat, ...); names with
the same hash; printing and debugging; the layout of FAT16, file names and contents; the
boot sequence, which runs once before there is a second actor; device registers other than
what a handler reads. Both board variants (`RPI4` or not) differ in device registers only.
