------------------------------- MODULE Switch -------------------------------
(***************************************************************************)
(* The context switch of switch_process and swap (irq/exception.s), under  *)
(* the scheduler of Kernel.                                                *)
(*                                                                         *)
(* A process that gives up the CPU stops inside swap, with the calls that  *)
(* led there on its kernel stack.  Every entry from EL0 starts at the top  *)
(* of that stack, so the stack pointer is determined by these calls, and   *)
(* they stand for it here.  process->sp is set by swap, and by             *)
(* alloc_new_process for a first run that starts at trap_return.           *)
(*                                                                         *)
(* Kernel takes it for granted that a process goes on where it stopped:    *)
(* this module says when that is so.                                       *)
(***************************************************************************)
EXTENDS Kernel

VARIABLES
    at,     \* at[p]: the calls on p's kernel stack when it last entered swap
    sp      \* process_table[p].sp: what swap stored, or the first frame

switch == <<at, sp>>

SwitchInit ==
    /\ Init
    /\ at = [p \in Slots |-> <<"first">>]
    /\ sp = [p \in Slots |-> <<"first">>]

\* The calls that led the running process to schedule: from the timer interrupt,
\* the call it sleeps in (made by itself or by sigproxy_restore), or its death
Entered ==
    LET me == proc'[curr]
    IN  CASE me.state = "READY"  -> <<"timer">>
          [] me.state = "KILLED" -> <<"exit">>
          [] OTHER -> IF me.proxied = proc[curr].proxied THEN <<me.call.op>>
                      ELSE <<"restart", me.call.op>>

\* schedule is called from user code; swap is its last step
Schedules == mode = "user" /\ mode' \in {"scan", "choose"}
Switches  == mode = "choose" /\ mode' # "choose"

NewProcess(p) == proc[p].state = "UNUSED" /\ proc'[p].state # "UNUSED"

\* (faulty) A slot keeps the stack pointer of its last process
StackPointersKept ==
    sp' = [p \in Slots |-> IF p = curr /\ Switches THEN at[p] ELSE sp[p]]

\* alloc_new_process gives a child a stack with one frame, for its first run;
\* swap stores the stack pointer of the process that stops
StackPointers ==
    sp' = [p \in Slots |-> IF NewProcess(p) THEN <<"first">>
                           ELSE IF p = curr /\ Switches THEN at[p] ELSE sp[p]]

SwitchNext ==
    /\ Next
    /\ at' = [p \in Slots |-> IF NewProcess(p) THEN <<"first">>
                              ELSE IF p = curr /\ Schedules THEN Entered ELSE at[p]]
    /\ StackPointers

SwitchSpec == SwitchInit /\ [][SwitchNext]_<<vars, switch>>

-----------------------------------------------------------------------------
\* A process that gets the CPU from another goes on where it stopped: the stack
\* pointer that is loaded is that of its last call of swap, or of its first
\* frame, whatever happened to its slot and its state in between.
OthersResume ==
    [][Switches /\ curr' # curr => sp[curr'] = at[curr']]_<<vars, switch>>
=============================================================================
