------------------------------ MODULE Console ------------------------------
(***************************************************************************)
(* The keyboard: io/keyboard.c, the interrupt handler of io/uart.c, and    *)
(* sys_keyboard_read, composed with Kernel.  Keys typed by the user go to  *)
(* the foreground process through a circular buffer, which is represented  *)
(* by its two positions; Ctrl-C and Ctrl-Z also become signals.            *)
(*                                                                         *)
(* The call of a process in sys_keyboard_read has the place where it       *)
(* sleeps as its argument: as a daemon (syscall.c:102), paused because     *)
(* another process is in the foreground (syscall.c:106), or for a key      *)
(* (keyboard.c:46).                                                        *)
(***************************************************************************)
EXTENDS Kernel

CONSTANTS
    KeyBufSize,     \* MAX_KEY_BUF_SIZE
    Keys,           \* kinds of keys: "char", "ctrl-C", "ctrl-Z"
    MaxBurst        \* bound: keys one interrupt finds in the receive FIFO

ASSUME ConsoleAssumption ==
    /\ KeyBufSize \in Nat \ {0, 1} /\ MaxBurst \in Nat
    /\ Keys \subseteq {"char", "ctrl-C", "ctrl-Z"}

VARIABLES
    front,      \* key_buf.front, the next position to read
    end         \* key_buf.end, the next position to write

keyboard == <<front, end>>

\* The state of the kernel with the buffer
Keyed == Now @@ [front |-> front, end |-> end]

BecomeKeyed(new) == \E k \in {new} : Become(k) /\ front' = k.front /\ end' = k.end

\* (faulty) The end of the array is not noticed
FollowingUnwrapped(i) == i + 1

Following(i) == (i + 1) % KeyBufSize

AsDaemon == 1
Paused   == 2
ForKey   == 3

-----------------------------------------------------------------------------
SleepAt(k, place, ev) == Sleep([k EXCEPT !.proc[k.curr].call.arg = place], ev)

\* The end of read_key_buffer: the key at the front is returned
TakeKey(k) == Leave([k EXCEPT !.front = Following(@)])

ReadKeyBuffer(k) ==
    IF k.front = k.end THEN SleepAt(k, ForKey, KEYBOARD_INPUT) ELSE TakeKey(k)

\* get_fg_process
Foreground(k) == IF k.fg # NULL /\ Alive(k, k.fg) THEN k.fg ELSE NULL

\* (faulty) Anybody may read
PauseLoopOff(k) == ReadKeyBuffer(k)

\* One turn of the loop of sys_keyboard_read.  Without a foreground process
\* the kernel reads through a null pointer, and the handler of faults in the
\* kernel does not return.
PauseLoop(k) ==
    IF Foreground(k) = NULL THEN [k EXCEPT !.mode = "stuck"]
    ELSE IF IsForeground(k, k.curr) THEN ReadKeyBuffer(k)
    ELSE SleepAt(k, Paused, FG_PAUSED)

KeyboardRead(k) ==
    LET entered == Enter(k, [op |-> "read", arg |-> 0, opts |-> {}])
    IN  IF k.proc[k.curr].daemon THEN SleepAt(entered, AsDaemon, DAEMON_INPUT)
        ELSE PauseLoop(entered)

SysKeyboardRead ==
    /\ InUserCode("read") /\ ~ InitProcess
    /\ BecomeKeyed(KeyboardRead(Keyed))

\* sigproxy_restore makes a read again (it makes the others again in Kernel)
RestoreRead ==
    /\ mode = "user" /\ proc[curr].proxied # <<>> /\ proc[curr].event # NONE
    /\ Last(proc[curr].proxied).op = "read"
    /\ BecomeKeyed(KeyboardRead([Keyed EXCEPT !.proc[curr].proxied = Front(@)]))

\* swap() returns inside sys_keyboard_read.  After the sleep for a key the
\* buffer is not looked at again.
ResumeRead ==
    /\ mode = "kernel" /\ proc[curr].call.op = "read"
    /\ LET place == proc[curr].call.arg
       IN  BecomeKeyed(CASE place = AsDaemon -> IF proc[curr].daemon THEN ReadKeyBuffer(Keyed)
                                                ELSE PauseLoop(Keyed)
                         [] place = Paused   -> PauseLoop(Keyed)
                         [] OTHER            -> TakeKey(Keyed))

-----------------------------------------------------------------------------
\* (faulty) The buffer is never full
CaptureKeyAnyway(k, key) ==
    LET pid  == k.proc[k.fg].pid
        told == CASE key = "ctrl-C" -> Kill(k, Idle, pid, SIGINT)
                  [] key = "ctrl-Z" -> Kill(k, Idle, pid, SIGTSTP)
                  [] OTHER          -> k
    IN  IF told.proc[k.fg].event = KEYBOARD_INPUT
        THEN [told EXCEPT !.end = Following(@)] ELSE told

\* capture_key, for a foreground process.  Control keys are pushed as well if
\* the process waits for a key.
CaptureKey(k, key) ==
    LET pid  == k.proc[k.fg].pid
        told == CASE key = "ctrl-C" -> Kill(k, Idle, pid, SIGINT)
                  [] key = "ctrl-Z" -> Kill(k, Idle, pid, SIGTSTP)
                  [] OTHER          -> k
    IN  IF told.proc[k.fg].event = KEYBOARD_INPUT /\ Following(k.end) # k.front
        THEN [told EXCEPT !.end = Following(@)] ELSE told

\* (faulty) The readers are not told
UartSilent ==
    /\ mode = "user"
    /\ \E n \in 1 .. MaxBurst : \E keys \in [1 .. n -> Keys] :
          BecomeKeyed(IF Foreground(Now) = NULL THEN [Keyed EXCEPT !.mode = "stuck"]
                      ELSE FoldLeft(CaptureKey, Keyed, keys))

\* uart_handler empties the FIFO and wakes the readers.  If there is no
\* foreground process capture_key leaves the key in the FIFO, and the loop
\* goes round for ever.
UartInterrupt ==
    /\ mode = "user"
    /\ \E n \in 1 .. MaxBurst : \E keys \in [1 .. n -> Keys] :
          BecomeKeyed(IF Foreground(Now) = NULL THEN [Keyed EXCEPT !.mode = "stuck"]
                      ELSE WakeUp(FoldLeft(CaptureKey, Keyed, keys), KEYBOARD_INPUT))

\* The loop that does not end
Stuck == mode = "stuck" /\ UNCHANGED <<vars, keyboard>>

ConsoleInit == Init /\ front = 0 /\ end = 0

ConsoleNext ==
    \/ Next /\ UNCHANGED keyboard
    \/ SysKeyboardRead \/ RestoreRead \/ ResumeRead \/ UartInterrupt \/ Stuck

ConsoleSpec == ConsoleInit /\ [][ConsoleNext]_<<vars, keyboard>>

-----------------------------------------------------------------------------
\* The buffer holds at most KeyBufSize - 1 keys; the rest is as in Kernel.
ConsoleTypeOK ==
    /\ front \in 0 .. KeyBufSize - 1 /\ end \in 0 .. KeyBufSize - 1
    /\ mode \in {"user", "scan", "choose", "kernel", "halt", "stuck"}

\* A key that is returned was typed: nobody takes one from an empty buffer
\* (read_key_buffer: "If buffer is empty, sleep on keyboard input event").
NoEmptyRead == [][front' # front => front # end]_<<vars, keyboard>>

\* Only the foreground process gets keys (capture_key: "stdin should only work
\* for current foreground process").
OnlyForegroundReads == [][front' # front => curr = fg]_<<vars, keyboard>>

\* p sleeps in read_key_buffer
AsleepOnKey(p) == /\ proc[p].state = "SLEEP" /\ proc[p].event = KEYBOARD_INPUT
                  /\ proc[p].inKernel /\ proc[p].call.op = "read"

\* No key is forgotten: no reader sleeps for a key while there is one, be it typed
\* before the reader fell asleep or after, alone or in a burst with Ctrl-Z.  It
\* is so of readers with the default handlers: one that ignores Ctrl-Z, or
\* catches it, may be put back to sleep by check_pending_signals, the key in
\* the buffer.
ReadersAwake ==
    \A p \in Users :
        AsleepOnKey(p) /\ proc[p].handlers = DefHandlers /\ proc[p].proxied = <<>>
            => front = end
=============================================================================
