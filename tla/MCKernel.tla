------------------------------ MODULE MCKernel ------------------------------
(***************************************************************************)
(* Kernel for TLC: values of the constants that a .cfg cannot write.       *)
(***************************************************************************)
EXTENDS KernelProps

NoOptions   == {{}}
WaitOrAsk   == {{}, {"WNOHANG"}}
StopOptions == {{}, {"WUNTRACED"}}

NoGroups    == {}
ToAll       == {-1}
ToGroups    == {0, -1}

\* bound: only the programs that run in slot 2 change the handlers of signals
OneCatcher  == \A p \in Users \ {2} : proc[p].handlers = DefHandlers
=============================================================================
