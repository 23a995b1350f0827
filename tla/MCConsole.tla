----------------------------- MODULE MCConsole -----------------------------
(***************************************************************************)
(* Console for TLC, with the properties of Kernel.                         *)
(***************************************************************************)
EXTENDS MCKernel, Console
=============================================================================
