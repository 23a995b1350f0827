----------------------------- MODULE MCSession -----------------------------
(***************************************************************************)
(* Session for TLC, with the properties of Kernel.                         *)
(***************************************************************************)
EXTENDS MCKernel, Session
=============================================================================
