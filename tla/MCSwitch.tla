------------------------------ MODULE MCSwitch ------------------------------
(***************************************************************************)
(* Switch for TLC, with the properties of Kernel.                          *)
(***************************************************************************)
EXTENDS MCKernel, Switch
=============================================================================
