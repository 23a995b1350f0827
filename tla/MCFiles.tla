------------------------------- MODULE MCFiles -------------------------------
(***************************************************************************)
(* Files for TLC: two files, one of them empty.                            *)
(***************************************************************************)
EXTENDS Files

Sizes == [f \in File |-> IF f = InitFile THEN 2 ELSE 0]
=============================================================================
