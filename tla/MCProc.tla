------------------------------ MODULE MCProc ------------------------------
(* Small instances of Proc for TLC. *)
EXTENDS Proc

StatusesDef == {-1, 0}
=============================================================================
