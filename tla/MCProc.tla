------------------------------- MODULE MCProc -------------------------------
(* Proc for TLC: the constants are given in the cfg files. *)
EXTENDS Proc
=============================================================================
