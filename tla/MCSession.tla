----------------------------- MODULE MCSession ------------------------------
(* Session for TLC: the constants are given in the cfg files. *)
EXTENDS Session
=============================================================================
