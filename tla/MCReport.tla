------------------------------ MODULE MCReport ------------------------------
(* Report for TLC. *)
EXTENDS Report

\* Two values differ only beyond what is shown.
MCShown == [v \in Values |-> IF v = 1 THEN "a" ELSE "b"]
=============================================================================
