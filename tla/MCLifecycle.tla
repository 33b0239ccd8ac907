---------------------------- MODULE MCLifecycle -----------------------------
(* Lifecycle for TLC: the constants are given in the cfg files. *)
EXTENDS Lifecycle, TLC

\* Clients are interchangeable in every safety property.
ClientSymmetry == Permutations(Clients)
=============================================================================
