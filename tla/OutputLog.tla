----------------------------- MODULE OutputLog -----------------------------
(***************************************************************************)
(* What the capture of the target's output promises, with no ring and no  *)
(* index arithmetic: lines are numbered in the order they were captured,  *)
(* the newest Size of them are remembered, and a report is a run of       *)
(* consecutive line numbers that ends at the newest line.  The module Proc *)
(* (internal/dlv/spawn.go) is shown to implement it.                       *)
(***************************************************************************)
EXTENDS Integers

CONSTANT Size        \* how many lines are remembered (outputRingSize)

VARIABLES written,   \* number of lines captured so far
          told,      \* the newest line that any report has covered
          report     \* the lines of the latest report

lvars == <<written, told, report>>

\* The sequence of line numbers from a to b.
Lines(a, b) == [i \in 1 .. (b - a + 1) |-> a + i - 1]

Larger(a, b) == IF a >= b THEN a ELSE b

\* How many lines have been forgotten once n have been captured.
Forgotten(n) == Larger(n - Size, 0)

Init == written = 0 /\ told = 0 /\ report = << >>

Write == /\ written' = written + 1
         /\ UNCHANGED <<told, report>>

\* Everything not yet covered by a report that is still remembered.
ReportNew == /\ report' = Lines(Larger(told, Forgotten(written)) + 1, written)
             /\ told' = written
             /\ UNCHANGED written

\* Everything that is still remembered.
ReportAll == /\ report' = Lines(Forgotten(written) + 1, written)
             /\ told' = written
             /\ UNCHANGED written

Next == Write \/ ReportNew \/ ReportAll

Spec == Init /\ [][Next]_lvars
=============================================================================
