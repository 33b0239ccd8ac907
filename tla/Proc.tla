-------------------------------- MODULE Proc --------------------------------
(***************************************************************************)
(* internal/dlv/spawn.go and the part of newSession that uses it: starting *)
(* a headless dlv, the goroutine that scans its stdout, and the ring that  *)
(* keeps the target's output.                                              *)
(*                                                                         *)
(* A captured line is represented by its number in capture order, so that *)
(* the contents of the ring say which lines were kept.                     *)
(***************************************************************************)
EXTENDS Integers, Sequences

CONSTANTS RingSize,   \* outputRingSize
          PipeSize,   \* lines the OS pipe holds before a writer blocks
          MaxLines    \* bound: lines that dlv and the target write in all

ASSUME RingSizeAssumption == RingSize \in Nat \ {0}
ASSUME PipeSizeAssumption == PipeSize \in Nat \ {0}
ASSUME MaxLinesAssumption == MaxLines \in Nat

VARIABLES
  dlv,       \* the dlv process group: "starting", "serving" or "exited"
  pipe,      \* kinds of the lines written to stdout and not yet scanned
  lines,     \* number of lines written so far
  reader,    \* the scanning goroutine: "pre" (no address yet), "post", "done"
  addrCh,    \* TRUE when addrCh (buffered, 1) holds the address
  errCh,     \* TRUE when errCh (buffered, 1) holds the error
  spawn,     \* where newSession is: see SpawnStates
  output,    \* Proc.output
  seen,      \* Proc.seen
  captured,  \* how many lines have been appended to output (history)
  told,      \* number of the newest line ever reported (history)
  report     \* what the last NewOutput or AllOutput returned

\* The abstract log that the ring implements.
Log == INSTANCE OutputLog WITH Size <- RingSize, written <- captured

procVars == <<dlv, pipe, lines>>
chanVars == <<addrCh, errCh>>
ringVars == <<output, seen, captured, told, report>>
vars == <<dlv, pipe, lines, reader, addrCh, errCh, spawn,
          output, seen, captured, told, report>>

\* "addr": the "API server listening at:" line; "banner": a later line with one
\* of the two filtered prefixes; "long": a line over the scanner's 1 MB buffer.
LineKinds == {"addr", "banner", "text", "long"}

\* "waiting": in Spawn's select; "reaping": in cmd.Wait after an error;
\* "dialing": Spawn returned, in dlv.Dial; then ready, failed, or closed.
SpawnStates == {"waiting", "reaping", "dialing", "ready", "failed", "closed"}

TypeOK ==
  /\ dlv \in {"starting", "serving", "exited"}
  /\ pipe \in Seq(LineKinds)
  /\ lines \in 0 .. MaxLines
  /\ reader \in {"pre", "post", "done"}
  /\ addrCh \in BOOLEAN /\ errCh \in BOOLEAN
  /\ spawn \in SpawnStates
  /\ output \in Seq(Nat)
  /\ seen \in Nat /\ captured \in Nat /\ told \in Nat
  /\ report \in Seq(Nat)

Init ==
  /\ dlv = "starting" /\ pipe = << >> /\ lines = 0
  /\ reader = "pre" /\ addrCh = FALSE /\ errCh = FALSE
  /\ spawn = "waiting"
  /\ output = << >> /\ seen = 0 /\ captured = 0 /\ told = 0 /\ report = << >>

-----------------------------------------------------------------------------
(* External: dlv and the target on the writing end of the pipe.            *)

\* A write blocks while the pipe is full.
WriteLine(k) ==
  /\ dlv # "exited" /\ Len(pipe) < PipeSize /\ lines < MaxLines
  /\ k = "addr" => dlv = "starting"
  /\ dlv' = IF k = "addr" THEN "serving" ELSE dlv
  /\ pipe' = Append(pipe, k)
  /\ lines' = lines + 1
  /\ UNCHANGED <<reader, addrCh, errCh, spawn, ringVars>>

\* dlv ends by itself: a build error, a crash, or the API server shut down.
DlvExits ==
  /\ dlv # "exited"
  /\ dlv' = "exited"
  /\ UNCHANGED <<pipe, lines, reader, addrCh, errCh, spawn, ringVars>>

-----------------------------------------------------------------------------
(* The ring: appendOutput, NewOutput, AllOutput.                            *)

\* Variants for mutation: without the clamp at 0, and without the shift.
SeenUnclamped(drop) == seen - drop
SeenUnshifted(drop) == seen

\* The index after drop lines have left the front of the ring.
SeenAfterDrop(drop) == IF seen - drop < 0 THEN 0 ELSE seen - drop

appendOutput(k) ==
  IF k # "text"
  THEN UNCHANGED ringVars
  ELSE LET all  == Append(output, captured + 1)
           drop == Len(all) - RingSize
       IN /\ captured' = captured + 1
          /\ IF Len(all) > RingSize
             THEN /\ output' = SubSeq(all, drop + 1, Len(all))
                  /\ seen' = SeenAfterDrop(drop)
             ELSE /\ output' = all
                  /\ UNCHANGED seen
          /\ UNCHANGED <<told, report>>

\* Variant for mutation: starts at the last line already reported.
TakeNewOverlapping ==
  /\ report' = SubSeq(output, Log!Larger(seen, 1), Len(output))
  /\ seen' = Len(output)
  /\ told' = captured
  /\ UNCHANGED <<output, captured>>

\* The ring half of NewOutput and of AllOutput.
TakeNew == /\ report' = SubSeq(output, seen + 1, Len(output))
           /\ seen' = Len(output)
           /\ told' = captured
           /\ UNCHANGED <<output, captured>>

TakeAll == /\ report' = output
           /\ seen' = Len(output)
           /\ told' = captured
           /\ UNCHANGED <<output, captured>>

\* Called by renderStop, exitReport and cmdTrace.
NewOutput == /\ spawn = "ready"
             /\ TakeNew
             /\ UNCHANGED <<procVars, reader, chanVars, spawn>>

\* The `output` command.
AllOutput == /\ spawn = "ready"
             /\ TakeAll
             /\ UNCHANGED <<procVars, reader, chanVars, spawn>>

-----------------------------------------------------------------------------
(* The scanning goroutine.                                                  *)

\* One line is scanned.  An overlong line ends the scan; before the address
\* line everything is kept aside for the error text.
ScanLine ==
  /\ reader # "done" /\ pipe # << >>
  /\ pipe' = Tail(pipe)
  /\ \/ /\ Head(pipe) = "long"
        /\ reader' = "done"
        /\ errCh' = (errCh \/ reader = "pre")
        /\ UNCHANGED <<addrCh, ringVars>>
     \/ /\ Head(pipe) = "addr" /\ reader = "pre"
        /\ reader' = "post" /\ addrCh' = TRUE
        /\ UNCHANGED <<errCh, ringVars>>
     \/ /\ Head(pipe) \notin {"addr", "long"} /\ reader = "pre"
        /\ UNCHANGED <<reader, chanVars, ringVars>>
     \/ /\ Head(pipe) # "long" /\ reader = "post"
        /\ appendOutput(Head(pipe))
        /\ UNCHANGED <<reader, chanVars>>
  /\ UNCHANGED <<dlv, lines, spawn>>

\* End of file: every writer has gone and the pipe is drained.
ScanEOF ==
  /\ reader # "done" /\ pipe = << >> /\ dlv = "exited"
  /\ reader' = "done"
  /\ errCh' = (errCh \/ reader = "pre")
  /\ UNCHANGED <<procVars, addrCh, spawn, ringVars>>

-----------------------------------------------------------------------------
(* Spawn's select, and newSession after it.                                 *)

SpawnAddr ==
  /\ spawn = "waiting" /\ addrCh
  /\ addrCh' = FALSE /\ spawn' = "dialing"
  /\ UNCHANGED <<procVars, reader, errCh, ringVars>>

SpawnError ==
  /\ spawn = "waiting" /\ errCh
  /\ errCh' = FALSE /\ spawn' = "reaping"
  /\ UNCHANGED <<procVars, reader, addrCh, ringVars>>

\* cmd.Wait returns once the process is gone.
Reaped ==
  /\ spawn = "reaping" /\ dlv = "exited"
  /\ spawn' = "failed"
  /\ UNCHANGED <<procVars, reader, chanVars, ringVars>>

\* Variants for mutation: no Kill; a timer that is armed by the first line.
SpawnTimeoutNoKill ==
  /\ spawn = "waiting"
  /\ spawn' = "failed"
  /\ UNCHANGED <<procVars, reader, chanVars, ringVars>>
SpawnTimeoutAfterOutput ==
  /\ spawn = "waiting" /\ lines > 0
  /\ dlv' = "exited" /\ spawn' = "failed"
  /\ UNCHANGED <<pipe, lines, reader, chanVars, ringVars>>

\* The 120 s timer; SIGKILL to the process group.
SpawnTimeout ==
  /\ spawn = "waiting"
  /\ dlv' = "exited" /\ spawn' = "failed"
  /\ UNCHANGED <<pipe, lines, reader, chanVars, ringVars>>

DialOk ==
  /\ spawn = "dialing" /\ dlv = "serving"
  /\ spawn' = "ready"
  /\ UNCHANGED <<procVars, reader, chanVars, ringVars>>

\* The output goes into the error text and dlv is killed.
DialFails ==
  /\ spawn = "dialing"
  /\ TakeAll
  /\ dlv' = "exited" /\ spawn' = "failed"
  /\ UNCHANGED <<pipe, lines, reader, chanVars>>

\* Session.close: Detach, Close, Kill.
Close ==
  /\ spawn = "ready"
  /\ dlv' = "exited" /\ spawn' = "closed"
  /\ UNCHANGED <<pipe, lines, reader, chanVars, ringVars>>

Next ==
  \/ \E k \in LineKinds : WriteLine(k)
  \/ DlvExits
  \/ ScanLine \/ ScanEOF
  \/ SpawnAddr \/ SpawnError \/ Reaped \/ SpawnTimeout
  \/ DialOk \/ DialFails \/ Close
  \/ NewOutput \/ AllOutput

Spec == Init /\ [][Next]_vars

\* The goroutine and the caller are scheduled; the timer and Dial's 50 tries end.
Fairness == /\ WF_vars(ScanLine) /\ WF_vars(ScanEOF)
            /\ WF_vars(SpawnAddr \/ SpawnError \/ SpawnTimeout)
            /\ WF_vars(Reaped) /\ WF_vars(DialOk \/ DialFails)

FairSpec == Spec /\ Fairness

-----------------------------------------------------------------------------
(* Properties.                                                              *)

\* The ring holds exactly the newest lines in order, and Proc.seen, which
\* appendOutput shifts and clamps as lines fall out, still points at the first
\* remembered line that no report has covered.
RingExact ==
  /\ told <= captured
  /\ output = Log!Lines(Log!Forgotten(captured) + 1, captured)
  /\ seen = Log!Larger(told - Log!Forgotten(captured), 0)

\* When newSession reports a failure (build error, 120 s timeout, Dial error)
\* no dlv is left behind, whatever order the address, the end of file, the
\* timer and the process's own exit come in.
NoOrphan == spawn \in {"failed", "closed"} => dlv = "exited"

\* The ring and its seen index implement the numbered log: NewOutput never
\* repeats or reorders a line and skips only lines that fell out of the ring.
ImplementsLog == Log!Spec

\* Spawn returns: an address, an error or the timer, except when the scanner
\* gave up on an overlong line, after which nobody drains the pipe and
\* cmd.Wait waits for a dlv that is still alive.
SpawnReturns ==
  (spawn = "waiting") ~> \/ spawn \in {"ready", "failed", "closed"}
                         \/ reader = "done" /\ dlv # "exited"
=============================================================================
