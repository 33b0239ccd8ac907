-------------------------------- MODULE View --------------------------------
(***************************************************************************)
(* The view state of a Session (internal/daemon/session.go): the selected  *)
(* goroutine and frame that vars, eval, list and bt use, and the snapshot  *)
(* of the locals that the next stop report is compared with.               *)
(*                                                                         *)
(* A stop of the target is a record.  Its n stands for the values the      *)
(* locals have there, its uf for the first frame outside the runtime.      *)
(***************************************************************************)
EXTENDS Integers

CONSTANTS Goroutines,   \* ids of the goroutines that can be selected
          MaxFrame,     \* bound: the highest frame index
          Stamps        \* values of the locals at a stop

ASSUME GoroutinesAssumption == Goroutines \subseteq Nat
ASSUME MaxFrameAssumption == MaxFrame \in Nat
ASSUME StampsAssumption == Stamps \subseteq Nat /\ Stamps # {}

VARIABLES selG,         \* Session.selG; -1 is the current goroutine
          selFrame,     \* Session.selFrame
          lastLocals,   \* Session.lastLocals: {} or one snapshot
          fresh         \* history: the selection was made at the present stop

viewVars == <<selG, selFrame, lastLocals, fresh>>

Frames == 0 .. MaxFrame

\* The locals that currentVars lists: of which stop, goroutine and frame.
Snapshots == Stamps \X ({-1} \cup Goroutines) \X Frames

ViewTypeOK ==
  /\ selG \in {-1} \cup Goroutines
  /\ selFrame \in Frames
  /\ lastLocals \in SUBSET Snapshots
  /\ fresh \in BOOLEAN

ViewInit == selG = -1 /\ selFrame = 0 /\ lastLocals = {} /\ fresh = TRUE

\* newSession, and cmdRestart after a successful RPC.
ClearView ==
  /\ selG' = -1 /\ selFrame' = 0 /\ lastLocals' = {} /\ fresh' = TRUE

\* The frame a stop report leaves selected.  renderPanic moves to the first
\* frame outside the runtime, unless the stop is reported as an interrupt.
ReportFrame(stop, halted) == IF stop.k = "panic" /\ ~halted THEN stop.uf ELSE 0

\* Variant for mutation: the selection is kept across a stop.
StopViewKeepsSelection(stop, halted) ==
  /\ UNCHANGED <<selG, selFrame, fresh>>
  /\ lastLocals' = {<<stop.n, -1, ReportFrame(stop, halted)>>}

\* "Reset the view to where we stopped", then renderStop.
StopView(stop, halted) ==
  /\ selG' = -1
  /\ selFrame' = ReportFrame(stop, halted)
  /\ lastLocals' = {<<stop.n, -1, ReportFrame(stop, halted)>>}
  /\ fresh' = TRUE

\* Variant for mutation: the delta is consumed.
StateViewConsumes(stop) ==
  /\ lastLocals' = {<<stop.n, selG, selFrame>>}
  /\ UNCHANGED <<selG, selFrame, fresh>>

\* cmdState renders the stop as well: at a panic renderPanic moves the selected
\* frame (of the selected goroutine); lastLocals is saved and put back.
StateView(stop) ==
  /\ \/ /\ stop.k = "panic"
        /\ \/ selG = -1 /\ selFrame' = stop.uf
           \/ selG # -1 /\ selFrame' \in Frames
        /\ fresh' = (fresh \/ selG = -1)
     \/ stop.k # "panic" /\ UNCHANGED <<selFrame, fresh>>
  /\ UNCHANGED <<selG, lastLocals>>

\* cmdGoroutine: the selection stays even when the backtrace then fails.
SelectGoroutine(g) ==
  /\ selG' = g /\ selFrame' = 0 /\ fresh' = TRUE
  /\ UNCHANGED lastLocals

\* cmdFrame up, down, n: the selection stays even when it is out of range.
SelectFrame ==
  /\ selFrame' \in Frames
  /\ fresh' = (fresh \/ selG = -1)
  /\ UNCHANGED <<selG, lastLocals>>
=============================================================================
