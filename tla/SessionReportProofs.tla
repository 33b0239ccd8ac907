------------------------ MODULE SessionReportProofs -------------------------
(***************************************************************************)
(* Theorems about what a session reports: the log lines, the selection, the *)
(* baseline of the next delta, and exited.  Each has an invariant of its    *)
(* own that is inductive relative to IInv.                                  *)
(***************************************************************************)
EXTENDS SessionProofs

-----------------------------------------------------------------------------
(* What else the commands and the loops do, beside the effects lemmas of     *)
(* SessionProofs.                                                           *)

LEMMA QuietRest ==
  ASSUME QuietCommand
  PROVE  /\ pc = "idle"
         /\ UNCHANGED <<pc, exited, target, pend, reply, cmd, logs, fired, clean>>
         /\ report' = report \/ report'.kind = "error"
         /\ UNCHANGED <<selG, selFrame, fresh>> \/ Select \/ State
         /\ lastLocals' = lastLocals
<1> USE DEF Plain, sessVars, viewVars, dlvVars, rpcVars, callVars, ghosts
<1>1. CASE \E i \in Ids, l \in Locs : Break(i, l) \/ BreakLog(i, l)
  BY <1>1 DEF Break, BreakLog, Ready
<1>2. CASE \E i \in Ids : Watch(i) \/ BreakRm(i)
  BY <1>2 DEF Watch, BreakRm, Ready
<1>3. CASE \E i \in Ids, on \in BOOLEAN : BreakToggle(i, on)
  BY <1>3 DEF BreakToggle, Ready
<1>4. CASE ResumeRefused({"continue", "step"})
  BY <1>4 DEF ResumeRefused
<1>5. CASE Select \/ State
  BY <1>5 DEF Select, State, Ready, SelectFrame, SelectGoroutine, StateView
<1> QED BY <1>1, <1>2, <1>3, <1>4, <1>5 DEF QuietCommand

LEMMA ReplacingRest ==
  ASSUME ReplacingCommand
  PROVE  /\ selG' = -1 /\ selFrame' = 0 /\ lastLocals' = {} /\ fresh' = TRUE
         /\ exited' = FALSE /\ target' \in {"none", "paused"} /\ reply'.kind = "none"
         /\ \/ /\ pc' = "idle" /\ cmd' = cmd
               /\ report'.kind \in {"none", "error", "launched"}
            \/ /\ pc' = "run" /\ logs' = 0 /\ fired' = 0
               /\ cmd' \in {"resume", "trace"}
<1> USE DEF Plain, NoReply, ClearView
<1>1. CASE LaunchFails \/ Stop \/ Respawn
  BY <1>1 DEF LaunchFails, Stop, Respawn, NoSession
<1>2. ASSUME NEW ls \in BreakLists, LaunchPaused(ls)
      PROVE  /\ selG' = -1 /\ selFrame' = 0 /\ lastLocals' = {} /\ fresh' = TRUE
             /\ exited' = FALSE /\ target' = "paused" /\ reply'.kind = "none"
             /\ pc' = "idle" /\ cmd' = cmd /\ report'.kind = "launched"
  BY <1>2 DEF LaunchPaused, NewSession
<1>3. ASSUME NEW ls \in BreakLists, LaunchRuns(ls) \/ Trace(ls)
      PROVE  /\ selG' = -1 /\ selFrame' = 0 /\ lastLocals' = {} /\ fresh' = TRUE
             /\ exited' = FALSE /\ target' = "paused" /\ reply'.kind = "none"
             /\ pc' = "run" /\ logs' = 0 /\ fired' = 0 /\ cmd' \in {"resume", "trace"}
  BY <1>3 DEF LaunchRuns, Trace, NewSession, Start, Send
<1> QED BY <1>1, <1>2, <1>3 DEF ReplacingCommand

LEMMA StartRest ==
  ASSUME Continue \/ Step \/ \E i \in Ids, l \in Locs : Until(i, l)
  PROVE  /\ UNCHANGED <<exited, target, viewVars>>
         /\ \/ /\ pc' = "run" /\ cmd' \in {"resume", "until"} /\ pend' = TRUE
               /\ logs' = 0 /\ fired' = 0 /\ reply'.kind = "none"
            \/ /\ pc' = "clear" /\ cmd' = "until" /\ report'.kind = "error"
               /\ UNCHANGED <<pend, reply, clean>> /\ exited
<1> USE DEF sessVars, Start, Send, NoReply, Plain
<1>1. CASE Continue \/ Step
  BY <1>1 DEF Continue, Step, dlvVars
<1>2. ASSUME NEW i \in Ids, NEW l \in Locs, Until(i, l)
      PROVE  /\ UNCHANGED <<exited, target, viewVars>>
             /\ \/ /\ pc' = "run" /\ cmd' \in {"resume", "until"} /\ pend' = TRUE
                   /\ logs' = 0 /\ fired' = 0 /\ reply'.kind = "none"
                \/ /\ pc' = "clear" /\ cmd' = "until" /\ report'.kind = "error"
                   /\ UNCHANGED <<pend, reply, clean>> /\ exited
  BY <1>2 DEF Until
<1> QED BY <1>1, <1>2

\* The steps of the loops: one more round, or a report and the end of the call.
LEMMA AnswerRest ==
  ASSUME AfterReply
  PROVE  /\ UNCHANGED <<target, cmd, fired, clean, logpoints>> /\ reply'.kind = "none"
         /\ \/ /\ pc' = "run" /\ pend' = TRUE /\ exited' = exited
               /\ reply.kind = "stop" /\ UNCHANGED viewVars
               /\ cmd # "trace" => AtLogpoint /\ logs' = Bump(logs, MaxLogs)
            \/ /\ pc' = IF cmd = "until" THEN "clear" ELSE "idle"
               /\ pend' = pend
               /\ \/ report'.kind = "error" /\ reply.kind = "fail"
                     /\ UNCHANGED <<exited, viewVars>>
                  \/ report'.kind = "exit" /\ report'.logs = logs /\ reply.kind = "exit"
                     /\ exited' = TRUE /\ UNCHANGED viewVars
                  \/ /\ cmd # "trace" /\ reply.kind = "stop" /\ ~AtLogpoint
                     /\ report'.kind = "stop" /\ report'.stop = reply.stop
                     /\ report'.logs = logs /\ report'.halted = (pc = "halted")
                     /\ StopView(reply.stop, pc = "halted") /\ exited' = exited
                  \/ /\ cmd = "trace" /\ report'.kind = "stop"
                     /\ UNCHANGED viewVars \/ (selG' = -1 /\ selFrame' = 0)
<1> USE DEF sessVars, dlvVars, callVars, ghosts, AfterStop, Return, Told, Plain, NoReply
<1>1. CASE ResumeFails \/ TraceFails
  BY <1>1 DEF ResumeFails, TraceFails
<1>2. CASE ResumeExits
  BY <1>2 DEF ResumeExits
<1>3. CASE ResumeLogs
  BY <1>3 DEF ResumeLogs, Send
<1>4. CASE ResumeStops
  BY <1>4 DEF ResumeStops
<1>5. CASE TraceExits
  BY <1>5 DEF TraceExits, TraceDone
<1>6. CASE TraceTimesOut
  BY <1>6 DEF TraceTimesOut, TraceDone
<1>7. CASE TracePanics
  BY <1>7 DEF TracePanics
<1>8. CASE TraceHits
  <2>1. CASE HitsLeft(hits')
    BY <1>8, <2>1 DEF TraceHits, Send
  <2>2. CASE ~HitsLeft(hits')
    BY <1>8, <2>2 DEF TraceHits
  <2> QED BY <2>1, <2>2
<1> QED BY <1>1, <1>2, <1>3, <1>4, <1>5, <1>6, <1>7, <1>8 DEF AfterReply

-----------------------------------------------------------------------------
(* Counted: one log line for every logpoint stop.                           *)

LEMMA CountedCommand ==
  ASSUME TypeOK, Control, Counted, SessionCommand \/ Respawn
  PROVE  Counted'
<1> USE DEF Counted, InCall, Over
<1>1. CASE QuietCommand
  BY <1>1, QuietRest
<1>2. CASE ReplacingCommand
  BY <1>2, ReplacingRest
<1>3. CASE Continue \/ Step \/ \E i \in Ids, l \in Locs : Until(i, l)
  BY <1>3, StartRest
<1>4. CASE PausePaused \/ PauseRunning \/ PauseExited
  <2>1. pc' \in {"idle", "crashed"}
    BY <1>4 DEF PausePaused, PauseRunning, PauseExited
  <2>2. pc' = "crashed" \/ report'.kind \in {"paused", "error"}
    <3>1. CASE PausePaused
      BY <3>1 DEF PausePaused, Plain
    <3>2. CASE PauseRunning
      BY <3>2 DEF PauseRunning, Plain
    <3>3. CASE PauseExited
      BY <3>3 DEF PauseExited, Plain
    <3> QED BY <1>4, <3>1, <3>2, <3>3
  <2> QED BY <2>1, <2>2
<1>5. ASSUME NEW lost \in SUBSET Ids, Restart(lost) PROVE Counted'
  BY <1>5 DEF Restart, RestartTarget, Ready, Plain
<1>6. CASE Respawn
  BY <1>2, <1>6 DEF ReplacingCommand
<1> QED BY <1>1, <1>2, <1>3, <1>4, <1>5, <1>6, CommandCases

LEMMA CountedHandler ==
  ASSUME TypeOK, Control, Counted,
         Timeout \/ GiveUp \/ Receive \/ AfterReply \/ ClearUntil
  PROVE  Counted'
<1> USE DEF Counted, InCall, Over, sessVars, rpcVars, callVars, ghosts
<1>1. CASE Timeout \/ Receive
  BY <1>1 DEF Timeout, Receive, AtLogpoint
<1>2. CASE GiveUp
  BY <1>2 DEF GiveUp
<1>3. CASE ClearUntil
  BY <1>3 DEF ClearUntil
<1>4. CASE AfterReply
  <2>1. pc \in {"stopped", "halted"} /\ UNCHANGED <<cmd, fired, clean>> /\ reply'.kind = "none"
    BY <1>4, AnswerEffect, AnswerRest
  <2>2. CASE cmd # "trace" /\ clean
    <3>1. CASE pc' = "run"
      BY <1>4, <2>1, <2>2, <3>1, AnswerRest
    <3>2. CASE pc' # "run"
      <4>1. pc' \in {"clear", "idle"}
        BY <1>4, <3>2, AnswerRest
      <4>2. \/ report'.kind = "error"
            \/ report'.logs = logs /\ ~(reply.kind = "stop" /\ AtLogpoint)
        BY <1>4, <2>2, <3>2, AnswerRest
      <4> QED BY <2>1, <2>2, <4>1, <4>2
    <3> QED BY <3>1, <3>2
  <2> QED BY <2>1, <2>2
<1> QED BY <1>1, <1>2, <1>3, <1>4

LEMMA CountedDelve ==
  ASSUME TypeOK, Control, Undisturbed, Counted, Delve
  PROVE  Counted'
<1> USE DEF Counted, InCall, Over, Control, Undisturbed, TypeOK, sessVars, callVars, ghosts
<1>1. CASE ServeMine
  BY <1>1 DEF ServeMine, AtLogpoint
<1>2. CASE ServeLost
  BY <1>2 DEF ServeLost, AtLogpoint
<1>3. CASE TargetExits
  BY <1>3 DEF TargetExits, Deliver, AtLogpoint
<1>4. CASE HaltArrives
  BY <1>4 DEF HaltArrives, Deliver, AtLogpoint
<1>5. ASSUME NEW stop \in Stops, TargetStops(stop) PROVE Counted'
  BY <1>5 DEF TargetStops, Deliver, AtLogpoint
<1> QED BY <1>1, <1>2, <1>3, <1>4, <1>5 DEF Delve

-----------------------------------------------------------------------------
(* Selected: no selection from an earlier stop.                             *)

LEMMA SelectedCommand ==
  ASSUME TypeOK, Control, Selected, SessionCommand \/ Respawn
  PROVE  Selected'
<1> USE DEF Selected, InCall, Over
<1>1. CASE QuietCommand
  <2>1. /\ pc' = "idle" /\ pc = "idle" /\ clean' = clean
        /\ report' = report \/ report'.kind = "error"
    BY <1>1, QuietRest
  <2>2. \/ UNCHANGED <<selG, selFrame, fresh>>
        \/ fresh' = TRUE
        \/ fresh' = (fresh \/ selG = -1)
    BY <1>1, QuietRest
       DEF viewVars, Select, State, SelectFrame, SelectGoroutine, StateView
  <2> QED BY <2>1, <2>2 DEF TypeOK, ViewTypeOK
<1>2. CASE ReplacingCommand
  BY <1>2, ReplacingRest
<1>3. CASE Continue \/ Step \/ \E i \in Ids, l \in Locs : Until(i, l)
  BY <1>3, StartRest
<1>4. CASE PausePaused \/ PauseRunning
  <2>1. pc' = "idle" /\ fresh' = TRUE
    BY <1>4 DEF PausePaused, PauseRunning, StopView
  <2> QED BY <2>1
<1>5. CASE PauseExited
  <2>1. pc' = "crashed" \/ (pc' = "idle" /\ report'.kind = "error")
    BY <1>5 DEF PauseExited, Plain
  <2> QED BY <2>1
<1>6. ASSUME NEW lost \in SUBSET Ids, Restart(lost) PROVE Selected'
  BY <1>6 DEF Restart, RestartTarget, ClearView, Ready
<1>7. CASE Respawn
  BY <1>2, <1>7 DEF ReplacingCommand
<1> QED BY <1>1, <1>2, <1>3, <1>4, <1>5, <1>6, <1>7, CommandCases

LEMMA SelectedHandler ==
  ASSUME TypeOK, Control, Selected,
         Timeout \/ GiveUp \/ Receive \/ AfterReply \/ ClearUntil
  PROVE  Selected'
<1> USE DEF Selected, InCall, Over, viewVars, callVars, ghosts
<1>1. CASE Timeout \/ Receive
  BY <1>1 DEF Timeout, Receive
<1>2. CASE GiveUp
  BY <1>2 DEF GiveUp, Return
<1>3. CASE ClearUntil
  BY <1>3 DEF ClearUntil
<1>4. CASE AfterReply
  <2>1. pc \in {"stopped", "halted"} /\ UNCHANGED <<cmd, clean>>
    BY <1>4, AnswerEffect, AnswerRest
  <2>2. CASE pc' = "run"
    BY <1>4, <2>1, <2>2, AnswerRest
  <2>3. CASE pc' # "run"
    <3>1. pc' \in {"clear", "idle"}
      BY <1>4, <2>3, AnswerRest
    <3>2. \/ report'.kind \in {"error", "exit"}
          \/ fresh' = TRUE
          \/ cmd = "trace" /\ (UNCHANGED <<selG, selFrame>> \/ (selG' = -1 /\ selFrame' = 0))
      BY <1>4, <2>3, AnswerRest DEF StopView
    <3> QED BY <2>1, <3>1, <3>2
  <2> QED BY <2>2, <2>3
<1> QED BY <1>1, <1>2, <1>3, <1>4

LEMMA SelectedDelve ==
  ASSUME TypeOK, Control, Undisturbed, Selected, Delve
  PROVE  Selected'
<1> USE DEF Selected, InCall, Over, Control, Undisturbed, TypeOK, viewVars, callVars, ghosts
<1>1. CASE ServeMine
  BY <1>1 DEF ServeMine
<1>2. CASE ServeLost
  BY <1>2 DEF ServeLost
<1>3. CASE TargetExits
  BY <1>3 DEF TargetExits
<1>4. CASE HaltArrives
  BY <1>4 DEF HaltArrives
<1>5. ASSUME NEW stop \in Stops, TargetStops(stop) PROVE Selected'
  BY <1>5 DEF TargetStops
<1> QED BY <1>1, <1>2, <1>3, <1>4, <1>5 DEF Delve

-----------------------------------------------------------------------------
(* Baseline: the locals of the last stop report.                            *)

LEMMA BaselineCommand ==
  ASSUME TypeOK, Control, Baseline, SessionCommand \/ Respawn
  PROVE  Baseline'
<1> USE DEF Baseline, Over
<1>1. CASE QuietCommand
  BY <1>1, QuietRest
<1>2. CASE ReplacingCommand
  BY <1>2, ReplacingRest
<1>3. CASE Continue \/ Step \/ \E i \in Ids, l \in Locs : Until(i, l)
  BY <1>3, StartRest
<1>4. CASE PausePaused
  BY <1>4 DEF PausePaused, StopView, Plain
<1>5. CASE PauseRunning
  BY <1>5 DEF PauseRunning, StopView, Plain
<1>6. CASE PauseExited
  <2>1. pc' = "crashed" \/ report'.kind = "error"
    BY <1>6 DEF PauseExited, Plain
  <2> QED BY <2>1
<1>7. ASSUME NEW lost \in SUBSET Ids, Restart(lost) PROVE Baseline'
  BY <1>7 DEF Restart, RestartTarget, Plain
<1>8. CASE Respawn
  BY <1>2, <1>8 DEF ReplacingCommand
<1> QED BY <1>1, <1>2, <1>3, <1>4, <1>5, <1>6, <1>7, <1>8, CommandCases

LEMMA BaselineHandler ==
  ASSUME TypeOK, Control, Baseline,
         Timeout \/ GiveUp \/ Receive \/ AfterReply \/ ClearUntil
  PROVE  Baseline'
<1> USE DEF Baseline, Over, viewVars, callVars
<1>1. CASE Timeout \/ Receive
  BY <1>1 DEF Timeout, Receive
<1>2. CASE GiveUp
  BY <1>2 DEF GiveUp, Return, Plain
<1>3. CASE ClearUntil
  BY <1>3 DEF ClearUntil
<1>4. CASE AfterReply
  <2>1. \/ pc' = "run" \/ report'.kind \in {"error", "exit"}
        \/ cmd' = "trace" /\ report'.kind = "stop"
        \/ /\ report'.stop = reply.stop /\ report'.halted = (pc = "halted")
           /\ StopView(reply.stop, pc = "halted")
    BY <1>4, AnswerRest
  <2> QED BY <2>1 DEF StopView
<1> QED BY <1>1, <1>2, <1>3, <1>4

LEMMA BaselineDelve ==
  ASSUME TypeOK, Control, Baseline, Delve
  PROVE  Baseline'
<1> USE DEF Baseline, Over, viewVars, callVars
<1>1. CASE ServeMine
  BY <1>1 DEF ServeMine
<1>2. CASE ServeLost
  BY <1>2 DEF ServeLost
<1>3. CASE TargetExits
  BY <1>3 DEF TargetExits
<1>4. CASE HaltArrives
  BY <1>4 DEF HaltArrives
<1>5. ASSUME NEW stop \in Stops, TargetStops(stop) PROVE Baseline'
  BY <1>5 DEF TargetStops
<1> QED BY <1>1, <1>2, <1>3, <1>4, <1>5 DEF Delve

-----------------------------------------------------------------------------
(* Honest: exited follows the target.  trace's timeout sets it as well, so     *)
(* the commands do not include trace.                                       *)

LEMMA HonestCommand ==
  ASSUME TypeOK, Control, Honest, "trace" \notin Commands, SessionCommand \/ Respawn
  PROVE  Honest'
<1> USE DEF Honest
<1>1. CASE QuietCommand
  BY <1>1, QuietRest
<1>2. CASE LaunchFails \/ Stop \/ Respawn
  BY <1>2 DEF LaunchFails, Stop, Respawn, NoSession, NoReply
<1>3. ASSUME NEW ls \in BreakLists, LaunchPaused(ls) \/ LaunchRuns(ls) PROVE Honest'
  <2>1. exited' = FALSE /\ target' = "paused" /\ cmd' \in {cmd, "resume"}
    BY <1>3 DEF LaunchPaused, LaunchRuns, NewSession, Start, Send
  <2>2. reply'.kind = "none"
    BY <1>3 DEF LaunchPaused, LaunchRuns, NoReply, Start, Send
  <2> QED BY <2>1, <2>2
<1>4. CASE Continue \/ Step \/ \E i \in Ids, l \in Locs : Until(i, l)
  <2>1. UNCHANGED <<exited, target>> /\ cmd' # "trace"
    BY <1>4, StartRest
  <2>2. \/ pend' /\ reply'.kind = "none"
        \/ UNCHANGED <<pend, reply, clean>>
    BY <1>4, StartRest
  <2> QED BY <2>1, <2>2
<1>5. CASE PausePaused
  BY <1>5 DEF PausePaused, sessVars, dlvVars, rpcVars, callVars
<1>6. CASE PauseRunning
  BY <1>6 DEF PauseRunning, Deliver, sessVars, callVars
<1>7. CASE PauseExited
  BY <1>7 DEF PauseExited, sessVars, dlvVars, rpcVars, callVars, ghosts
<1>8. ASSUME NEW lost \in SUBSET Ids, Restart(lost) PROVE Honest'
  <2>1. exited' = FALSE /\ target' = "paused" /\ reply'.kind = "none" /\ cmd' = cmd
    BY <1>8 DEF Restart, RestartTarget, Ready, rpcVars, callVars, Control, InCall
  <2> QED BY <2>1
<1>9. ~\E ls \in BreakLists : Trace(ls) /\ Asked("trace")
  BY DEF Asked
<1>10. \/ QuietCommand \/ LaunchFails \/ Stop \/ Respawn
       \/ \E ls \in BreakLists : LaunchPaused(ls) \/ LaunchRuns(ls)
       \/ Continue \/ Step \/ \E i \in Ids, l \in Locs : Until(i, l)
       \/ PausePaused \/ PauseRunning \/ PauseExited
       \/ \E lost \in SUBSET Ids : Restart(lost)
  BY <1>9, Zenon DEF SessionCommand, QuietCommand
<1> QED BY <1>1, <1>2, <1>3, <1>4, <1>5, <1>6, <1>7, <1>8, <1>10

LEMMA HonestHandler ==
  ASSUME TypeOK, Control, Undisturbed, Honest,
         Timeout \/ GiveUp \/ Receive \/ AfterReply \/ ClearUntil
  PROVE  Honest'
<1> USE DEF Honest, sessVars, dlvVars, rpcVars, callVars, ghosts
<1>1. CASE Timeout \/ Receive
  BY <1>1 DEF Timeout, Receive
<1>2. CASE GiveUp
  BY <1>2 DEF GiveUp, NoReply
<1>3. CASE ClearUntil
  BY <1>3 DEF ClearUntil
<1>4. CASE AfterReply
  <2>1. UNCHANGED <<target, cmd, clean>> /\ reply'.kind = "none"
    BY <1>4, AnswerRest
  <2>2. CASE reply.kind = "exit"
    BY <1>4, <2>1, <2>2, AnswerRest
  <2>3. CASE reply.kind # "exit"
    <3>1. exited' = exited /\ (pend' = pend \/ pend' = TRUE)
      BY <1>4, <2>3, AnswerRest
    <3> QED BY <2>1, <2>3, <3>1 DEF TypeOK
  <2> QED BY <2>2, <2>3
<1> QED BY <1>1, <1>2, <1>3, <1>4

LEMMA HonestDelve ==
  ASSUME TypeOK, Control, Undisturbed, Honest, Delve
  PROVE  Honest'
<1> USE DEF Honest, Control, InCall, Undisturbed, TypeOK, sessVars, callVars, ghosts
<1>1. CASE ServeMine
  BY <1>1 DEF ServeMine
<1>2. CASE ServeLost
  BY <1>2 DEF ServeLost
<1>3. CASE TargetExits
  BY <1>3 DEF TargetExits, Deliver
<1>4. CASE HaltArrives
  BY <1>4 DEF HaltArrives, Deliver
<1>5. ASSUME NEW stop \in Stops, TargetStops(stop) PROVE Honest'
  BY <1>5 DEF TargetStops, Deliver
<1> QED BY <1>1, <1>2, <1>3, <1>4, <1>5 DEF Delve

-----------------------------------------------------------------------------
(* The invariant and the theorems.                                          *)

LEMMA InitReports == Init => ReportInv
BY DEF Init, ReportInv, Counted, Selected, Baseline, Honest, InCall, Over, ViewInit,
       NoReply, Plain

LEMMA NextReports == IInv /\ ReportInv /\ [Next]_vars => ReportInv'
<1> SUFFICES ASSUME IInv, ReportInv, [Next]_vars PROVE ReportInv'
  OBVIOUS
<1> USE DEF IInv, ReportInv
<1>1. CASE SessionCommand \/ Respawn
  BY <1>1, CountedCommand, SelectedCommand, BaselineCommand, HonestCommand
<1>2. CASE Timeout \/ GiveUp \/ Receive \/ AfterReply \/ ClearUntil
  BY <1>2, CountedHandler, SelectedHandler, BaselineHandler, HonestHandler
<1>3. CASE Delve
  BY <1>3, CountedDelve, SelectedDelve, BaselineDelve, HonestDelve
<1>4. CASE UNCHANGED vars
  BY <1>4 DEF vars, sessVars, viewVars, dlvVars, rpcVars, callVars, ghosts,
              Counted, Selected, Baseline, Honest, InCall, Over, AtLogpoint
<1> QED BY <1>1, <1>2, <1>3, <1>4 DEF Next, Handler

\* What a session reports and keeps between reports, for any number of breakpoints,
\* goroutines, frames and log lines.
THEOREM ReportInvariant == Spec => [](IInv /\ ReportInv)
BY InitInvariant, NextInvariant, InitReports, NextReports, PTL DEF Spec

\* resume (commands.go): a stop or exit report carries one log line for every time
\* a logpoint stopped the target during the call.
THEOREM LogsCompleteCorrect == Spec => []LogsComplete
<1>1. ReportInv => LogsComplete
  BY DEF ReportInv, Counted, Over, LogsComplete, Idle
<1> QED BY <1>1, ReportInvariant, PTL

\* StopView, ClearView and cmdTrace: what was selected at one stop is not carried
\* over to the next.
THEOREM SelectionFreshCorrect == Spec => []SelectionFresh
<1>1. ReportInv => SelectionFresh
  BY DEF ReportInv, Selected, Over, SelectionFresh, Idle
<1> QED BY <1>1, ReportInvariant, PTL

\* renderStop and cmdState: the next delta is against the last stop report.
THEOREM DeltaBaselineCorrect == Spec => []DeltaBaseline
<1>1. ReportInv => DeltaBaseline
  BY DEF ReportInv, Baseline, Over, DeltaBaseline, Idle
<1> QED BY <1>1, ReportInvariant, PTL

\* Session.exited says what became of the target, as long as nobody uses trace:
\* cmdTrace sets exited also when it gives up waiting for its breakpoint.
THEOREM ExitedHonestCorrect ==
  ASSUME "trace" \notin Commands
  PROVE  Spec => []ExitedHonest
<1>1. IInv /\ ReportInv => ExitedHonest
  BY DEF IInv, Control, InCall, TypeOK, ReportInv, Honest, ExitedHonest, Idle
<1> QED BY <1>1, ReportInvariant, PTL
=============================================================================
