--------------------------- MODULE SessionProofs ----------------------------
(***************************************************************************)
(* Theorems about Session, for every set of goroutines, locations and      *)
(* commands and every value of the bounds.                                 *)
(***************************************************************************)
EXTENDS Session, TLAPS

-----------------------------------------------------------------------------
(* The records and tables that the actions build.                           *)

LEMMA StopTypes ==
  /\ NoStop \in Stops
  /\ NoReply \in Replies
  /\ \A n \in Stamps : [k |-> "manual", id |-> 0, uf |-> 0, n |-> n] \in Stops
  /\ \A stop \in Stops : [kind |-> "stop", stop |-> stop] \in Replies
  /\ [kind |-> "fail", stop |-> NoStop] \in Replies
  /\ [kind |-> "exit", stop |-> NoStop] \in Replies
<1>1. NoStop \in Stops
  BY SessionAssumption, StampsAssumption, MaxFrameAssumption
     DEF NoStop, Stops, StopKinds, Frames
<1>2. \A n \in Stamps : [k |-> "manual", id |-> 0, uf |-> 0, n |-> n] \in Stops
  BY SessionAssumption, MaxFrameAssumption DEF Stops, StopKinds, Frames
<1> QED BY <1>1, <1>2 DEF Replies, NoReply

LEMMA ReportTypes ==
  ASSUME logs \in 0 .. MaxLogs
  PROVE  /\ \A kind \in {"none", "launched", "paused", "error"} :
              Plain(kind) \in Reports
         /\ \A stop \in Stops :
              [Plain("paused") EXCEPT !.stop = stop] \in Reports
         /\ \A kind \in {"stop", "exit"}, stop \in Stops, never \in SUBSET Ids,
               halted \in BOOLEAN : Told(kind, stop, never, halted) \in Reports
<1>1. \A kind \in {"none", "launched", "paused", "error"} : Plain(kind) \in Reports
  BY StopTypes, SessionAssumption DEF Plain, Reports
<1>2. \A stop \in Stops : [Plain("paused") EXCEPT !.stop = stop] \in Reports
  BY <1>1 DEF Plain, Reports
<1>3. \A kind \in {"stop", "exit"}, stop \in Stops, never \in SUBSET Ids,
         halted \in BOOLEAN : Told(kind, stop, never, halted) \in Reports
  BY DEF Told, Reports
<1> QED BY <1>1, <1>2, <1>3

LEMMA BpTypes ==
  /\ FreeBp \in Bps
  /\ \A kind \in BpKinds, l \in Locs : NewBp(kind, l) \in Bps
  /\ [FreeBp EXCEPT !.kind = "watch"] \in Bps
  /\ \A ls \in BreakLists : TableOf(ls) \in [Ids -> Bps]
  /\ TableOf(<< >>) \in [Ids -> Bps]
<1>1. FreeBp \in Bps
  BY SessionAssumption DEF FreeBp, Bps, BpKinds
<1>2. \A kind \in BpKinds, l \in Locs : NewBp(kind, l) \in Bps
  BY DEF NewBp, Bps
<1>3. [FreeBp EXCEPT !.kind = "watch"] \in Bps
  BY <1>1 DEF Bps, BpKinds
<1>4. ASSUME NEW ls \in BreakLists PROVE TableOf(ls) \in [Ids -> Bps]
  <2>1. \A i \in DOMAIN ls : ls[i] \in Locs
    BY DEF BreakLists
  <2> QED BY <1>1, <1>2, <2>1 DEF TableOf, BpKinds
<1>5. TableOf(<< >>) \in [Ids -> Bps]
  BY <1>1 DEF TableOf
<1> QED BY <1>1, <1>2, <1>3, <1>4, <1>5

LEMMA BumpType ==
  ASSUME NEW max \in Nat, NEW n \in 0 .. max
  PROVE  Bump(n, max) \in 0 .. max
BY DEF Bump

LEMMA ReportFrameType ==
  ASSUME NEW stop \in Stops, NEW halted \in BOOLEAN
  PROVE  /\ ReportFrame(stop, halted) \in Frames
         /\ {<<stop.n, -1, ReportFrame(stop, halted)>>} \in SUBSET Snapshots
<1>1. ReportFrame(stop, halted) \in Frames
  BY MaxFrameAssumption DEF ReportFrame, Stops, Frames
<1>2. stop.n \in Stamps
  BY DEF Stops
<1> QED BY <1>1, <1>2 DEF Snapshots

-----------------------------------------------------------------------------
(* Type correctness.                                                        *)

LEMMA InitTypes == Init => TypeOK
<1> SUFFICES ASSUME Init PROVE TypeOK
  OBVIOUS
<1>1. ViewTypeOK
  BY MaxFrameAssumption DEF Init, ViewInit, ViewTypeOK, Frames
<1>2. /\ sess \in BOOLEAN /\ exited \in BOOLEAN /\ pend \in BOOLEAN
      /\ clean \in BOOLEAN
  BY DEF Init
<1>3. /\ logpoints \in SUBSET Ids /\ at \in Stops /\ bps \in [Ids -> Bps]
      /\ reply \in Replies
  BY StopTypes, BpTypes DEF Init
<1>4. /\ waiting \in 0 .. MaxLost /\ halts \in 0 .. MaxHalts
      /\ untilId \in 0 .. MaxId /\ logs \in 0 .. MaxLogs
      /\ fired \in 0 .. MaxLogs /\ hits \in 0 .. TraceMax
  BY SessionAssumption DEF Init
<1>5. report \in Reports
  BY <1>4, ReportTypes DEF Init
<1>6. /\ target = "none" /\ serving = "none" /\ pc = "idle"
      /\ cmd = "resume" /\ name = "continue"
  BY DEF Init
<1> QED BY <1>1, <1>2, <1>3, <1>4, <1>5, <1>6 DEF TypeOK

\* The timers, the channel and ClearUntil.
LEMMA HandlerTypes ==
  ASSUME TypeOK, Bounded, Timeout \/ GiveUp \/ Receive \/ ClearUntil
  PROVE  TypeOK'
<1> USE DEF TypeOK, ViewTypeOK, sessVars, viewVars, dlvVars, rpcVars, callVars,
            ghosts
<1>1. CASE Timeout
  BY <1>1, BumpType, SessionAssumption DEF Timeout
<1>2. CASE GiveUp
  <2>1. waiting' \in 0 .. MaxLost
    BY <1>2, SessionAssumption DEF GiveUp, Bounded, InCall
  <2>2. report' \in Reports
    BY <1>2, ReportTypes DEF GiveUp, Return
  <2> QED BY <1>2, <2>1, <2>2, StopTypes, ZenonT(40) DEF GiveUp, Return
<1>3. CASE Receive
  BY <1>3 DEF Receive
<1>4. CASE ClearUntil
  <2>1. bps' \in [Ids -> Bps]
    BY <1>4 DEF ClearUntil, Bps, BpKinds
  <2> QED BY <1>4, <2>1 DEF ClearUntil
<1> QED BY <1>1, <1>2, <1>3, <1>4

\* Delve and the target.
LEMMA DelveTypes ==
  ASSUME TypeOK, Delve
  PROVE  TypeOK'
<1> USE DEF TypeOK, ViewTypeOK, sessVars, viewVars, dlvVars, rpcVars, callVars,
            ghosts
<1>1. CASE ServeMine
  <2>1. target' \in {"running", target} /\ serving' \in {"mine", serving}
    BY <1>1 DEF ServeMine
  <2>2. reply' \in Replies
    BY <1>1, StopTypes DEF ServeMine
  <2>3. fresh' \in BOOLEAN /\ pend' \in BOOLEAN
    BY <1>1, Zenon DEF ServeMine
  <2> QED BY <1>1, <2>1, <2>2, <2>3 DEF ServeMine
<1>2. CASE ServeLost
  <2>1. target' \in {"running", target} /\ serving' \in {"lost", serving}
    BY <1>2 DEF ServeLost
  <2>2. waiting' \in 0 .. MaxLost
    BY <1>2, SessionAssumption DEF ServeLost
  <2>3. fresh' \in BOOLEAN
    BY <1>2, Zenon DEF ServeLost
  <2> QED BY <1>2, <2>1, <2>2, <2>3 DEF ServeLost
<1>3. CASE TargetExits
  BY <1>3, StopTypes DEF TargetExits, Deliver, Replies
<1>4. CASE HaltArrives
  <2>1. halts' \in 0 .. MaxHalts
    BY <1>4, SessionAssumption DEF HaltArrives
  <2>2. at' \in Stops /\ reply' \in Replies
    BY <1>4, StopTypes DEF HaltArrives, Deliver
  <2> QED BY <1>4, <2>1, <2>2 DEF HaltArrives, Deliver
<1>5. ASSUME NEW stop \in Stops, TargetStops(stop) PROVE TypeOK'
  <2>1. bps' \in [Ids -> Bps]
    <3>1. /\ [bps EXCEPT ![stop.id].hit = TRUE] \in [Ids -> Bps]
          /\ [bps EXCEPT ![stop.id].kind = "gone"] \in [Ids -> Bps]
      BY ZenonT(40) DEF Bps, BpKinds
    <3> QED BY <1>5, <3>1 DEF TargetStops, Stopped
  <2>2. reply' \in Replies
    BY <1>5, StopTypes DEF TargetStops, Deliver
  <2>3. fired' \in 0 .. MaxLogs
    BY <1>5, BumpType, SessionAssumption DEF TargetStops
  <2> QED BY <1>5, <2>1, <2>2, <2>3 DEF TargetStops, Deliver
<1> QED BY <1>1, <1>2, <1>3, <1>4, <1>5 DEF Delve

\* What the loops of resume and of cmdTrace do with a reply.
LEMMA AfterReplyTypes ==
  ASSUME TypeOK, Bounded, AfterReply
  PROVE  TypeOK'
<1> USE DEF TypeOK, ViewTypeOK, sessVars, viewVars, dlvVars, rpcVars, callVars,
            ghosts
<1>1. reply.stop \in Stops /\ NeverHit \in SUBSET Ids /\ (pc = "halted") \in BOOLEAN
  BY DEF Replies, NeverHit
<1>2. CASE ResumeFails \/ TraceFails
  BY <1>2, ReportTypes, StopTypes DEF ResumeFails, TraceFails, Return
<1>3. CASE ResumeExits
  <2>1. report' \in Reports
    BY <1>1, <1>3, ReportTypes, StopTypes DEF ResumeExits, Return
  <2>2. reply' \in Replies /\ pc' \in {"clear", "idle"}
    BY <1>3, StopTypes DEF ResumeExits, Return
  <2>3. exited' = TRUE
    BY <1>3 DEF ResumeExits
  <2>4. UNCHANGED <<sess, logpoints, viewVars, dlvVars, pend, serving, waiting,
                    halts, callVars, ghosts>>
    BY <1>3 DEF ResumeExits
  <2>5. ViewTypeOK'
    BY <2>4 DEF viewVars, ViewTypeOK
  <2>6. pc' \in {"idle", "run", "intr", "stopped", "halted", "clear", "crashed"}
    BY <2>2
  <2> QED BY <2>1, <2>2, <2>3, <2>4, <2>5, <2>6 DEF dlvVars, callVars, ghosts
<1>4. CASE ResumeLogs
  <2>1. logs' \in 0 .. MaxLogs
    BY <1>4, BumpType, SessionAssumption DEF ResumeLogs
  <2> QED BY <1>4, <2>1, StopTypes DEF ResumeLogs, Send
<1>5. CASE ResumeStops
  <2>1. report' \in Reports
    BY <1>1, <1>5, ReportTypes DEF ResumeStops, Return
  <2>2. ViewTypeOK'
    BY <1>1, <1>5, ReportFrameType DEF ResumeStops, StopView
  <2> QED BY <1>5, <2>1, <2>2, StopTypes DEF ResumeStops, Return
<1>6. ASSUME NEW kind \in {"stop", "exit"}, NEW stop \in Stops,
             NEW halted \in BOOLEAN, TraceDone(kind, stop, halted)
      PROVE  report' \in Reports /\ reply' \in Replies
  <2>1. (IF hits = 0 THEN NeverHit ELSE {}) \in SUBSET Ids
    BY <1>1
  <2> QED BY <1>6, <2>1, ReportTypes, StopTypes DEF TraceDone, Return
<1>7. CASE TraceExits
  <2>1. report' \in Reports /\ reply' \in Replies
    BY <1>6, <1>7, StopTypes DEF TraceExits
  <2> QED BY <1>7, <2>1, ZenonT(40) DEF TraceExits, TraceDone, Return
<1>8. CASE TraceTimesOut
  <2>1. report' \in Reports /\ reply' \in Replies
    BY <1>1, <1>6, <1>8 DEF TraceTimesOut
  <2> QED BY <1>8, <2>1, ZenonT(40) DEF TraceTimesOut, TraceDone, Return
<1>9. CASE TracePanics
  <2>1. report' \in Reports
    BY <1>1, <1>9, ReportTypes DEF TracePanics, Return
  <2>2. hits' \in 0 .. TraceMax
    BY <1>9, SessionAssumption DEF TracePanics, AfterStop, Bounded, InCall
  <2>3. selG' = -1 /\ selFrame' \in Frames /\ fresh' \in BOOLEAN
    BY <1>9, MaxFrameAssumption DEF TracePanics, Frames
  <2>4. pc' \in {"clear", "idle"} /\ reply' \in Replies
    BY <1>9, StopTypes DEF TracePanics, Return
  <2> QED BY <1>9, <2>1, <2>2, <2>3, <2>4 DEF TracePanics
<1>10. CASE TraceHits
  <2>1. report' \in Reports
    <3>1. Told("stop", reply.stop, {}, FALSE) \in Reports
      BY <1>1, ReportTypes
    <3> QED BY <1>10, <3>1 DEF TraceHits, Return
  <2>2. hits' \in 0 .. TraceMax
    BY <1>10, SessionAssumption DEF TraceHits, AfterStop, Bounded, InCall
  <2>3. /\ ViewTypeOK' /\ bps' \in [Ids -> Bps] /\ at' \in Stops
        /\ UNCHANGED <<sess, logpoints, target, serving, waiting, halts, cmd,
                      untilId, logs, fired, clean>>
    BY <1>10 DEF TraceHits, ViewTypeOK, viewVars, dlvVars, ghosts
  <2>4. CASE HitsLeft(hits')
    <3>1. exited' = exited /\ reply' = NoReply /\ pc' = "run"
      BY <1>10, <2>4 DEF TraceHits, Send
    <3>2. name' = "continue" /\ pend' = TRUE
      BY <1>10, <2>4 DEF TraceHits, Send
    <3>3. reply' \in Replies
      BY <3>1, StopTypes
    <3> QED BY <2>1, <2>2, <2>3, <3>1, <3>2, <3>3
  <2>5. CASE ~HitsLeft(hits')
    <3>1. exited' = FALSE /\ reply' = NoReply /\ UNCHANGED <<name, pend>>
      BY <1>10, <2>5 DEF TraceHits
    <3>2. pc' = "clear" \/ pc' = "idle"
      BY <1>10, <2>5 DEF TraceHits, Return
    <3>3. reply' \in Replies
      BY <3>1, StopTypes
    <3>4. pc' \in {"idle", "run", "intr", "stopped", "halted", "clear", "crashed"}
      BY <3>2
    <3> QED BY <2>1, <2>2, <2>3, <3>1, <3>3, <3>4, ZenonT(40)
  <2> QED BY <2>4, <2>5
<1> QED BY <1>2, <1>3, <1>4, <1>5, <1>7, <1>8, <1>9, <1>10 DEF AfterReply

\* The commands, but for those below that start a call.
LEMMA SessionTypes ==
  ASSUME TypeOK,
         \/ LaunchFails \/ Stop \/ Respawn
         \/ \E ls \in BreakLists : LaunchPaused(ls) \/ LaunchRuns(ls) \/ Trace(ls)
  PROVE  TypeOK'
<1> USE DEF TypeOK
<1>1. ASSUME ClearView PROVE ViewTypeOK'
  BY <1>1, MaxFrameAssumption DEF ClearView, ViewTypeOK, Frames
<1>2. ASSUME NoSession,
        /\ pc' \in {"idle", "run", "intr", "stopped", "halted", "clear", "crashed"}
        /\ cmd' \in {"resume", "until", "trace"} /\ name' \in {"continue", "step"}
        /\ logs' \in 0 .. MaxLogs /\ fired' \in 0 .. MaxLogs
        /\ hits' \in 0 .. TraceMax /\ report' \in Reports
      PROVE TypeOK'
  <2>1. ViewTypeOK' /\ bps' \in [Ids -> Bps] /\ at' \in Stops /\ reply' \in Replies
    BY <1>1, <1>2, BpTypes, StopTypes DEF NoSession
  <2>2. waiting' \in 0 .. MaxLost /\ halts' \in 0 .. MaxHalts /\ untilId' \in 0 .. MaxId
    BY <1>2, SessionAssumption DEF NoSession, NewConnection
  <2>3. /\ sess' = FALSE /\ exited' = FALSE /\ logpoints' = {} /\ target' = "none"
        /\ pend' = FALSE /\ serving' = "none" /\ clean' = TRUE
    BY <1>2 DEF NoSession, NewConnection
  <2> QED BY <1>2, <2>1, <2>2, <2>3
<1>3. ASSUME NEW ls \in BreakLists, NewSession(ls),
        /\ pend' \in BOOLEAN /\ reply' \in Replies
        /\ pc' \in {"idle", "run", "intr", "stopped", "halted", "clear", "crashed"}
        /\ cmd' \in {"resume", "until", "trace"} /\ name' \in {"continue", "step"}
        /\ logs' \in 0 .. MaxLogs /\ fired' \in 0 .. MaxLogs
        /\ hits' \in 0 .. TraceMax /\ report' \in Reports
      PROVE TypeOK'
  <2>1. ViewTypeOK' /\ bps' \in [Ids -> Bps] /\ at' \in Stops
    BY <1>1, <1>3, BpTypes, StopTypes DEF NewSession
  <2>2. waiting' \in 0 .. MaxLost /\ halts' \in 0 .. MaxHalts /\ untilId' \in 0 .. MaxId
    BY <1>3, SessionAssumption DEF NewSession, NewConnection
  <2>3. /\ sess' = TRUE /\ exited' = FALSE /\ logpoints' = {} /\ target' = "paused"
        /\ serving' = "none" /\ clean' = TRUE
    BY <1>3 DEF NewSession, NewConnection
  <2> QED BY <1>3, <2>1, <2>2, <2>3
<1>4. CASE LaunchFails \/ Stop \/ Respawn
  <2>1. NoSession
    BY <1>4 DEF LaunchFails, Stop, Respawn
  <2> HIDE DEF TypeOK
  <2>2. /\ pc' = "idle" /\ cmd' = cmd /\ name' = name /\ logs' = logs
        /\ fired' = fired /\ hits' = hits
        /\ report' \in {Plain("error"), Plain("none")}
    BY <1>4 DEF LaunchFails, Stop, Respawn
  <2>3. report' \in Reports
    BY <2>2, ReportTypes DEF TypeOK
  <2>4. /\ cmd \in {"resume", "until", "trace"} /\ name \in {"continue", "step"}
        /\ logs \in 0 .. MaxLogs /\ fired \in 0 .. MaxLogs /\ hits \in 0 .. TraceMax
    BY DEF TypeOK
  <2> QED BY <1>2, <2>1, <2>2, <2>3, <2>4
<1>5. ASSUME NEW ls \in BreakLists,
             LaunchPaused(ls) \/ LaunchRuns(ls) \/ Trace(ls)
      PROVE  TypeOK'
  <2>1. NewSession(ls)
    BY <1>5 DEF LaunchPaused, LaunchRuns, Trace
  <2> HIDE DEF TypeOK
  <2>2. CASE LaunchPaused(ls)
    <3>1. report' \in Reports /\ reply' \in Replies /\ pend' \in BOOLEAN
      BY <2>2, ReportTypes, StopTypes DEF LaunchPaused, TypeOK
    <3>2. /\ pc' = "idle" /\ cmd' = cmd /\ name' = name /\ logs' = logs
          /\ fired' = fired /\ hits' = hits
      BY <2>2 DEF LaunchPaused
    <3>3. /\ cmd \in {"resume", "until", "trace"} /\ name \in {"continue", "step"}
          /\ logs \in 0 .. MaxLogs /\ fired \in 0 .. MaxLogs
          /\ hits \in 0 .. TraceMax
      BY DEF TypeOK
    <3> QED BY <1>3, <2>1, <3>1, <3>2, <3>3
  <2>3. CASE LaunchRuns(ls) \/ Trace(ls)
    <3>1. report' \in Reports /\ reply' \in Replies /\ pend' \in BOOLEAN
      BY <2>3, StopTypes DEF LaunchRuns, Trace, Start, Send, TypeOK
    <3>2. /\ pc' = "run" /\ cmd' \in {"resume", "trace"} /\ name' = "continue"
          /\ logs' = 0 /\ fired' = 0 /\ hits' = 0
      BY <2>3 DEF LaunchRuns, Trace, Start, Send
    <3> QED BY <1>3, <2>1, <3>1, <3>2, SessionAssumption
  <2> QED BY <1>5, <2>2, <2>3
<1> QED BY <1>4, <1>5

LEMMA BreakTypes ==
  ASSUME TypeOK,
         \/ \E i \in Ids, l \in Locs : Break(i, l) \/ BreakLog(i, l)
         \/ \E i \in Ids : Watch(i) \/ BreakRm(i)
         \/ \E i \in Ids, on \in BOOLEAN : BreakToggle(i, on)
  PROVE  TypeOK'
<1>1. bps' \in [Ids -> Bps]
  <2>1. ASSUME NEW i \in Ids, NEW b \in Bps
        PROVE  [bps EXCEPT ![i] = b] \in [Ids -> Bps]
    BY DEF TypeOK
  <2>2. ASSUME NEW i \in Ids, NEW on \in BOOLEAN
        PROVE  /\ [bps EXCEPT ![i].kind = "gone"] \in [Ids -> Bps]
               /\ [bps EXCEPT ![i].on = on] \in [Ids -> Bps]
    BY DEF TypeOK, Bps, BpKinds
  <2>3. ASSUME NEW l \in Locs PROVE NewBp("line", l) \in Bps /\ NewBp("log", l) \in Bps
    BY BpTypes DEF BpKinds
  <2>4. CASE \E i \in Ids, l \in Locs : Break(i, l) \/ BreakLog(i, l)
    BY <2>1, <2>3, <2>4 DEF Break, BreakLog
  <2>5. CASE \E i \in Ids : Watch(i) \/ BreakRm(i)
    <3>1. PICK i \in Ids : Watch(i) \/ BreakRm(i)
      BY <2>5
    <3>2. CASE Watch(i)
      BY <2>1, <3>2, BpTypes DEF Watch
    <3>3. CASE BreakRm(i)
      BY <2>2, <3>3 DEF BreakRm
    <3> QED BY <3>1, <3>2, <3>3
  <2>6. CASE \E i \in Ids, on \in BOOLEAN : BreakToggle(i, on)
    <3>1. PICK i \in Ids, on \in BOOLEAN : BreakToggle(i, on)
      BY <2>6
    <3>2. bps' = [bps EXCEPT ![i].on = on]
      BY <3>1 DEF BreakToggle
    <3> QED BY <2>2, <3>2, Zenon
  <2> QED BY <2>4, <2>5, <2>6
<1>2. logpoints' \in SUBSET Ids
  BY DEF TypeOK, Break, BreakLog, Watch, BreakRm, BreakToggle, sessVars
<1>3. /\ UNCHANGED <<sess, exited>>
      /\ UNCHANGED <<viewVars, target, at, rpcVars, pc, callVars, report, ghosts>>
  BY DEF Break, BreakLog, Watch, BreakRm, BreakToggle, sessVars
<1> QED BY <1>1, <1>2, <1>3
       DEF TypeOK, ViewTypeOK, viewVars, rpcVars, callVars, ghosts

LEMMA RunTypes ==
  ASSUME TypeOK,
         \/ ResumeRefused({"continue", "step"}) \/ Continue \/ Step
         \/ \E i \in Ids, l \in Locs : Until(i, l)
  PROVE  TypeOK'
<1> USE DEF sessVars, viewVars, dlvVars, rpcVars, callVars, ghosts
<1>1. CASE ResumeRefused({"continue", "step"})
  <2>1. report' \in Reports
    BY <1>1, ReportTypes DEF TypeOK, ResumeRefused
  <2> QED BY <1>1, <2>1 DEF TypeOK, ViewTypeOK, ResumeRefused
<1>2. CASE Continue \/ Step
  <2>1. /\ clean' \in BOOLEAN /\ pend' = TRUE /\ reply' = NoReply
        /\ pc' = "run" /\ name' \in {"continue", "step"} /\ cmd' = "resume"
        /\ logs' = 0 /\ hits' = 0 /\ fired' = 0
    BY <1>2 DEF Continue, Step, Start, Send, Abandoned
  <2>2. UNCHANGED <<sessVars, viewVars, dlvVars, serving, waiting, halts, untilId,
                    report>>
    BY <1>2 DEF Continue, Step
  <2> QED BY <2>1, <2>2, StopTypes, SessionAssumption DEF TypeOK, ViewTypeOK
<1>3. ASSUME NEW i \in Ids, NEW l \in Locs, Until(i, l) PROVE TypeOK'
  <2>1. bps' \in [Ids -> Bps] /\ untilId' \in 0 .. MaxId
    <3>1. NewBp("until", l) \in Bps
      BY BpTypes DEF BpKinds
    <3> QED BY <1>3, <3>1 DEF TypeOK, Until, Ids
  <2>2. UNCHANGED <<sessVars, viewVars, target, at, serving, waiting, halts>>
    BY <1>3 DEF Until
  <2>3. CASE exited
    <3>1. /\ pc' = "clear" /\ cmd' = "until" /\ report' = Plain("error")
          /\ UNCHANGED <<name, pend, reply, logs, hits, fired, clean>>
      BY <1>3, <2>3 DEF Until
    <3>2. report' \in Reports
      BY <3>1, ReportTypes DEF TypeOK
    <3> QED BY <2>1, <2>2, <3>1, <3>2 DEF TypeOK, ViewTypeOK
  <2>4. CASE ~exited
    <3>1. /\ clean' \in BOOLEAN /\ pend' = TRUE /\ reply' = NoReply
          /\ pc' = "run" /\ name' = "continue" /\ cmd' = "until"
          /\ logs' = 0 /\ hits' = 0 /\ fired' = 0 /\ report' = report
      BY <1>3, <2>4 DEF Until, Start, Send, Abandoned
    <3> QED BY <2>1, <2>2, <3>1, StopTypes, SessionAssumption DEF TypeOK, ViewTypeOK
  <2> QED BY <2>3, <2>4
<1> QED BY <1>1, <1>2, <1>3

LEMMA PauseTypes ==
  ASSUME TypeOK, PausePaused \/ PauseRunning \/ PauseExited
  PROVE  TypeOK'
<1> USE DEF sessVars, viewVars, dlvVars, rpcVars, callVars, ghosts
<1>1. ASSUME NEW stop \in Stops, StopView(stop, FALSE) PROVE ViewTypeOK'
  BY <1>1, ReportFrameType DEF StopView, ViewTypeOK
<1>2. CASE PausePaused
  <2>1. ViewTypeOK' /\ report' \in Reports
    BY <1>1, <1>2, ReportTypes DEF TypeOK, PausePaused
  <2>2. clean' \in BOOLEAN
    BY <1>2 DEF PausePaused, Abandoned
  <2> QED BY <1>2, <2>1, <2>2 DEF TypeOK, PausePaused
<1>3. CASE PauseRunning
  <2>1. PICK n \in Stamps :
          /\ at' = [k |-> "manual", id |-> 0, uf |-> 0, n |-> n]
          /\ StopView(at', FALSE)
          /\ report' = [Plain("paused") EXCEPT !.stop = at']
    BY <1>3 DEF PauseRunning
  <2>2. at' \in Stops
    BY <2>1, StopTypes
  <2>3. ViewTypeOK' /\ report' \in Reports
    BY <1>1, <2>1, <2>2, ReportTypes DEF TypeOK
  <2>4. reply' \in Replies /\ serving' = "none" /\ UNCHANGED <<pend, waiting>>
    BY <1>3, <2>2, StopTypes DEF TypeOK, PauseRunning, Deliver
  <2>5. clean' \in BOOLEAN /\ target' = "paused"
    BY <1>3 DEF PauseRunning
  <2>6. UNCHANGED <<sessVars, bps, halts, pc, callVars, fired>>
    BY <1>3 DEF PauseRunning
  <2> QED BY <2>2, <2>3, <2>4, <2>5, <2>6 DEF TypeOK
<1>4. CASE PauseExited
  <2>1. ViewTypeOK' /\ report' \in Reports
    BY <1>4, ReportTypes, MaxFrameAssumption
       DEF TypeOK, ViewTypeOK, PauseExited, Frames
  <2>2. pc' \in {pc, "crashed"}
    BY <1>4 DEF PauseExited
  <2>3. UNCHANGED <<sessVars, dlvVars, rpcVars, callVars, ghosts>>
    BY <1>4 DEF PauseExited
  <2> QED BY <2>1, <2>2, <2>3 DEF TypeOK
<1> QED BY <1>2, <1>3, <1>4

LEMMA RestartViewTypes ==
  ASSUME TypeOK,
         \/ \E lost \in SUBSET Ids : Restart(lost)
         \/ Select \/ State
  PROVE  TypeOK'
<1> USE DEF sessVars, dlvVars, rpcVars, callVars, ghosts
<1>1. ASSUME NEW lost \in SUBSET Ids, Restart(lost) PROVE TypeOK'
  <2>1. Restarted(lost) \in [Ids -> Bps]
    BY ZenonT(40) DEF TypeOK, Restarted, Bps, BpKinds
  <2>2. ViewTypeOK'
    BY <1>1, MaxFrameAssumption DEF Restart, ClearView, ViewTypeOK, Frames
  <2>3. report' \in Reports /\ at' \in Stops /\ clean' \in BOOLEAN
    BY <1>1, ReportTypes, StopTypes DEF TypeOK, Restart, RestartTarget, Abandoned
  <2> QED BY <1>1, <2>1, <2>2, <2>3, ZenonT(40) DEF TypeOK, Restart, RestartTarget
<1>2. CASE Select
  <2>1. selG' \in {-1} \cup Goroutines /\ selFrame' \in Frames /\ lastLocals' = lastLocals
    BY <1>2, MaxFrameAssumption
       DEF TypeOK, ViewTypeOK, Select, SelectFrame, SelectGoroutine, Frames
  <2>2. fresh' \in BOOLEAN
    BY <1>2 DEF Select, SelectFrame, SelectGoroutine
  <2>3. ViewTypeOK'
    BY <2>1, <2>2 DEF TypeOK, ViewTypeOK
  <2> QED BY <1>2, <2>3 DEF TypeOK, Select
<1>3. CASE State
  <2>1. ViewTypeOK'
    <3>1. at.uf \in Frames
      BY DEF TypeOK, Stops
    <3>2. selFrame' \in Frames /\ selG' = selG /\ lastLocals' = lastLocals
      BY <1>3, <3>1 DEF TypeOK, ViewTypeOK, State, StateView
    <3>3. fresh' \in BOOLEAN
      BY <1>3, Zenon DEF TypeOK, ViewTypeOK, State, StateView
    <3> QED BY <3>2, <3>3 DEF TypeOK, ViewTypeOK
  <2> QED BY <1>3, <2>1 DEF TypeOK, State
<1> QED BY <1>1, <1>2, <1>3

-----------------------------------------------------------------------------
(* What the commands do to the state that the invariants are about.         *)

\* The commands that touch neither the target nor a call.
QuietCommand ==
  \/ \E i \in Ids, l \in Locs : Break(i, l) \/ BreakLog(i, l)
  \/ \E i \in Ids : Watch(i) \/ BreakRm(i)
  \/ \E i \in Ids, on \in BOOLEAN : BreakToggle(i, on)
  \/ ResumeRefused({"continue", "step"}) \/ Select \/ State

\* The commands that replace the session.
ReplacingCommand ==
  \/ LaunchFails \/ Stop \/ Respawn
  \/ \E ls \in BreakLists : LaunchPaused(ls) \/ LaunchRuns(ls) \/ Trace(ls)

LEMMA CommandCases ==
  ASSUME SessionCommand
  PROVE  \/ QuietCommand
         \/ ReplacingCommand
         \/ Continue \/ Step
         \/ \E i \in Ids, l \in Locs : Until(i, l)
         \/ PausePaused \/ PauseRunning \/ PauseExited
         \/ \E lost \in SUBSET Ids : Restart(lost)
BY Zenon DEF SessionCommand, QuietCommand, ReplacingCommand

LEMMA QuietEffect ==
  ASSUME QuietCommand
  PROVE  /\ UNCHANGED <<target, at, rpcVars, pc, hits, clean>>
         /\ report' \in {report, Plain("error")}
<1> USE DEF sessVars, viewVars, dlvVars, rpcVars, callVars, ghosts
<1>1. CASE \E i \in Ids, l \in Locs : Break(i, l) \/ BreakLog(i, l)
  BY <1>1 DEF Break, BreakLog
<1>2. CASE \E i \in Ids : Watch(i) \/ BreakRm(i)
  BY <1>2 DEF Watch, BreakRm
<1>3. CASE \E i \in Ids, on \in BOOLEAN : BreakToggle(i, on)
  BY <1>3 DEF BreakToggle
<1>4. CASE ResumeRefused({"continue", "step"}) \/ Select \/ State
  BY <1>4 DEF ResumeRefused, Select, State
<1> QED BY <1>1, <1>2, <1>3, <1>4 DEF QuietCommand

LEMMA ReplacingEffect ==
  ASSUME ReplacingCommand
  PROVE  /\ NewConnection /\ target' \in {"none", "paused"} /\ reply'.kind = "none"
         /\ \/ /\ pc' = "idle" /\ hits' = hits /\ ~pend'
               /\ report'.kind \in {"none", "error", "launched"}
            \/ /\ pc \in {"idle", "crashed"} /\ pend'
               /\ pc' = "run" /\ hits' = 0 /\ report' = report
<1> USE DEF Plain, NoReply
<1>1. CASE LaunchFails \/ Stop \/ Respawn
  BY <1>1 DEF LaunchFails, Stop, Respawn, NoSession
<1>2. ASSUME NEW ls \in BreakLists, LaunchPaused(ls)
      PROVE  /\ NewConnection /\ target' = "paused" /\ reply'.kind = "none"
             /\ pc' = "idle" /\ hits' = hits /\ ~pend' /\ report'.kind = "launched"
  BY <1>2 DEF LaunchPaused, NewSession
<1>3. ASSUME NEW ls \in BreakLists, LaunchRuns(ls) \/ Trace(ls)
      PROVE  /\ NewConnection /\ target' = "paused" /\ reply'.kind = "none"
             /\ pc = "idle" /\ pend' /\ pc' = "run" /\ hits' = 0 /\ report' = report
  BY <1>3 DEF LaunchRuns, Trace, NewSession, Start, Send
<1> QED BY <1>1, <1>2, <1>3 DEF ReplacingCommand

\* Continue, Step and Until on a live target start a call; Until on an exited
\* one goes straight to the clearing of its breakpoint.
LEMMA StartEffect ==
  ASSUME Continue \/ Step \/ \E i \in Ids, l \in Locs : Until(i, l)
  PROVE  /\ pc = "idle" /\ Room
         /\ UNCHANGED <<target, at, serving, waiting, halts>>
         /\ \/ /\ pc' = "run" /\ pend' /\ reply'.kind = "none" /\ hits' = 0
               /\ clean' = ~Abandoned /\ report' = report
            \/ /\ pc' = "clear" /\ UNCHANGED <<pend, reply, hits, clean>>
               /\ report'.kind = "error"
<1> USE DEF dlvVars, NoReply, Plain, Start, Send
<1>1. CASE Continue \/ Step
  BY <1>1 DEF Continue, Step
<1>2. ASSUME NEW i \in Ids, NEW l \in Locs, Until(i, l)
      PROVE  /\ pc = "idle" /\ Room
             /\ UNCHANGED <<target, at, serving, waiting, halts>>
             /\ \/ /\ pc' = "run" /\ pend' /\ reply'.kind = "none" /\ hits' = 0
                   /\ clean' = ~Abandoned /\ report' = report
                \/ /\ pc' = "clear" /\ UNCHANGED <<pend, reply, hits, clean>>
                   /\ report'.kind = "error"
  <2>1. CASE exited
    BY <1>2, <2>1 DEF Until, Ready
  <2>2. CASE ~exited
    BY <1>2, <2>2 DEF Until, Ready
  <2> QED BY <2>1, <2>2
<1> QED BY <1>1, <1>2

\* The loops of resume and of cmdTrace either go round once more or are left,
\* and then a reported stop is the one in the reply.
LEMMA AnswerEffect ==
  ASSUME AfterReply
  PROVE  /\ pc \in {"stopped", "halted"} /\ reply.kind # "none"
         /\ reply'.kind = "none"
         /\ UNCHANGED <<target, at, serving, waiting, halts, clean>>
         /\ \/ /\ pc' \in {"clear", "idle"} /\ pend' = pend
               /\ report'.kind = "paused" => FALSE
               /\ report'.kind = "stop" =>
                    reply.kind = "stop" /\ report'.stop = reply.stop
            \/ /\ pc' = "run" /\ pend' /\ report' = report
               /\ hits' = hits \/ hits' < TraceMax
<1> USE DEF dlvVars, callVars, ghosts, AfterStop, Return, NoReply, Told, Plain
<1>1. CASE ResumeFails \/ TraceFails
  BY <1>1 DEF ResumeFails, TraceFails
<1>2. CASE ResumeExits
  BY <1>2 DEF ResumeExits
<1>3. CASE ResumeLogs
  BY <1>3 DEF ResumeLogs, Send
<1>4. CASE ResumeStops
  BY <1>4 DEF ResumeStops
<1>5. CASE TraceExits
  BY <1>5 DEF TraceExits, TraceDone
<1>6. CASE TraceTimesOut
  BY <1>6 DEF TraceTimesOut, TraceDone
<1>7. CASE TracePanics
  BY <1>7 DEF TracePanics
<1>8. CASE TraceHits
  <2>1. CASE HitsLeft(hits')
    BY <1>8, <2>1 DEF TraceHits, Send, HitsLeft
  <2>2. CASE ~HitsLeft(hits')
    BY <1>8, <2>2 DEF TraceHits
  <2> QED BY <2>1, <2>2
<1> QED BY <1>1, <1>2, <1>3, <1>4, <1>5, <1>6, <1>7, <1>8 DEF AfterReply

-----------------------------------------------------------------------------
(* Control: one Command of the handler, accounted for.                      *)

LEMMA ControlCommand ==
  ASSUME TypeOK, Control, SessionCommand \/ Respawn
  PROVE  Control'
<1> USE DEF Control, InCall
<1>1. CASE QuietCommand
  BY <1>1, QuietEffect DEF rpcVars
<1>2. CASE ReplacingCommand
  BY <1>2, ReplacingEffect DEF NewConnection
<1>3. CASE Continue \/ Step \/ \E i \in Ids, l \in Locs : Until(i, l)
  BY <1>3, StartEffect
<1>4. CASE PausePaused \/ PauseExited
  <2>1. UNCHANGED <<target, rpcVars>> /\ pc = "idle" /\ pc' \in {"idle", "crashed"}
    BY <1>4 DEF PausePaused, PauseExited, dlvVars
  <2> QED BY <2>1 DEF rpcVars
<1>5. CASE PauseRunning
  <2>1. serving # "mine" /\ pc' = pc /\ pc = "idle"
    BY <1>5 DEF PauseRunning
  <2>2. target' = "paused" /\ serving' = "none" /\ UNCHANGED <<pend, reply>>
    BY <1>5, <2>1 DEF PauseRunning, Deliver
  <2> QED BY <2>1, <2>2
<1>6. ASSUME NEW lost \in SUBSET Ids, Restart(lost) PROVE Control'
  BY <1>6 DEF Restart, RestartTarget, Ready, rpcVars
<1>7. CASE Respawn
  BY <1>2, <1>7 DEF ReplacingCommand
<1> QED BY <1>1, <1>2, <1>3, <1>4, <1>5, <1>6, <1>7, CommandCases

LEMMA ControlHandler ==
  ASSUME TypeOK, Control,
         Timeout \/ GiveUp \/ Receive \/ AfterReply \/ ClearUntil
  PROVE  Control'
<1> USE DEF Control, InCall, dlvVars, rpcVars
<1>1. CASE Timeout \/ Receive
  BY <1>1 DEF Timeout, Receive
<1>2. CASE GiveUp
  BY <1>2 DEF GiveUp, Return, NoReply
<1>3. CASE ClearUntil
  BY <1>3 DEF ClearUntil
<1>4. CASE AfterReply
  BY <1>4, AnswerEffect
<1> QED BY <1>1, <1>2, <1>3, <1>4

LEMMA ControlDelve ==
  ASSUME TypeOK, Control, Delve
  PROVE  Control'
<1> USE DEF Control, InCall, TypeOK
<1>1. CASE ServeMine
  BY <1>1 DEF ServeMine
<1>2. CASE ServeLost
  BY <1>2 DEF ServeLost
<1>3. CASE TargetExits
  BY <1>3 DEF TargetExits, Deliver
<1>4. CASE HaltArrives
  BY <1>4 DEF HaltArrives, Deliver
<1>5. ASSUME NEW stop \in Stops, TargetStops(stop) PROVE Control'
  BY <1>5 DEF TargetStops, Deliver
<1> QED BY <1>1, <1>2, <1>3, <1>4, <1>5 DEF Delve

-----------------------------------------------------------------------------
(* Bounded: room for what a call may abandon.                               *)

LEMMA BoundedCommand ==
  ASSUME TypeOK, Bounded, SessionCommand \/ Respawn
  PROVE  Bounded'
<1> USE SessionAssumption DEF TypeOK, Bounded, InCall
<1>1. CASE QuietCommand
  BY <1>1, QuietEffect DEF rpcVars
<1>2. CASE ReplacingCommand
  BY <1>2, ReplacingEffect DEF NewConnection
<1>3. CASE Continue \/ Step \/ \E i \in Ids, l \in Locs : Until(i, l)
  BY <1>3, StartEffect DEF Room
<1>4. CASE PausePaused \/ PauseRunning \/ PauseExited
  <2>1. /\ serving' \in {serving, "none"} /\ waiting' = waiting
        /\ pc' \in {pc, "crashed"} /\ hits' = hits
    BY <1>4 DEF PausePaused, PauseRunning, PauseExited, Deliver, rpcVars, callVars
  <2> QED BY <2>1
<1>5. ASSUME NEW lost \in SUBSET Ids, Restart(lost) PROVE Bounded'
  BY <1>5 DEF Restart, RestartTarget, rpcVars, callVars
<1>6. CASE Respawn
  BY <1>2, <1>6 DEF ReplacingCommand
<1> QED BY <1>1, <1>2, <1>3, <1>4, <1>5, <1>6, CommandCases

LEMMA BoundedHandler ==
  ASSUME TypeOK, Bounded, Control,
         Timeout \/ GiveUp \/ Receive \/ AfterReply \/ ClearUntil
  PROVE  Bounded'
<1> USE SessionAssumption DEF TypeOK, Bounded, InCall
<1>1. CASE Timeout \/ Receive
  BY <1>1 DEF Timeout, Receive, rpcVars, callVars
<1>2. CASE GiveUp
  BY <1>2 DEF GiveUp, Return, Control, callVars
<1>3. CASE ClearUntil
  BY <1>3 DEF ClearUntil, rpcVars
<1>4. CASE AfterReply
  BY <1>4, AnswerEffect
<1> QED BY <1>1, <1>2, <1>3, <1>4

LEMMA BoundedDelve ==
  ASSUME TypeOK, Bounded, Control, Delve
  PROVE  Bounded'
<1> USE SessionAssumption DEF TypeOK, Bounded, InCall
<1>1. CASE ServeMine
  BY <1>1 DEF ServeMine, callVars
<1>2. CASE ServeLost
  BY <1>2 DEF ServeLost, callVars
<1>3. CASE TargetExits
  BY <1>3 DEF TargetExits, Deliver, callVars
<1>4. CASE HaltArrives
  BY <1>4 DEF HaltArrives, Deliver, callVars
<1>5. ASSUME NEW stop \in Stops, TargetStops(stop) PROVE Bounded'
  BY <1>5 DEF TargetStops, Deliver, callVars
<1> QED BY <1>1, <1>2, <1>3, <1>4, <1>5 DEF Delve

-----------------------------------------------------------------------------
(* Undisturbed: nothing moves the target behind the handler's back.         *)

LEMMA UndisturbedCommand ==
  ASSUME TypeOK, Control, Undisturbed, SessionCommand \/ Respawn
  PROVE  Undisturbed'
<1> USE DEF Undisturbed
<1>1. CASE QuietCommand
  <2>1. /\ UNCHANGED <<target, at, waiting, serving, reply, pc, clean>>
        /\ report' = report \/ report'.kind = "error"
    BY <1>1, QuietEffect DEF rpcVars, Plain
  <2> QED BY <2>1
<1>2. CASE ReplacingCommand
  BY <1>2, ReplacingEffect DEF NewConnection
<1>3. CASE Continue \/ Step \/ \E i \in Ids, l \in Locs : Until(i, l)
  <2>1. ~Abandoned => waiting = 0 /\ serving # "lost"
    BY DEF TypeOK, Abandoned
  <2>2. CASE pc' = "run" /\ clean' = ~Abandoned
    BY <1>3, <2>1, <2>2, StartEffect
  <2>3. CASE pc' = "clear" /\ report'.kind = "error" /\ UNCHANGED <<reply, clean>>
    BY <1>3, <2>3, StartEffect
  <2> QED BY <1>3, <2>2, <2>3, StartEffect
<1>4. CASE PausePaused
  <2>1. report'.stop = at /\ target' = "paused" /\ at' = at /\ reply'.kind = "none"
    BY <1>4 DEF PausePaused, Plain, dlvVars, rpcVars, Control, InCall
  <2>2. clean' => waiting' = 0 /\ serving' # "lost"
    BY <1>4 DEF PausePaused, Abandoned, rpcVars, TypeOK
  <2> QED BY <2>1, <2>2
<1>5. CASE PauseRunning
  <2>1. report'.stop = at' /\ target' = "paused" /\ waiting' = waiting
        /\ clean' = (waiting = 0) /\ serving' = "none"
    BY <1>5 DEF PauseRunning, Plain, Deliver
  <2>2. reply'.kind = "none"
    BY <1>5 DEF PauseRunning, Deliver, Control, InCall
  <2> QED BY <2>1, <2>2
<1>6. CASE PauseExited
  <2>1. UNCHANGED <<target, at, rpcVars, clean>> /\ pc = "idle"
    BY <1>6 DEF PauseExited, dlvVars, ghosts
  <2>2. pc' = "crashed" \/ report'.kind = "error"
    BY <1>6 DEF PauseExited, Plain
  <2> QED BY <2>1, <2>2 DEF rpcVars
<1>7. ASSUME NEW lost \in SUBSET Ids, Restart(lost) PROVE Undisturbed'
  <2>1. reply'.kind = "none" /\ report'.kind = "launched"
    BY <1>7 DEF Restart, RestartTarget, Ready, rpcVars, Plain, Control, InCall
  <2>2. clean' => waiting' = 0 /\ serving' # "lost"
    BY <1>7 DEF Restart, RestartTarget, Abandoned, rpcVars, TypeOK
  <2> QED BY <2>1, <2>2
<1>8. CASE Respawn
  BY <1>2, <1>8 DEF ReplacingCommand
<1> QED BY <1>1, <1>2, <1>3, <1>4, <1>5, <1>6, <1>7, <1>8, CommandCases

LEMMA UndisturbedHandler ==
  ASSUME TypeOK, Control, Undisturbed,
         Timeout \/ GiveUp \/ Receive \/ AfterReply \/ ClearUntil
  PROVE  Undisturbed'
<1> USE DEF Undisturbed, dlvVars, rpcVars, ghosts
<1>1. CASE Timeout \/ Receive
  BY <1>1 DEF Timeout, Receive
<1>2. CASE GiveUp
  BY <1>2 DEF GiveUp
<1>3. CASE ClearUntil
  BY <1>3 DEF ClearUntil
<1>4. CASE AfterReply
  BY <1>4, AnswerEffect
<1> QED BY <1>1, <1>2, <1>3, <1>4

LEMMA UndisturbedDelve ==
  ASSUME TypeOK, Control, Undisturbed, Delve
  PROVE  Undisturbed'
<1> USE DEF Undisturbed, Control, InCall, TypeOK, ghosts
<1>1. CASE ServeMine
  BY <1>1 DEF ServeMine
<1>2. CASE ServeLost
  BY <1>2 DEF ServeLost
<1>3. CASE TargetExits
  BY <1>3 DEF TargetExits, Deliver
<1>4. CASE HaltArrives
  BY <1>4 DEF HaltArrives, Deliver
<1>5. ASSUME NEW stop \in Stops, TargetStops(stop) PROVE Undisturbed'
  BY <1>5 DEF TargetStops, Deliver
<1> QED BY <1>1, <1>2, <1>3, <1>4, <1>5 DEF Delve

-----------------------------------------------------------------------------
(* LogpointsExact: the map of templates and Delve's table.                  *)

\* A step that changes no kind of entry, or only to "gone", keeps it.
LEMMA LogpointsKept ==
  ASSUME LogpointsExact, logpoints' = logpoints,
         \A i \in Ids : bps'[i].kind \in {bps[i].kind, "gone"}
  PROVE  LogpointsExact'
BY DEF LogpointsExact

\* A step that changes neither the map nor the table keeps it.
LEMMA LogpointsUntouched ==
  ASSUME LogpointsExact, UNCHANGED <<logpoints, bps>>
  PROVE  LogpointsExact'
BY DEF LogpointsExact

LEMMA LogpointsCommand ==
  ASSUME TypeOK, LogpointsExact, SessionCommand \/ Respawn
  PROVE  LogpointsExact'
<1> USE DEF sessVars, dlvVars
<1>1. ASSUME NEW i \in NextIds, NEW l \in Locs, NEW kind \in {"line", "until"},
             bps' = [bps EXCEPT ![i] = NewBp(kind, l)], logpoints' = logpoints
      PROVE  LogpointsExact'
  <2>1. i \in Ids /\ i \notin logpoints
    BY DEF NextIds, LogpointsExact
  <2>2. bps'[i].kind = kind /\ \A j \in Ids \ {i} : bps'[j] = bps[j]
    BY <1>1, <2>1 DEF TypeOK, NewBp
  <2> QED BY <1>1, <2>1, <2>2 DEF LogpointsExact
<1>2. ASSUME NEW i \in Ids, NEW l \in Locs, Break(i, l) PROVE LogpointsExact'
  BY <1>1, <1>2 DEF Break
<1>3. ASSUME NEW i \in Ids, NEW l \in Locs, Until(i, l) PROVE LogpointsExact'
  BY <1>1, <1>3 DEF Until
<1>4. ASSUME NEW i \in Ids, NEW l \in Locs, BreakLog(i, l) PROVE LogpointsExact'
  <2>1. bps'[i].kind = "log" /\ \A j \in Ids \ {i} : bps'[j] = bps[j]
    BY <1>4 DEF TypeOK, BreakLog, NewBp
  <2>2. logpoints' = logpoints \cup {i}
    BY <1>4 DEF BreakLog
  <2> QED BY <2>1, <2>2 DEF LogpointsExact
<1>5. ASSUME NEW i \in Ids, Watch(i) PROVE LogpointsExact'
  <2>1. i \in NextIds /\ i \notin logpoints
    BY <1>5 DEF Watch, NextIds, LogpointsExact
  <2>2. bps'[i].kind = "watch" /\ \A j \in Ids \ {i} : bps'[j] = bps[j]
    BY <1>5 DEF TypeOK, Watch, FreeBp
  <2>3. logpoints' = logpoints
    BY <1>5 DEF Watch
  <2> QED BY <2>1, <2>2, <2>3 DEF LogpointsExact
<1>6. ASSUME NEW i \in Ids, BreakRm(i) PROVE LogpointsExact'
  <2>1. bps'[i].kind = "gone" /\ \A j \in Ids \ {i} : bps'[j] = bps[j]
    BY <1>6 DEF TypeOK, BreakRm, Bps
  <2>2. logpoints' = logpoints \ {i}
    BY <1>6 DEF BreakRm
  <2> QED BY <2>1, <2>2 DEF LogpointsExact
<1>7. ASSUME NEW i \in Ids, NEW on \in BOOLEAN, BreakToggle(i, on)
      PROVE  LogpointsExact'
  <2>1. \A j \in Ids : bps'[j].kind = bps[j].kind
    BY <1>7 DEF TypeOK, BreakToggle, Bps
  <2> QED BY <1>7, <2>1, LogpointsKept DEF BreakToggle
<1>8. CASE \/ ResumeRefused({"continue", "step"}) \/ Select \/ State
           \/ Continue \/ Step \/ PausePaused \/ PauseRunning \/ PauseExited
  <2>1. UNCHANGED <<logpoints, bps>>
    BY <1>8 DEF ResumeRefused, Select, State, Continue, Step, PausePaused,
                PauseRunning, PauseExited
  <2> QED BY <2>1, LogpointsUntouched
<1>9. CASE ReplacingCommand
  <2>1. logpoints' = {} /\ (bps' = TableOf(<< >>) \/ \E ls \in BreakLists : bps' = TableOf(ls))
    BY <1>9 DEF ReplacingCommand, LaunchFails, Stop, Respawn, NoSession,
                LaunchPaused, LaunchRuns, Trace, NewSession
  <2>2. \A i \in Ids : bps'[i].kind # "log"
    BY <2>1 DEF TableOf, NewBp, FreeBp
  <2> QED BY <2>1, <2>2 DEF LogpointsExact
<1>10. ASSUME NEW lost \in SUBSET Ids, Restart(lost) PROVE LogpointsExact'
  <2>1. \A i \in Ids : Restarted(lost)[i].kind \in {bps[i].kind, "gone"}
    BY DEF TypeOK, Restarted, Bps
  <2> QED BY <1>10, <2>1, LogpointsKept DEF Restart, RestartTarget
<1>11. CASE Respawn
  BY <1>9, <1>11 DEF ReplacingCommand
<1> QED BY <1>2, <1>3, <1>4, <1>5, <1>6, <1>7, <1>8, <1>9, <1>10, <1>11,
           CommandCases DEF QuietCommand

LEMMA LogpointsOther ==
  ASSUME TypeOK, LogpointsExact,
         Timeout \/ GiveUp \/ Receive \/ AfterReply \/ ClearUntil \/ Delve
  PROVE  LogpointsExact'
<1> USE DEF sessVars, dlvVars
<1>1. CASE Timeout \/ GiveUp \/ Receive
  BY <1>1, LogpointsUntouched DEF Timeout, GiveUp, Receive
<1>2. CASE AfterReply
  BY <1>2, LogpointsUntouched
     DEF AfterReply, ResumeFails, ResumeExits, ResumeLogs, ResumeStops, TraceFails,
         TraceExits, TraceTimesOut, TracePanics, TraceHits, TraceDone
<1>3. CASE ClearUntil
  <2>1. \A i \in Ids : bps'[i].kind \in {bps[i].kind, "gone"}
    BY <1>3 DEF ClearUntil, TypeOK, Bps
  <2> QED BY <1>3, <2>1, LogpointsKept DEF ClearUntil
<1>4. CASE ServeMine \/ ServeLost \/ TargetExits \/ HaltArrives
  BY <1>4, LogpointsUntouched DEF ServeMine, ServeLost, TargetExits, HaltArrives
<1>5. ASSUME NEW stop \in Stops, TargetStops(stop) PROVE LogpointsExact'
  <2>1. \A i \in Ids : bps'[i].kind \in {bps[i].kind, "gone"}
    BY <1>5 DEF TargetStops, Stopped, TypeOK, Bps
  <2> QED BY <1>5, <2>1, LogpointsKept DEF TargetStops
<1> QED BY <1>1, <1>2, <1>3, <1>4, <1>5 DEF Delve

-----------------------------------------------------------------------------
(* The invariant and the theorems.                                          *)

LEMMA InitInvariant == Init => IInv
<1> SUFFICES ASSUME Init PROVE IInv
  OBVIOUS
<1>1. TypeOK
  BY InitTypes
<1>2. Bounded /\ Control /\ Undisturbed
  BY SessionAssumption
     DEF Init, Bounded, Control, Undisturbed, InCall, NoReply, Plain
<1>3. LogpointsExact
  BY DEF Init, LogpointsExact, FreeBp
<1> QED BY <1>1, <1>2, <1>3 DEF IInv

LEMMA NextInvariant == IInv /\ [Next]_vars => IInv'
<1> SUFFICES ASSUME IInv, [Next]_vars PROVE IInv'
  OBVIOUS
<1> USE DEF IInv
<1>1. CASE SessionCommand \/ Respawn
  <2>1. TypeOK'
    <3>1. CASE QuietCommand
      BY <3>1, BreakTypes, RunTypes, RestartViewTypes DEF QuietCommand
    <3>2. CASE ReplacingCommand
      BY <3>2, SessionTypes DEF ReplacingCommand
    <3> QED BY <1>1, <3>1, <3>2, CommandCases, RunTypes, PauseTypes,
               RestartViewTypes DEF ReplacingCommand
  <2> QED BY <1>1, <2>1, BoundedCommand, ControlCommand, UndisturbedCommand,
             LogpointsCommand
<1>2. CASE Timeout \/ GiveUp \/ Receive \/ AfterReply \/ ClearUntil
  BY <1>2, HandlerTypes, AfterReplyTypes, BoundedHandler, ControlHandler,
     UndisturbedHandler, LogpointsOther
<1>3. CASE Delve
  BY <1>3, DelveTypes, BoundedDelve, ControlDelve, UndisturbedDelve, LogpointsOther
<1>4. CASE UNCHANGED vars
  BY <1>4 DEF vars, sessVars, viewVars, dlvVars, rpcVars, callVars, ghosts,
              TypeOK, ViewTypeOK, Bounded, Control, Undisturbed, InCall,
              LogpointsExact
<1> QED BY <1>1, <1>2, <1>3, <1>4 DEF Next, Handler

\* The invariant of a session, for any number of breakpoints, goroutines and
\* log lines and any --max of trace.
THEOREM Invariant == Spec => []IInv
<1>1. Init => IInv
  BY InitInvariant
<1>2. IInv /\ [Next]_vars => IInv'
  BY NextInvariant
<1> QED BY <1>1, <1>2, PTL DEF Spec

\* Every variable of the session, of Delve and of the call keeps its type: in
\* particular trace never shows more than --max hits.
THEOREM TypeCorrect == Spec => []TypeOK
<1>1. IInv => TypeOK
  BY DEF IInv
<1> QED BY <1>1, Invariant, PTL

\* runCommand (session.go:74): when no command is running, the target runs only
\* for a Command that an earlier call gave up on.
THEOREM OnlyAbandonedRunsCorrect == Spec => []OnlyAbandonedRuns
<1>1. IInv => OnlyAbandonedRuns
  BY DEF IInv, Control, TypeOK, InCall, OnlyAbandonedRuns, Idle
<1> QED BY <1>1, Invariant, PTL

\* resume, cmdPause and cmdTrace: the stop the user was last told of is where
\* the target still is, if no Command was abandoned.
THEOREM ReportIsCurrentCorrect == Spec => []ReportIsCurrent
<1>1. IInv => ReportIsCurrent
  BY DEF IInv, Undisturbed, ReportIsCurrent, Idle
<1> QED BY <1>1, Invariant, PTL

\* createBreakpoint, cmdBreakRm and cmdRestart: Session.logpoints and Delve's
\* table agree on which breakpoints are logpoints.
THEOREM LogpointsCorrect == Spec => []LogpointsExact
<1>1. IInv => LogpointsExact
  BY DEF IInv
<1> QED BY <1>1, Invariant, PTL

-----------------------------------------------------------------------------
(* Progress.  That every call returns (CallsReturn) is a matter of fairness; these *)
(* are the facts it rests on.                                                *)

\* How far the handler is from its return, within one turn of its loop.
Phase(p) == CASE p = "run" -> 5 [] p = "intr" -> 4 [] p \in {"stopped", "halted"} -> 3
              [] p = "clear" -> 1 [] OTHER -> 0

\* How many steps the call may still take: trace turns once for each hit.
Remaining == 6 * (TraceMax - hits) + Phase(pc)

\* Every step of the handler leaves less to do, except one that logs a logpoint and
\* starts a new timer; nothing else moves the handler or gives it more to do.
CallAdvance ==
  pc \notin {"idle", "crashed"} =>
    IF Handler THEN ResumeLogs \/ Remaining' < Remaining ELSE UNCHANGED <<pc, hits>>

\* A call that met no abandoned Command always has a next step of its own, whatever
\* Delve and the target do: a timer, or a reply and a target that has stopped.
CallCanGoOn ==
  pc \notin {"idle", "crashed"} /\ ~Abandoned =>
    \/ pc \in {"run", "intr"}
    \/ /\ pc \in {"stopped", "halted"} /\ reply.kind \in {"stop", "exit", "fail"}
       /\ reply.kind = "fail" \/ target # "running"
    \/ pc = "clear" /\ target # "running"

LEMMA CommandsWhenIdle == SessionCommand \/ Respawn => pc \in {"idle", "crashed"}
<1>1. QuietCommand => pc = "idle"
  BY DEF QuietCommand, Break, BreakLog, Watch, BreakRm, BreakToggle, ResumeRefused,
         Select, State, Ready
<1>2. ReplacingCommand => pc \in {"idle", "crashed"}
  BY DEF ReplacingCommand, LaunchFails, LaunchPaused, LaunchRuns, Trace, Stop, Respawn
<1>3. Continue \/ Step \/ (\E i \in Ids, l \in Locs : Until(i, l)) => pc = "idle"
  BY DEF Continue, Step, Until, Ready
<1>4. PausePaused \/ PauseRunning \/ PauseExited => pc = "idle"
  BY DEF PausePaused, PauseRunning, PauseExited
<1>5. (\E lost \in SUBSET Ids : Restart(lost)) => pc = "idle"
  BY DEF Restart, RestartTarget, Ready
<1> QED BY <1>1, <1>2, <1>3, <1>4, <1>5, CommandCases DEF ReplacingCommand

LEMMA DelveKeepsHandler == Delve => UNCHANGED <<pc, hits>>
BY DEF Delve, ServeMine, ServeLost, TargetExits, HaltArrives, TargetStops, callVars

LEMMA HandlerAdvance ==
  ASSUME TypeOK, Bounded, Timeout \/ GiveUp \/ Receive \/ AfterReply \/ ClearUntil
  PROVE  ResumeLogs \/ Remaining' < Remaining
<1>0. hits \in Int /\ TraceMax \in Int
  BY SessionAssumption DEF TypeOK
<1>1. CASE Timeout \/ Receive \/ ClearUntil
  BY <1>0, <1>1 DEF Timeout, Receive, ClearUntil, callVars, Remaining, Phase
<1>2. CASE GiveUp
  <2>1. hits' = hits /\ pc = "intr" /\ pc' \in {"idle", "clear"}
    BY <1>2 DEF GiveUp, Return, callVars
  <2> QED BY <1>0, <2>1 DEF Remaining, Phase
<1>3. CASE \/ ResumeFails \/ ResumeExits \/ ResumeStops
           \/ TraceFails \/ TraceExits \/ TraceTimesOut
  <2>1. hits' = hits /\ pc \in {"stopped", "halted"} /\ pc' \in {"idle", "clear"}
    BY <1>3 DEF ResumeFails, ResumeExits, ResumeStops, TraceFails, TraceExits,
                TraceTimesOut, TraceDone, AfterStop, Return, callVars
  <2> QED BY <1>0, <2>1 DEF Remaining, Phase
<1>4. CASE TracePanics \/ TraceHits
  <2>1. hits' = hits + 1 /\ pc = "stopped" /\ pc' \in {"run", "idle", "clear"}
    BY <1>4 DEF TracePanics, TraceHits, Send, Return
  <2> QED BY <1>0, <2>1 DEF Remaining, Phase
<1> QED BY <1>1, <1>2, <1>3, <1>4 DEF AfterReply

\* runCommand's timers and the loops of resume and of cmdTrace (session.go,
\* commands.go) bound every call that meets no logpoint to 6 * (--max + 1) steps;
\* a logpoint stop is the only thing that starts them again.
THEOREM CallAdvanceCorrect == Spec => [][CallAdvance]_vars
<1>1. IInv /\ [Next]_vars => [CallAdvance]_vars
  <2> SUFFICES ASSUME IInv, Next, pc \notin {"idle", "crashed"}
               PROVE  IF Handler THEN ResumeLogs \/ Remaining' < Remaining
                      ELSE UNCHANGED <<pc, hits>>
    BY DEF CallAdvance
  <2>1. ~SessionCommand /\ ~Respawn
    BY CommandsWhenIdle
  <2>2. CASE Handler
    BY <2>1, <2>2, HandlerAdvance DEF Handler, IInv
  <2>3. CASE ~Handler
    BY <2>1, <2>3, DelveKeepsHandler DEF Next
  <2> QED BY <2>2, <2>3
<1> QED BY <1>1, Invariant, PTL DEF Spec

\* The handler waits for nobody: not for the halt it sent, not for Delve, not for a
\* target that keeps running.
THEOREM CallCanGoOnCorrect == Spec => []CallCanGoOn
<1>1. IInv => CallCanGoOn
  BY DEF IInv, Control, TypeOK, InCall, Abandoned, CallCanGoOn, Replies
<1> QED BY <1>1, Invariant, PTL
=============================================================================
