------------------------------ MODULE Session -------------------------------
(***************************************************************************)
(* One debug session of the daemon: internal/daemon/session.go and the     *)
(* commands of internal/daemon/commands.go that change its state, with the *)
(* Delve server they talk to (external, modelled from how they use it).    *)
(*                                                                         *)
(* The daemon handles one command at a time (pc # "idle" while one runs).  *)
(* runCommand sends a resume Command from a goroutine of its own and waits *)
(* for its reply, for a 25 s timer after which it sends a halt from yet    *)
(* another goroutine, and then for a 10 s timer after which it gives up.   *)
(* A Command that was given up is still with Delve: it runs, or waits its  *)
(* turn to run, and its reply reaches nobody.                              *)
(***************************************************************************)
EXTENDS View, FiniteSets

CONSTANTS Locs,        \* source locations a breakpoint can be set at
          MaxId,       \* bound: breakpoints created in one session
          MaxHalts,    \* bound: halts in flight (more are not told apart)
          MaxLost,     \* bound: abandoned Commands outstanding
          MaxLogs,     \* bound: log lines of one call (more are not told apart)
          TraceMax,    \* trace --max
          Commands     \* the commands the user gives

ASSUME SessionAssumption ==
  /\ MaxId \in Nat \ {0} /\ MaxHalts \in Nat \ {0} /\ MaxLost \in Nat \ {0}
  /\ MaxLogs \in Nat /\ TraceMax \in Nat \ {0} /\ Locs # {}

VARIABLES
  sess,       \* Daemon.sess # nil
  exited,     \* Session.exited
  logpoints,  \* the keys of Session.logpoints
  target,     \* the debuggee: "none", "paused", "running" or "exited"
  at,         \* the stop at which it is paused
  bps,        \* Delve's breakpoint table
  pend,       \* the handler's Command has not been started by Delve yet
  serving,    \* whose Command Delve is running: "none", "mine" or "lost"
  waiting,    \* abandoned Commands that Delve has not started yet
  reply,      \* what is in runCommand's channel
  halts,      \* halt requests sent and not yet processed
  pc,         \* where the handler is
  cmd,        \* which loop around runCommand: "resume", "until" or "trace"
  name,       \* cmdName: "continue" or "step"
  untilId,    \* cmdUntil's breakpoint
  logs,       \* len(logLines)
  hits,       \* cmdTrace's hits
  report,     \* the last stop, exit or error the user was told
  fired,      \* history: logpoint stops of the target during the call
  clean       \* history: no abandoned Command was outstanding in the last call

sessVars == <<sess, exited, logpoints>>
dlvVars  == <<target, at, bps>>
rpcVars  == <<pend, serving, waiting, reply, halts>>
callVars == <<cmd, name, untilId, logs, hits>>
ghosts   == <<fired, clean>>
vars == <<sessVars, viewVars, dlvVars, rpcVars, pc, callVars, report, ghosts>>

Ids == 1 .. MaxId

\* A stop: what stopped the target, the breakpoint if it was one.
StopKinds == {"entry", "bp", "panic", "fatal", "step", "scope", "manual"}
Stops == [k : StopKinds, id : 0 .. MaxId, uf : Frames, n : Stamps]

\* The kind of a table entry remembers the command that created it; "free" ids
\* have not been given out and "gone" ones are not given out again.
BpKinds == {"free", "gone", "line", "log", "watch", "until"}
Live == {"line", "log", "watch", "until"}
Bps == [kind : BpKinds, loc : Locs, on : BOOLEAN, hit : BOOLEAN]

Replies == [kind : {"none", "stop", "exit", "fail"}, stop : Stops]
Reports == [kind : {"none", "launched", "stop", "paused", "exit", "error"},
            stop : Stops, logs : 0 .. MaxLogs, never : SUBSET Ids,
            halted : BOOLEAN]

TypeOK ==
  /\ ViewTypeOK
  /\ sess \in BOOLEAN /\ exited \in BOOLEAN /\ logpoints \in SUBSET Ids
  /\ target \in {"none", "paused", "running", "exited"}
  /\ at \in Stops /\ bps \in [Ids -> Bps]
  /\ pend \in BOOLEAN /\ serving \in {"none", "mine", "lost"}
  /\ waiting \in 0 .. MaxLost /\ halts \in 0 .. MaxHalts
  /\ reply \in Replies
  /\ pc \in {"idle", "run", "intr", "stopped", "halted", "clear", "crashed"}
  /\ cmd \in {"resume", "until", "trace"} /\ name \in {"continue", "step"}
  /\ untilId \in 0 .. MaxId
  /\ logs \in 0 .. MaxLogs /\ fired \in 0 .. MaxLogs
  /\ hits \in 0 .. TraceMax
  /\ report \in Reports /\ clean \in BOOLEAN

NoStop == [k |-> "entry", id |-> 0, uf |-> 0, n |-> CHOOSE n \in Stamps : TRUE]
NoReply == [kind |-> "none", stop |-> NoStop]
FreeBp == [kind |-> "free", loc |-> CHOOSE l \in Locs : TRUE,
           on |-> TRUE, hit |-> FALSE]
Told(kind, stop, never, halted) ==
  [kind |-> kind, stop |-> stop, logs |-> logs, never |-> never,
   halted |-> halted]
Plain(kind) == [kind |-> kind, stop |-> NoStop, logs |-> 0, never |-> {},
                halted |-> FALSE]

Init ==
  /\ ViewInit
  /\ sess = FALSE /\ exited = FALSE /\ logpoints = {}
  /\ target = "none" /\ at = NoStop /\ bps = [i \in Ids |-> FreeBp]
  /\ pend = FALSE /\ serving = "none" /\ waiting = 0
  /\ reply = NoReply /\ halts = 0
  /\ pc = "idle" /\ cmd = "resume" /\ name = "continue" /\ untilId = 0
  /\ logs = 0 /\ hits = 0 /\ fired = 0 /\ clean = TRUE
  /\ report = Plain("none")

Bump(n, max) == IF n < max THEN n + 1 ELSE n

\* Some resume Command that no handler waits for is still with Delve.
Abandoned == waiting > 0 \/ serving = "lost"

\* Delve serves these calls only while the target is not running.
Ready == pc = "idle" /\ sess /\ target # "running"

\* Delve numbers breakpoints from 1 and never reuses a number.
NextIds == {i \in Ids : /\ bps[i].kind = "free"
                        /\ \A j \in 1 .. (i - 1) : bps[j].kind # "free"}
Vacant(l) == \A i \in Ids : bps[i].kind \in Live \ {"watch"} => bps[i].loc # l
NewBp(kind, l) == [kind |-> kind, loc |-> l, on |-> TRUE, hit |-> FALSE]

-----------------------------------------------------------------------------
(* runCommand: the goroutines, the timers and the channel.                  *)

\* Entering runCommand: a fresh channel, a Command on its way, a fresh timer.
Send(n) == /\ pc' = "run" /\ name' = n /\ pend' = TRUE /\ reply' = NoReply

\* A command handler reaches the loop of resume or of cmdTrace.
Start(c, n) ==
  Send(n) /\ cmd' = c /\ logs' = 0 /\ hits' = 0 /\ fired' = 0

\* The bound on abandoned Commands: a call abandons one at most.
Room == waiting + (IF serving = "lost" THEN 1 ELSE 0) < MaxLost

\* Variant for mutation: the call returns as soon as the halt is sent.
TimeoutReturns ==
  /\ pc = "run"
  /\ pc' = "idle" /\ halts' = Bump(halts, MaxHalts)
  /\ UNCHANGED <<sessVars, viewVars, dlvVars, pend, serving, waiting, reply,
                 callVars, report, ghosts>>

\* The 25 s timer: `go s.c.Command(Halt)`.  When the reply has just arrived,
\* select takes either branch.
Timeout ==
  /\ pc = "run"
  /\ pc' = "intr" /\ halts' = Bump(halts, MaxHalts)
  /\ UNCHANGED <<sessVars, viewVars, dlvVars, pend, serving, waiting, reply,
                 callVars, report, ghosts>>

Receive ==
  /\ pc \in {"run", "intr"} /\ reply.kind # "none"
  /\ pc' = IF pc = "run" THEN "stopped" ELSE "halted"
  /\ UNCHANGED <<sessVars, viewVars, dlvVars, rpcVars, callVars, report, ghosts>>

\* cmdUntil clears its breakpoint on every path; the other loops just return.
Return(r) == /\ report' = r
             /\ pc' = IF cmd = "until" THEN "clear" ELSE "idle"

\* Variant for mutation: there is no second timer.
GiveUpNever == FALSE

\* The 10 s timer: "target did not stop after interrupt".
GiveUp ==
  /\ pc = "intr"
  /\ waiting' = (IF pend THEN waiting + 1 ELSE waiting)
  /\ serving' = (IF serving = "mine" THEN "lost" ELSE serving)
  /\ pend' = FALSE /\ reply' = NoReply /\ clean' = FALSE
  /\ Return(Plain("error"))
  /\ UNCHANGED <<sessVars, viewVars, dlvVars, halts, callVars, fired>>

-----------------------------------------------------------------------------
(* Delve and the target (external).                                         *)

\* The target stops or ends: the Command that was running gets its reply.
Deliver(kind, stop) ==
  /\ reply' = IF serving = "mine" THEN [kind |-> kind, stop |-> stop] ELSE reply
  /\ serving' = "none"
  /\ UNCHANGED <<pend, waiting>>

\* Delve starts a waiting Command, in no particular order.  It may refuse one;
\* on an exited target it answers that the process has exited.
ServeMine ==
  /\ pend /\ serving = "none" /\ pend' = FALSE
  /\ \/ /\ target = "paused"
        /\ target' = "running" /\ serving' = "mine" /\ fresh' = FALSE
        /\ UNCHANGED reply
     \/ /\ target = "paused"
        /\ reply' = [kind |-> "fail", stop |-> NoStop]
        /\ UNCHANGED <<target, serving, fresh>>
     \/ /\ target = "exited"
        /\ reply' = [kind |-> "exit", stop |-> NoStop]
        /\ UNCHANGED <<target, serving, fresh>>
  /\ UNCHANGED <<sessVars, selG, selFrame, lastLocals, at, bps, waiting, halts,
                 pc, callVars, report, ghosts>>

ServeLost ==
  /\ waiting > 0 /\ serving = "none" /\ waiting' = waiting - 1
  /\ \/ /\ target = "paused"
        /\ target' = "running" /\ serving' = "lost" /\ fresh' = FALSE
     \/ target = "exited" /\ UNCHANGED <<target, serving, fresh>>
  /\ UNCHANGED <<sessVars, selG, selFrame, lastLocals, at, bps, pend, reply,
                 halts, pc, callVars, report, ghosts>>

\* What can stop the running target, and what that does to the table.  A step
\* ends in a "step" stop; of an abandoned Command the kind is not remembered.
Stopped(stop) ==
  \/ /\ stop.k = "bp" /\ stop.uf = 0 /\ stop.id \in Ids
     /\ bps[stop.id].kind \in Live /\ bps[stop.id].on
     /\ bps' = [bps EXCEPT ![stop.id].hit = TRUE]
  \/ /\ stop.k = "scope" /\ stop.uf = 0 /\ stop.id \in Ids
     /\ bps[stop.id].kind = "watch"
     /\ bps' = [bps EXCEPT ![stop.id].kind = "gone"]
  \/ /\ stop.k \in {"panic", "fatal"} /\ stop.id = 0
     /\ UNCHANGED bps
  \/ /\ stop.k = "step" /\ stop.id = 0 /\ stop.uf = 0
     /\ serving = "lost" \/ name = "step"
     /\ UNCHANGED bps

TargetStops(stop) ==
  /\ target = "running"
  /\ Stopped(stop)
  /\ target' = "paused" /\ at' = stop
  /\ Deliver("stop", stop)
  /\ fired' = IF stop.k = "bp" /\ stop.id \in logpoints
              THEN Bump(fired, MaxLogs) ELSE fired
  /\ UNCHANGED <<sessVars, viewVars, halts, pc, callVars, report, clean>>

TargetExits ==
  /\ target = "running"
  /\ target' = "exited"
  /\ Deliver("exit", NoStop)
  /\ UNCHANGED <<sessVars, viewVars, at, bps, halts, pc, callVars, report, ghosts>>

\* A halt request stops a running target; a paused one it leaves alone.
HaltArrives ==
  /\ halts > 0 /\ halts' = halts - 1
  /\ \/ /\ target = "running" /\ target' = "paused"
        /\ \E n \in Stamps :
             /\ at' = [k |-> "manual", id |-> 0, uf |-> 0, n |-> n]
             /\ Deliver("stop", at')
     \/ target # "running" /\ UNCHANGED <<target, at, pend, serving, waiting, reply>>
  /\ UNCHANGED <<sessVars, viewVars, bps, pc, callVars, report, ghosts>>

-----------------------------------------------------------------------------
(* After runCommand: the loop of resume (continue, step, until, launch).    *)

AfterStop == pc \in {"stopped", "halted"} /\ target # "running"

\* reportNeverHit: what Delve lists with a zero hit count, watchpoints aside.
NeverHit == {i \in Ids : bps[i].kind \in Live \ {"watch"} /\ ~bps[i].hit}

ResumeFails ==
  /\ pc \in {"stopped", "halted"} /\ cmd # "trace" /\ reply.kind = "fail"
  /\ Return(Plain("error")) /\ reply' = NoReply
  /\ UNCHANGED <<sessVars, viewVars, dlvVars, pend, serving, waiting, halts,
                 callVars, ghosts>>

\* exitReport: the log lines, then the breakpoints that were never hit.
ResumeExits ==
  /\ AfterStop /\ cmd # "trace" /\ reply.kind = "exit"
  /\ exited' = TRUE
  /\ Return(Told("exit", NoStop, NeverHit, FALSE)) /\ reply' = NoReply
  /\ UNCHANGED <<sess, logpoints, viewVars, dlvVars, pend, serving, waiting,
                 halts, callVars, ghosts>>

\* Variant for mutation: a logpoint stop that came late is reported as a stop.
AtLogpointUnlessLate == /\ pc = "stopped"
                        /\ reply.stop.k = "bp" /\ reply.stop.id \in logpoints

AtLogpoint == reply.stop.k = "bp" /\ reply.stop.id \in logpoints

\* A logpoint: render its line and continue with a new runCommand, even when
\* the 25 s timer had fired.
ResumeLogs ==
  /\ AfterStop /\ cmd # "trace" /\ reply.kind = "stop" /\ AtLogpoint
  /\ logs' = Bump(logs, MaxLogs)
  /\ Send("continue")
  /\ UNCHANGED <<sessVars, viewVars, dlvVars, serving, waiting, halts,
                 cmd, untilId, hits, report, ghosts>>

ResumeStops ==
  /\ AfterStop /\ cmd # "trace" /\ reply.kind = "stop" /\ ~AtLogpoint
  /\ StopView(reply.stop, pc = "halted")
  /\ Return(Told("stop", reply.stop, {}, pc = "halted")) /\ reply' = NoReply
  /\ UNCHANGED <<sessVars, dlvVars, pend, serving, waiting, halts, callVars,
                 ghosts>>

\* cmdUntil's ClearBreakpoint.  Its error is ignored: on an exited target the
\* breakpoint may stay in Delve's table.
ClearUntil ==
  /\ pc = "clear" /\ target # "running"
  /\ \/ bps' = [bps EXCEPT ![untilId].kind = "gone"]
     \/ target = "exited" /\ UNCHANGED bps
  /\ pc' = "idle"
  /\ UNCHANGED <<sessVars, viewVars, target, at, rpcVars, callVars, report,
                 ghosts>>

-----------------------------------------------------------------------------
(* After runCommand: the loop of cmdTrace.                                  *)

TraceFails ==
  /\ pc \in {"stopped", "halted"} /\ cmd = "trace" /\ reply.kind = "fail"
  /\ Return(Plain("error")) /\ reply' = NoReply
  /\ UNCHANGED <<sessVars, viewVars, dlvVars, pend, serving, waiting, halts,
                 callVars, ghosts>>

\* The loop is left; never-hit breakpoints are listed only after no hit at all.
TraceDone(kind, stop, halted) ==
  /\ Return(Told(kind, stop, IF hits = 0 THEN NeverHit ELSE {}, halted))
  /\ reply' = NoReply
  /\ UNCHANGED <<sess, logpoints, viewVars, dlvVars, pend, serving, waiting,
                 halts, callVars, ghosts>>

TraceExits ==
  /\ AfterStop /\ cmd = "trace" /\ reply.kind = "exit"
  /\ exited' = TRUE
  /\ TraceDone("exit", NoStop, FALSE)

\* "(target did not reach the breakpoint before timeout; halted)": the loop is
\* left the way it is left when the target exits, and exited is set.
TraceTimesOut ==
  /\ AfterStop /\ cmd = "trace" /\ reply.kind = "stop" /\ pc = "halted"
  /\ exited' = TRUE
  /\ TraceDone("stop", reply.stop, TRUE)

TracePanics ==
  /\ AfterStop /\ cmd = "trace" /\ reply.kind = "stop" /\ pc = "stopped"
  /\ reply.stop.k \in {"panic", "fatal"}
  /\ hits' = hits + 1
  /\ selG' = -1 /\ selFrame' = 0 /\ fresh' = TRUE
  /\ Return(Told("stop", reply.stop, {}, FALSE)) /\ reply' = NoReply
  /\ UNCHANGED <<sessVars, lastLocals, dlvVars, pend, serving, waiting, halts,
                 cmd, name, untilId, logs, ghosts>>

\* Variant for mutation: one hit too many.
HitsLeftInclusive(h) == h <= TraceMax

\* The loop condition of cmdTrace.
HitsLeft(h) == h < TraceMax

TraceHits ==
  /\ AfterStop /\ cmd = "trace" /\ reply.kind = "stop" /\ pc = "stopped"
  /\ reply.stop.k \notin {"panic", "fatal"}
  /\ hits' = hits + 1
  /\ IF HitsLeft(hits')
     THEN /\ Send("continue")
          /\ UNCHANGED <<exited, report>>
     ELSE /\ exited' = FALSE
          /\ Return(Told("stop", reply.stop, {}, FALSE)) /\ reply' = NoReply
          /\ UNCHANGED <<name, pend>>
  /\ UNCHANGED <<sess, logpoints, viewVars, dlvVars, serving, waiting, halts,
                 cmd, untilId, logs, ghosts>>

AfterReply == \/ ResumeFails \/ ResumeExits \/ ResumeLogs \/ ResumeStops
              \/ TraceFails \/ TraceExits \/ TraceTimesOut \/ TracePanics
              \/ TraceHits

-----------------------------------------------------------------------------
(* Commands: sessions.                                                      *)

\* Lists of distinct locations: the --break flags of launch and trace.
BreakLists == {ls \in UNION {[1 .. n -> Locs] : n \in 0 .. MaxId} :
                 \A i, j \in DOMAIN ls : ls[i] = ls[j] => i = j}

TableOf(ls) == [i \in Ids |-> IF i \in DOMAIN ls THEN NewBp("line", ls[i])
                              ELSE FreeBp]

\* A new connection: nothing is in flight on it.
NewConnection == serving' = "none" /\ waiting' = 0 /\ halts' = 0

\* stopSession, whose Detach waits while the target runs, then newSession with
\* its breakpoints; dlv starts the target paused before main.
NewSession(ls) ==
  /\ target # "running"
  /\ sess' = TRUE /\ exited' = FALSE /\ logpoints' = {}
  /\ ClearView
  /\ target' = "paused" /\ at' = NoStop /\ bps' = TableOf(ls)
  /\ NewConnection /\ untilId' = 0 /\ clean' = TRUE

\* stopSession alone: Detach, Close and Kill.
NoSession ==
  /\ target # "running"
  /\ sess' = FALSE /\ exited' = FALSE /\ logpoints' = {}
  /\ ClearView
  /\ target' = "none" /\ at' = NoStop /\ bps' = TableOf(<< >>)
  /\ NewConnection /\ pend' = FALSE /\ reply' = NoReply /\ untilId' = 0
  /\ clean' = TRUE

\* The build fails or a breakpoint cannot be set; the old session is gone.
LaunchFails ==
  /\ pc = "idle"
  /\ NoSession /\ report' = Plain("error")
  /\ UNCHANGED <<pc, cmd, name, logs, hits, fired>>

\* No --break, or --stop-entry.
LaunchPaused(ls) ==
  /\ pc = "idle"
  /\ NewSession(ls) /\ report' = Plain("launched")
  /\ pend' = FALSE /\ reply' = NoReply
  /\ UNCHANGED <<pc, cmd, name, logs, hits, fired>>

LaunchRuns(ls) ==
  /\ pc = "idle" /\ ls # << >>
  /\ NewSession(ls) /\ Start("resume", "continue")
  /\ UNCHANGED report

Trace(ls) ==
  /\ pc = "idle" /\ ls # << >>
  /\ NewSession(ls) /\ Start("trace", "continue")
  /\ UNCHANGED report

Stop ==
  /\ pc = "idle"
  /\ NoSession /\ report' = Plain("none")
  /\ UNCHANGED <<pc, cmd, name, logs, hits, fired>>

\* After a panic of the daemon a client starts a new one, without a session.
Respawn ==
  /\ pc = "crashed" /\ pc' = "idle"
  /\ NoSession /\ report' = Plain("none")
  /\ UNCHANGED <<cmd, name, logs, hits, fired>>

-----------------------------------------------------------------------------
(* Commands: breakpoints.                                                   *)

Break(i, l) ==
  /\ Ready /\ i \in NextIds /\ Vacant(l)
  /\ bps' = [bps EXCEPT ![i] = NewBp("line", l)]
  /\ UNCHANGED <<sessVars, viewVars, target, at, rpcVars, pc, callVars, report,
                 ghosts>>

\* break --log: the template is stored under the new id.
BreakLog(i, l) ==
  /\ Ready /\ i \in NextIds /\ Vacant(l)
  /\ bps' = [bps EXCEPT ![i] = NewBp("log", l)]
  /\ logpoints' = logpoints \cup {i}
  /\ UNCHANGED <<sess, exited, viewVars, target, at, rpcVars, pc, callVars,
                 report, ghosts>>

Watch(i) ==
  /\ Ready /\ i \in NextIds /\ target = "paused"
  /\ bps' = [bps EXCEPT ![i] = [FreeBp EXCEPT !.kind = "watch"]]
  /\ UNCHANGED <<sessVars, viewVars, target, at, rpcVars, pc, callVars, report,
                 ghosts>>

\* Variant for mutation: the template is deleted even when the RPC failed.
BreakRmForgets(i) ==
  /\ Ready /\ bps[i].kind \in Live
  /\ bps' \in {[bps EXCEPT ![i].kind = "gone"], bps}
  /\ logpoints' = logpoints \ {i}
  /\ UNCHANGED <<sess, exited, viewVars, target, at, rpcVars, pc, callVars,
                 report, ghosts>>

\* When the RPC fails nothing changes.
BreakRm(i) ==
  /\ Ready /\ bps[i].kind \in Live
  /\ bps' = [bps EXCEPT ![i].kind = "gone"]
  /\ logpoints' = logpoints \ {i}
  /\ UNCHANGED <<sess, exited, viewVars, target, at, rpcVars, pc, callVars,
                 report, ghosts>>

BreakToggle(i, on) ==
  /\ Ready /\ bps[i].kind \in Live
  /\ bps' = [bps EXCEPT ![i].on = on]
  /\ UNCHANGED <<sessVars, viewVars, target, at, rpcVars, pc, callVars, report,
                 ghosts>>

-----------------------------------------------------------------------------
(* Commands: execution.                                                     *)

\* resume's early return: "program has exited; use restart or launch".
ResumeRefused(tags) ==
  /\ pc = "idle" /\ sess /\ exited /\ tags \cap Commands # {}
  /\ report' = Plain("error")
  /\ UNCHANGED <<sessVars, viewVars, dlvVars, rpcVars, pc, callVars, ghosts>>

\* Also `set ... --then continue`.
Continue ==
  /\ pc = "idle" /\ sess /\ ~exited /\ Room
  /\ Start("resume", "continue") /\ clean' = ~Abandoned
  /\ UNCHANGED <<sessVars, viewVars, dlvVars, serving, waiting, halts, untilId,
                 report>>

Step ==
  /\ pc = "idle" /\ sess /\ ~exited /\ Room
  /\ Start("resume", "step") /\ clean' = ~Abandoned
  /\ UNCHANGED <<sessVars, viewVars, dlvVars, serving, waiting, halts, untilId,
                 report>>

\* The breakpoint is created before resume looks at exited.
Until(i, l) ==
  /\ Ready /\ Room /\ i \in NextIds /\ Vacant(l)
  /\ bps' = [bps EXCEPT ![i] = NewBp("until", l)] /\ untilId' = i
  /\ IF exited
     THEN /\ pc' = "clear" /\ cmd' = "until" /\ report' = Plain("error")
          /\ UNCHANGED <<name, pend, reply, logs, hits, fired, clean>>
     ELSE /\ Start("until", "continue") /\ clean' = ~Abandoned
          /\ UNCHANGED report
  /\ UNCHANGED <<sessVars, viewVars, target, at, serving, waiting, halts>>

\* The halt RPC on a paused target just returns the state.
PausePaused ==
  /\ pc = "idle" /\ sess /\ target = "paused"
  /\ StopView(at, FALSE)
  /\ report' = [Plain("paused") EXCEPT !.stop = at]
  /\ clean' = ~Abandoned
  /\ UNCHANGED <<sessVars, dlvVars, rpcVars, pc, callVars, fired>>

\* Between commands only an abandoned Command runs the target.
PauseRunning ==
  /\ pc = "idle" /\ sess /\ target = "running"
  /\ target' = "paused"
  /\ \E n \in Stamps :
       /\ at' = [k |-> "manual", id |-> 0, uf |-> 0, n |-> n]
       /\ StopView(at', FALSE)
       /\ report' = [Plain("paused") EXCEPT !.stop = at']
  /\ Deliver("stop", at') /\ clean' = (waiting = 0)
  /\ UNCHANGED <<sessVars, bps, halts, pc, callVars, fired>>

\* Delve answers with an error, or with a state that says Exited and has no
\* CurrentThread, which renderStop dereferences.
PauseExited ==
  /\ pc = "idle" /\ sess /\ target = "exited"
  /\ \/ report' = Plain("error") /\ UNCHANGED <<pc, viewVars>>
     \/ pc' = "crashed" /\ selG' = -1 /\ selFrame' = 0
        /\ UNCHANGED <<lastLocals, fresh, report>>
  /\ UNCHANGED <<sessVars, dlvVars, rpcVars, callVars, ghosts>>

\* What Delve keeps over a restart: hit counts start again, watchpoints and the
\* breakpoints that no longer bind (lost) are discarded.
Restarted(lost) ==
  [i \in Ids |-> IF bps[i].kind = "watch" \/ i \in lost
                 THEN [bps[i] EXCEPT !.kind = "gone"]
                 ELSE [bps[i] EXCEPT !.hit = FALSE]]

RestartTarget(lost) ==
  /\ Ready
  /\ target' = "paused" /\ at' = NoStop /\ bps' = Restarted(lost)
  /\ report' = Plain("launched") /\ clean' = ~Abandoned
  /\ UNCHANGED <<sess, logpoints, rpcVars, pc, callVars, fired>>

\* Variant for mutation: exited survives the restart.
RestartKeepsExited(lost) == RestartTarget(lost) /\ ClearView /\ UNCHANGED exited

\* cmdRestart; when the RPC fails nothing changes.
Restart(lost) == RestartTarget(lost) /\ ClearView /\ exited' = FALSE

-----------------------------------------------------------------------------
(* Commands: the view.                                                      *)

Select ==
  /\ Ready
  /\ SelectFrame \/ \E g \in Goroutines : SelectGoroutine(g)
  /\ UNCHANGED <<sessVars, dlvVars, rpcVars, pc, callVars, report, ghosts>>

State ==
  /\ Ready /\ target = "paused"
  /\ StateView(at)
  /\ UNCHANGED <<sessVars, dlvVars, rpcVars, pc, callVars, report, ghosts>>

-----------------------------------------------------------------------------
Asked(c) == c \in Commands

SessionCommand ==
  \/ Asked("launch") /\ \/ LaunchFails \/ Stop
                        \/ \E ls \in BreakLists : LaunchPaused(ls) \/ LaunchRuns(ls)
  \/ Asked("trace") /\ \E ls \in BreakLists : Trace(ls)
  \/ Asked("break") /\ \E i \in Ids, l \in Locs : Break(i, l)
  \/ Asked("log") /\ \E i \in Ids, l \in Locs : BreakLog(i, l)
  \/ Asked("watch") /\ \E i \in Ids : Watch(i)
  \/ Asked("rm") /\ \E i \in Ids : BreakRm(i)
  \/ Asked("toggle") /\ \E i \in Ids, on \in BOOLEAN : BreakToggle(i, on)
  \/ Asked("continue") /\ Continue
  \/ Asked("step") /\ Step
  \/ ResumeRefused({"continue", "step"})
  \/ Asked("until") /\ \E i \in Ids, l \in Locs : Until(i, l)
  \/ Asked("pause") /\ (PausePaused \/ PauseRunning \/ PauseExited)
  \/ Asked("restart") /\ \E lost \in SUBSET {i \in Ids : bps[i].kind \in Live} :
                           Restart(lost)
  \/ Asked("select") /\ Select
  \/ Asked("state") /\ State

Handler == \/ Timeout \/ GiveUp \/ Receive \/ AfterReply \/ ClearUntil
           \/ Respawn

Delve == \/ ServeMine \/ ServeLost \/ TargetExits \/ HaltArrives
         \/ \E stop \in Stops : TargetStops(stop)

Next == SessionCommand \/ Handler \/ Delve

Spec == Init /\ [][Next]_vars

\* The timers fire and the daemon's goroutines are scheduled.  Nothing is
\* assumed of Delve, of the target or of the user.
Fairness == /\ WF_vars(Timeout) /\ WF_vars(GiveUp) /\ WF_vars(Receive)
            /\ WF_vars(AfterReply) /\ WF_vars(ClearUntil)

FairSpec == Spec /\ Fairness

-----------------------------------------------------------------------------
(* Properties that hold.                                                    *)

Idle == pc = "idle"

\* Between two calls the target is paused, ended or absent, unless an earlier
\* call ended with "target did not stop after interrupt": no call returns with
\* a Command of its own still running.
OnlyAbandonedRuns == Idle /\ target = "running" => serving = "lost"

\* What the last stop report says is where the target is: nothing moved it
\* after its reply was taken out of the channel.
ReportIsCurrent ==
  Idle /\ clean /\ report.kind \in {"stop", "paused"}
    => target = "paused" /\ at = report.stop

\* Session.exited, which decides whether continue and step are refused, says
\* what became of the target, across restarts and failing commands.
ExitedHonest == Idle /\ clean => (exited <=> target = "exited")

\* A stop or exit report carries one log line for every time a logpoint
\* stopped the target during the call, and never is a logpoint stop itself.
LogsComplete ==
  Idle /\ clean /\ report.kind \in {"stop", "exit"} /\ cmd # "trace"
    => report.logs = fired

\* A breakpoint created with --log is a logpoint for as long as Delve has it:
\* the map in the daemon and the table in Delve agree over removal, restart
\* and the end of the process.
LogpointsExact ==
  \A i \in Ids : /\ bps[i].kind = "log" => i \in logpoints
                 /\ i \in logpoints => bps[i].kind \in {"log", "gone"}

\* A goroutine or frame selected at one stop is not carried over to the next.
SelectionFresh ==
  Idle /\ clean /\ report.kind \in {"stop", "paused", "launched"}
    => fresh \/ (selG = -1 /\ selFrame = 0)

\* The next report's locals are compared with those of the last stop report,
\* whatever was selected or inspected since.
DeltaBaseline ==
  Idle /\ report.kind \in {"stop", "paused"} /\ ~(report.kind = "stop" /\ cmd = "trace")
    => lastLocals = {<<report.stop.n, -1, ReportFrame(report.stop, report.halted)>>}

\* session.go:13: resumeTimeout "bounds how long continue/step block ... Keeps
\* every agent call one turn".  A call returns whatever the target does, unless
\* a Command is abandoned: then rendering a report or clearing until's
\* breakpoint may wait for a target that nobody interrupts.  A crashed daemon is
\* the matter of DaemonSurvives.  Without logpoints it holds; each logpoint stop
\* starts a new timer, and with one it fails.
CallsReturn == (pc \notin {"idle", "crashed"}) ~> (pc = "idle" \/ Abandoned)

-----------------------------------------------------------------------------
(* The inductive invariant behind the properties above (SessionProofs).     *)

\* The handler is in runCommand, or has its reply in hand.
InCall == pc \in {"run", "intr", "stopped", "halted"}

\* Abandoned Commands leave room for one more while a call is under way, and
\* cmdTrace's loop condition holds inside the loop.
Bounded ==
  LET lost == waiting + (IF serving = "lost" THEN 1 ELSE 0)
  IN /\ lost <= MaxLost
     /\ InCall => lost < MaxLost /\ hits < TraceMax

\* The target runs exactly when Delve runs a Command; the handler's own Command
\* is on its way, running or answered, never two of these, and none of them
\* outside a call.
Control ==
  /\ target = "running" <=> serving # "none"
  /\ serving = "mine" => InCall /\ ~pend
  /\ pend => InCall
  /\ reply.kind # "none" => InCall /\ ~pend /\ serving # "mine"
  /\ pc \in {"stopped", "halted"} => reply.kind # "none"

\* In a call that met no abandoned Command nothing moves the target between its
\* stop and the report, and nothing moves it after the report.
Undisturbed ==
  clean =>
    /\ waiting = 0 /\ serving # "lost"
    /\ reply.kind = "stop" => target = "paused" /\ at = reply.stop
    /\ pc \in {"idle", "clear"} /\ report.kind \in {"stop", "paused"}
         => target = "paused" /\ at = report.stop

IInv == TypeOK /\ Bounded /\ Control /\ Undisturbed /\ LogpointsExact

\* Between calls, or on the way out of until: a report has been given.
Over == pc \in {"idle", "clear"}

\* The log lines of a call against the logpoint stops it met; one line is
\* still owed while the reply in hand is such a stop.
Counted ==
  clean /\ cmd # "trace" =>
    /\ InCall => fired = IF reply.kind = "stop" /\ AtLogpoint
                         THEN Bump(logs, MaxLogs) ELSE logs
    /\ Over /\ report.kind \in {"stop", "exit"} => report.logs = fired

\* trace selects nothing and saves no baseline, and its session is a new one.
Selected ==
  /\ InCall /\ cmd = "trace" => selG = -1 /\ selFrame = 0
  /\ clean /\ Over /\ report.kind \in {"stop", "paused", "launched"}
       => fresh \/ (selG = -1 /\ selFrame = 0)

Baseline ==
  Over /\ report.kind \in {"stop", "paused"} /\ ~(report.kind = "stop" /\ cmd = "trace")
    => lastLocals = {<<report.stop.n, -1, ReportFrame(report.stop, report.halted)>>}

\* Without trace, whose timeout sets exited: an exit that exited does not show
\* yet is one the call is about to report.
Honest ==
  /\ cmd # "trace"
  /\ exited \/ reply.kind = "exit" => target = "exited"
  /\ clean /\ target = "exited" => exited \/ pend \/ reply.kind = "exit"

\* What a session reports and keeps between reports, given IInv.
ReportInv == Counted /\ Selected /\ Baseline /\ ("trace" \notin Commands => Honest)

-----------------------------------------------------------------------------
(* What the documentation says and the code does not do.                   *)

\* daemon.go:3: the daemon lives "so debugger state survives across agent tool
\* calls": no command brings it down.
DaemonSurvives == pc # "crashed"
=============================================================================
