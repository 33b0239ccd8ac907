----------------------------- MODULE Lifecycle ------------------------------
(***************************************************************************)
(* Clients, daemon processes and the Unix socket path that joins them:     *)
(* Send, SendIfRunning and spawnDaemon of internal/client/client.go, and   *)
(* Run, handle and the idle goroutine of internal/daemon/daemon.go.        *)
(*                                                                         *)
(* The socket is a path that names at most one listener.  Removing the     *)
(* path does not stop the listener: it only becomes unreachable.           *)
(***************************************************************************)
EXTENDS Integers, Sequences, FiniteSets

CONSTANTS Clients,      \* client processes, one request each at a time
          MaxDaemons,   \* bound: daemon processes started in all
          Requests,     \* kinds of request: "launch", "cmd", "stop", "pause", "down"
          Faults        \* which of "idle", "kill", "panic" and "slow" can happen

ASSUME MaxDaemonsAssumption == MaxDaemons \in Nat \ {0}
ASSUME ClientsAssumption == 0 \notin Clients
ASSUME RequestsAssumption == Requests \subseteq {"launch", "cmd", "stop", "pause", "down"}

VARIABLES
  sock,      \* the daemon whose listener the path names; 0: there is no path
  dpc,       \* where Run of each daemon is
  ipc,       \* where the idle goroutine of each daemon is
  long,      \* lastUsed of each daemon is more than idleTimeout ago, and its idle
             \* goroutine, the only reader, has still to see it
  backlog,   \* connections waiting in Accept's queue
  serving,   \* the connection in handle; 0: none
  dlv,       \* the dlv that Run of each daemon started or is ending
  killed,    \* history: the daemon was killed and ran no deferred call
  cpc,       \* where each client is
  req,       \* the kind of its request; "none" when it has none
  res        \* how its last request ended

daemonVars == <<dpc, ipc, long, backlog, serving, dlv, killed>>
clientVars == <<cpc, req, res>>
vars == <<sock, dpc, ipc, long, backlog, serving, dlv, killed, cpc, req, res>>

Daemons == 1 .. MaxDaemons

\* Run: none (not started), started, bind (path removed, not listening yet),
\* accept, handle, launching (in newSession), answer (of a launch: from setSession
\* on), then the deferred calls unwind (stopSession), unlink and close, and dead.
RunStates == {"none", "started", "bind", "accept", "handle", "launching",
              "answer", "unwind", "unlink", "close", "dead"}
Listening == RunStates \ {"none", "started", "bind", "dead"}
\* "starting": newSession has spawned dlv and not yet returned; "session": it
\* belongs to Daemon.sess; "closing": stopSession of Run's goroutine has taken it
\* out of Daemon.sess and is in close; "orphan": the daemon is gone, dlv is not.
DlvStates == {"none", "starting", "session", "closing", "orphan"}
\* "closing": the idle goroutine has taken a session out of Daemon.sess and is in
\* close; that dlv still lives, and is not the one of variable dlv any more.
IdleStates == {"sleep", "decided", "closing", "stopped", "removed"}

TypeOK ==
  /\ sock \in 0 .. MaxDaemons
  /\ dpc \in [Daemons -> RunStates]
  /\ ipc \in [Daemons -> IdleStates]
  /\ long \in [Daemons -> BOOLEAN]
  /\ backlog \in [Daemons -> Seq(Clients)]
  /\ serving \in [Daemons -> Clients \cup {0}]
  /\ dlv \in [Daemons -> DlvStates]
  /\ killed \in [Daemons -> BOOLEAN]
  /\ cpc \in [Clients -> {"idle", "dial", "spawn", "exec", "retry", "wait"}]
  /\ req \in [Clients -> {"none", "launch", "cmd", "stop", "pause", "down"}]
  /\ res \in [Clients -> {"none", "reply", "error"}]

Init ==
  /\ sock = 0
  /\ dpc = [d \in Daemons |-> "none"] /\ ipc = [d \in Daemons |-> "sleep"]
  /\ long = [d \in Daemons |-> FALSE]
  /\ backlog = [d \in Daemons |-> << >>] /\ serving = [d \in Daemons |-> 0]
  /\ dlv = [d \in Daemons |-> "none"] /\ killed = [d \in Daemons |-> FALSE]
  /\ cpc = [c \in Clients |-> "idle"] /\ req = [c \in Clients |-> "none"]
  /\ res = [c \in Clients |-> "none"]

-----------------------------------------------------------------------------
(* Clients.                                                                 *)

\* "down" and "stop" of the command line use SendIfRunning.
OnlyIfRunning(c) == req[c] \in {"stop", "down"}

Finish(c, r) == /\ cpc' = [cpc EXCEPT ![c] = "idle"] /\ req' = [req EXCEPT ![c] = "none"]
                /\ res' = [res EXCEPT ![c] = r]

Request(c, k) ==
  /\ cpc[c] = "idle"
  /\ cpc' = [cpc EXCEPT ![c] = "dial"] /\ req' = [req EXCEPT ![c] = k]
  /\ res' = [res EXCEPT ![c] = "none"]
  /\ UNCHANGED <<sock, daemonVars>>

\* The kernel completes a connection as long as the listener exists.
Reachable == sock # 0 /\ dpc[sock] \in Listening

Connect(c) ==
  /\ cpc[c] \in {"dial", "retry"} /\ Reachable
  /\ backlog' = [backlog EXCEPT ![sock] = Append(@, c)]
  /\ cpc' = [cpc EXCEPT ![c] = "wait"]
  /\ UNCHANGED <<sock, dpc, ipc, long, serving, dlv, killed, req, res>>

\* Variant for mutation: a slow dial counts as no daemon.
DialGivesUp(c) ==
  /\ cpc[c] = "dial"
  /\ cpc' = [cpc EXCEPT ![c] = "spawn"]
  /\ UNCHANGED <<sock, daemonVars, req, res>>

\* There is no path, or nobody listens behind it.
DialFails(c) ==
  /\ cpc[c] = "dial" /\ ~Reachable
  /\ IF OnlyIfRunning(c) THEN Finish(c, "error")
     ELSE cpc' = [cpc EXCEPT ![c] = "spawn"] /\ UNCHANGED <<req, res>>
  /\ UNCHANGED <<sock, daemonVars>>

\* spawnDaemon: "A dead socket from a previous run blocks bind; remove it."
SpawnRemove(c) ==
  /\ cpc[c] = "spawn"
  /\ sock' = 0 /\ cpc' = [cpc EXCEPT ![c] = "exec"]
  /\ UNCHANGED <<daemonVars, req, res>>

\* A process is started, or spawnDaemon returns its error.
SpawnExec(c) ==
  /\ cpc[c] = "exec"
  /\ \/ /\ \E d \in Daemons :
             /\ dpc[d] = "none" /\ \A e \in 1 .. (d - 1) : dpc[e] # "none"
             /\ dpc' = [dpc EXCEPT ![d] = "started"]
        /\ cpc' = [cpc EXCEPT ![c] = "retry"] /\ UNCHANGED <<req, res>>
     \/ Finish(c, "error") /\ UNCHANGED dpc
  /\ UNCHANGED <<sock, ipc, long, backlog, serving, dlv, killed>>

\* Variant for mutation: the retry has no deadline.
RetryForever(c) == FALSE

\* dialRetry's 5 s deadline: "daemon did not start".  A daemon takes longer
\* than that to start only when "slow" is among the faults.
RetryDeadline(c) ==
  /\ cpc[c] = "retry"
  /\ \/ "slow" \in Faults
     \/ ~Reachable /\ \A d \in Daemons : dpc[d] \notin {"started", "bind"}
  /\ Finish(c, "error")
  /\ UNCHANGED <<sock, daemonVars>>

-----------------------------------------------------------------------------
(* Run.                                                                     *)

RunRemove(d) ==
  /\ dpc[d] = "started"
  /\ sock' = 0 /\ dpc' = [dpc EXCEPT ![d] = "bind"]
  /\ UNCHANGED <<ipc, long, backlog, serving, dlv, killed, clientVars>>

\* The address is in use when another daemon bound it after our Remove.
Listen(d) ==
  /\ dpc[d] = "bind"
  /\ \/ sock = 0 /\ sock' = d /\ dpc' = [dpc EXCEPT ![d] = "accept"]
     \/ sock # 0 /\ dpc' = [dpc EXCEPT ![d] = "dead"] /\ UNCHANGED sock
  /\ UNCHANGED <<ipc, long, backlog, serving, dlv, killed, clientVars>>

\* Accept, then handle up to the decoded request; touch.
Accept(d) ==
  /\ dpc[d] = "accept" /\ backlog[d] # << >>
  /\ serving' = [serving EXCEPT ![d] = Head(backlog[d])]
  /\ backlog' = [backlog EXCEPT ![d] = Tail(@)]
  /\ long' = [long EXCEPT ![d] = FALSE]
  /\ dpc' = [dpc EXCEPT ![d] = "handle"]
  /\ UNCHANGED <<sock, ipc, dlv, killed, clientVars>>

Kind(d) == req[serving[d]]

\* stopSession takes the session out of Daemon.sess and unlocks; a launch whose
\* breakpoint is refused calls it too.
StopSession(d) ==
  /\ \/ dpc[d] = "handle" /\ Kind(d) \in {"launch", "stop", "down"}
     \/ dpc[d] = "answer" /\ Kind(d) = "launch"
     \/ dpc[d] = "unwind"
  /\ dlv[d] = "session"
  /\ dlv' = [dlv EXCEPT ![d] = "closing"]
  /\ UNCHANGED <<sock, dpc, ipc, long, backlog, serving, killed, clientVars>>

\* Session.close, outside the mutex: Detach, Close and, last, Kill.
CloseSession(d) ==
  /\ dlv[d] = "closing"
  /\ dlv' = [dlv EXCEPT ![d] = "none"]
  /\ UNCHANGED <<sock, dpc, ipc, long, backlog, serving, killed, clientVars>>

\* stopSession has returned, or found no session: also one that the idle
\* goroutine has taken out and not yet closed.
NoSession(d) == dlv[d] = "none"

\* cmdLaunch: after stopSession, newSession spawns dlv.
LaunchSpawns(d) ==
  /\ dpc[d] = "handle" /\ Kind(d) = "launch" /\ NoSession(d)
  /\ dlv' = [dlv EXCEPT ![d] = "starting"]
  /\ dpc' = [dpc EXCEPT ![d] = "launching"]
  /\ UNCHANGED <<sock, ipc, long, backlog, serving, killed, clientVars>>

\* Variant for mutation: newSession fails and leaves its dlv to nobody.
LaunchLeaks(d) ==
  /\ dpc[d] = "launching"
  /\ \E s \in {"session", "leaked"} : dlv' = [dlv EXCEPT ![d] = s]
  /\ dpc' = [dpc EXCEPT ![d] = "answer"]
  /\ UNCHANGED <<sock, ipc, long, backlog, serving, killed, clientVars>>

\* setSession, or newSession fails and kills dlv.
LaunchEnds(d) ==
  /\ dpc[d] = "launching"
  /\ \E s \in {"session", "none"} : dlv' = [dlv EXCEPT ![d] = s]
  /\ dpc' = [dpc EXCEPT ![d] = "answer"]
  /\ UNCHANGED <<sock, ipc, long, backlog, serving, killed, clientVars>>

\* Any other command runs to its end; "stop" has its stopSession behind it.
Dispatch(d) ==
  /\ dpc[d] = "handle"
  /\ Kind(d) = "cmd" \/ (Kind(d) = "stop" /\ NoSession(d))
  /\ dpc' = [dpc EXCEPT ![d] = "answer"]
  /\ UNCHANGED <<sock, ipc, long, backlog, serving, dlv, killed, clientVars>>

\* Variant for mutation: no response, and the connection stays open.
AnswerForgotten(d) ==
  /\ dpc[d] = "answer"
  /\ serving' = [serving EXCEPT ![d] = 0]
  /\ dpc' = [dpc EXCEPT ![d] = "accept"]
  /\ UNCHANGED <<sock, ipc, long, backlog, dlv, killed, clientVars>>

\* touch, then the response; stopSession of a launch that failed has returned.
Answer(d) ==
  /\ dpc[d] = "answer" /\ dlv[d] # "closing"
  /\ long' = [long EXCEPT ![d] = FALSE]
  /\ Finish(serving[d], "reply")
  /\ serving' = [serving EXCEPT ![d] = 0]
  /\ dpc' = [dpc EXCEPT ![d] = "accept"]
  /\ UNCHANGED <<sock, ipc, backlog, dlv, killed>>

\* "pause" takes no lock and is answered without a second touch.
HandlePause(d) ==
  /\ dpc[d] = "handle" /\ Kind(d) = "pause"
  /\ Finish(serving[d], "reply")
  /\ serving' = [serving EXCEPT ![d] = 0]
  /\ dpc' = [dpc EXCEPT ![d] = "accept"]
  /\ UNCHANGED <<sock, ipc, long, backlog, dlv, killed>>

\* Variant for mutation: handle recovers, and the daemon goes on.
PanicRecovered(d) ==
  /\ dpc[d] = "handle" /\ Kind(d) = "pause" /\ dlv[d] = "session"
  /\ Finish(serving[d], "error")
  /\ serving' = [serving EXCEPT ![d] = 0]
  /\ dpc' = [dpc EXCEPT ![d] = "accept"]
  /\ UNCHANGED <<sock, ipc, long, backlog, dlv, killed>>

\* renderStop panics (an exited target has no thread): handle closes the
\* connection and Run's deferred calls follow.
Panic(d) ==
  /\ dpc[d] = "handle" /\ Kind(d) = "pause" /\ dlv[d] = "session"
  /\ Finish(serving[d], "error")
  /\ serving' = [serving EXCEPT ![d] = 0]
  /\ dpc' = [dpc EXCEPT ![d] = "unwind"]
  /\ UNCHANGED <<sock, ipc, long, backlog, dlv, killed>>

\* "down": the response comes after handle's stopSession; then Run returns.
HandleDown(d) ==
  /\ dpc[d] = "handle" /\ Kind(d) = "down" /\ NoSession(d)
  /\ Finish(serving[d], "reply")
  /\ serving' = [serving EXCEPT ![d] = 0]
  /\ dpc' = [dpc EXCEPT ![d] = "unwind"]
  /\ UNCHANGED <<sock, ipc, long, backlog, dlv, killed>>

\* Variant for mutation: Run does not defer stopSession.
UnwindForgets(d) ==
  /\ dpc[d] = "unwind"
  /\ dpc' = [dpc EXCEPT ![d] = "unlink"]
  /\ UNCHANGED <<sock, ipc, long, backlog, serving, dlv, killed, clientVars>>

\* The deferred stopSession has returned; after "down" it found no session.
RunUnwind(d) ==
  /\ dpc[d] = "unwind" /\ NoSession(d)
  /\ dpc' = [dpc EXCEPT ![d] = "unlink"]
  /\ UNCHANGED <<sock, ipc, long, backlog, serving, dlv, killed, clientVars>>

\* The deferred os.Remove(sock): whatever listener the path names.
RunUnlink(d) ==
  /\ dpc[d] = "unlink"
  /\ sock' = 0 /\ dpc' = [dpc EXCEPT ![d] = "close"]
  /\ UNCHANGED <<ipc, long, backlog, serving, dlv, killed, clientVars>>

\* The connections a dying process holds: their clients read end of file.
Connected(d) == {c \in Clients : \/ serving[d] = c
                                 \/ \E i \in DOMAIN backlog[d] : backlog[d][i] = c}

\* The process ends with what it knew; a dlv of its own, in a process group of its
\* own, does not: neither Run's nor the one that the idle goroutine was closing.
Dies(d) ==
  /\ dpc' = [dpc EXCEPT ![d] = "dead"]
  /\ cpc' = [c \in Clients |-> IF c \in Connected(d) THEN "idle" ELSE cpc[c]]
  /\ req' = [c \in Clients |-> IF c \in Connected(d) THEN "none" ELSE req[c]]
  /\ res' = [c \in Clients |-> IF c \in Connected(d) THEN "error" ELSE res[c]]
  /\ backlog' = [backlog EXCEPT ![d] = << >>]
  /\ serving' = [serving EXCEPT ![d] = 0]
  /\ dlv' = [dlv EXCEPT ![d] = IF @ = "none" /\ ipc[d] # "closing" THEN "none" ELSE "orphan"]
  /\ ipc' = [ipc EXCEPT ![d] = "sleep"] /\ long' = [long EXCEPT ![d] = FALSE]

\* The deferred ln.Close, which unlinks the path again, and the exit.
RunClose(d) ==
  /\ dpc[d] = "close"
  /\ sock' = 0
  /\ Dies(d) /\ UNCHANGED killed

\* SIGKILL, power, memory: nothing deferred runs, the path stays.
Killed(d) ==
  /\ dpc[d] \in Listening
  /\ Dies(d) /\ killed' = [killed EXCEPT ![d] = TRUE]
  /\ UNCHANGED sock

-----------------------------------------------------------------------------
(* The idle goroutine.  It takes only activeMu, never serialMu.             *)

\* Thirty minutes pass without a touch, also while a command runs; newSession
\* takes two minutes at most.
Elapse(d) ==
  /\ dpc[d] \in Listening \ {"launching"} /\ ipc[d] = "sleep" /\ ~long[d]
  /\ long' = [long EXCEPT ![d] = TRUE]
  /\ UNCHANGED <<sock, dpc, ipc, backlog, serving, dlv, killed, clientVars>>

IdleDecides(d) ==
  /\ dpc[d] \in Listening /\ ipc[d] = "sleep" /\ long[d]
  /\ ipc' = [ipc EXCEPT ![d] = "decided"] /\ long' = [long EXCEPT ![d] = FALSE]
  /\ UNCHANGED <<sock, dpc, backlog, serving, dlv, killed, clientVars>>

\* Its stopSession unlocks before close, as Run's does: Run can meanwhile find no
\* session, start another one, or end the process.
IdleStops(d) ==
  /\ dpc[d] \in Listening /\ ipc[d] = "decided"
  /\ \/ /\ dlv[d] = "session" /\ dlv' = [dlv EXCEPT ![d] = "none"]
        /\ ipc' = [ipc EXCEPT ![d] = "closing"]
     \/ dlv[d] # "session" /\ ipc' = [ipc EXCEPT ![d] = "stopped"] /\ UNCHANGED dlv
  /\ UNCHANGED <<sock, dpc, long, backlog, serving, killed, clientVars>>

\* Session.close in the idle goroutine.
IdleCloses(d) ==
  /\ dpc[d] \in Listening /\ ipc[d] = "closing"
  /\ ipc' = [ipc EXCEPT ![d] = "stopped"]
  /\ UNCHANGED <<sock, dpc, long, backlog, serving, dlv, killed, clientVars>>

\* Variant for mutation: the idle path leaves the socket behind.
IdleKeepsSocket(d) ==
  /\ dpc[d] \in Listening /\ ipc[d] = "stopped"
  /\ ipc' = [ipc EXCEPT ![d] = "removed"]
  /\ UNCHANGED <<sock, dpc, long, backlog, serving, dlv, killed, clientVars>>

IdleRemoves(d) ==
  /\ dpc[d] \in Listening /\ ipc[d] = "stopped"
  /\ sock' = 0 /\ ipc' = [ipc EXCEPT ![d] = "removed"]
  /\ UNCHANGED <<dpc, long, backlog, serving, dlv, killed, clientVars>>

\* os.Exit(0): Run's deferred calls are skipped.
IdleExits(d) ==
  /\ dpc[d] \in Listening /\ ipc[d] = "removed"
  /\ Dies(d) /\ UNCHANGED <<sock, killed>>

-----------------------------------------------------------------------------
ClientStep(c) == \/ Connect(c) \/ DialFails(c) \/ SpawnRemove(c)
                 \/ SpawnExec(c) \/ RetryDeadline(c)

\* Every step of Run but those that may wait for the target.
Serve(d) == \/ RunRemove(d) \/ Listen(d) \/ Accept(d)
            \/ LaunchSpawns(d) \/ LaunchEnds(d) \/ Answer(d)
            \/ HandlePause(d) \/ HandleDown(d)
            \/ RunUnwind(d) \/ RunUnlink(d) \/ RunClose(d)

\* Those that may: a command that resumes it, and Detach while it runs.
RunStep(d) == Serve(d) \/ Dispatch(d) \/ StopSession(d) \/ CloseSession(d)

IdleStep(d) == \/ IdleDecides(d) \/ IdleStops(d) \/ IdleCloses(d)
               \/ IdleRemoves(d) \/ IdleExits(d)

Next ==
  \/ \E c \in Clients : ClientStep(c) \/ \E k \in Requests : Request(c, k)
  \/ \E d \in Daemons : RunStep(d)
  \/ "idle" \in Faults /\ \E d \in Daemons : Elapse(d) \/ IdleStep(d)
  \/ "panic" \in Faults /\ \E d \in Daemons : Panic(d)
  \/ "kill" \in Faults /\ \E d \in Daemons : Killed(d)

Spec == Init /\ [][Next]_vars

\* Processes are scheduled, a command that is dispatched returns, and so does close.
Fairness == /\ \A c \in Clients : WF_vars(ClientStep(c))
            /\ \A d \in Daemons : WF_vars(RunStep(d))

FairSpec == Spec /\ Fairness

\* As FairSpec, without the promise that a command which resumed the target
\* returns by itself: that is when somebody sends pause.  A launch also resumes it,
\* in Answer: BlockedSpec is for requests without one.
BlockedSpec == /\ Spec
               /\ \A c \in Clients : WF_vars(ClientStep(c))
               /\ \A d \in Daemons : WF_vars(Serve(d))

-----------------------------------------------------------------------------
(* Properties.                                                              *)

\* Daemons that have a session, or are about to.
Sessions == {d \in Daemons : dlv[d] \in {"starting", "session"}}

\* Every exit by "down", by a panic or by the idle goroutine leaves no path that
\* names the dead daemon, in whatever order their removals, those of clients and
\* those of other daemons come: a dead socket means that a daemon was killed.
DeadSocketMeansKill ==
  \A d \in Daemons : sock = d /\ dpc[d] = "dead" => killed[d]

\* A client waits if and only if exactly one daemon holds its connection, also
\* while daemons die with connections in their queue: no request is handled
\* twice and no client is left waiting for a connection nobody has.
OneHolder ==
  \A c \in Clients :
    LET held == {d \in Daemons : c \in Connected(d)}
    IN IF cpc[c] = "wait" THEN Cardinality(held) = 1 ELSE held = {}

\* A daemon that ends by "down" or by a panic leaves no dlv behind, whatever was
\* launched, idle or refused before.  The one exception is in the code: while its
\* idle goroutine ends the session too, Run finds none and the process exits.
NoDlvLeft ==
  [][\A d \in Daemons :
       /\ dpc[d] # "dead" /\ dpc'[d] = "dead" /\ ~killed'[d]
       /\ ipc[d] # "closing" /\ (ipc[d] = "removed" => dpc[d] = "close")
       => dlv'[d] = "none"]_vars

\* README.md:48: "One paused process per project is held open between calls".
OneSession == Cardinality(Sessions) <= 1

\* README.md:48: "state survives across commands": a daemon that has a session
\* and is not shutting down is the one that the path leads to.
SessionReachable ==
  \A d \in Daemons :
    dlv[d] = "session" /\ dpc[d] = "accept" /\ ipc[d] = "sleep" => sock = d

\* What a client may rely on (RemoteCalls): its request is executed at most once,
\* by one daemon, one at a time; "stop" and "down" are answered when Daemon.sess is
\* nil, though the idle goroutine may still be closing what it held; and a request
\* that was begun gets an error only from a daemon that ends.  Which daemon that
\* is, and by which path, is no concern of the client.
Ended == {d \in Daemons : dpc[d] \in {"unwind", "unlink", "close", "dead"}}

Calls == INSTANCE RemoteCalls WITH Servers <- Daemons, asked <- req, told <- res,
           at <- serving, ended <- Ended, sessions <- Sessions

ImplementsCalls == Calls!Spec

\* Every request ends with a response or an error, whichever daemon it met.
RequestsEnd == \A c \in Clients : (cpc[c] # "idle") ~> (cpc[c] = "idle")

\* skill/go-debugger/SKILL.md:64: "gdbg pause # interrupt a running program",
\* and daemon.go:123: pause need not wait for the command that it interrupts.
PauseGetsThrough ==
  \A c \in Clients :
    (cpc[c] = "wait" /\ req[c] = "pause") ~> ~(cpc[c] = "wait" /\ req[c] = "pause")

-----------------------------------------------------------------------------
(* The inductive invariants behind the properties above (LifecycleProofs).  *)

Alive(d) == dpc[d] \notin {"none", "dead"}

\* The path names a listener, or one that ended; a listener whose idle goroutine
\* has removed the path never gets it back.
Paths ==
  /\ sock # 0 => dpc[sock] \in Listening \cup {"dead"}
  /\ \A d \in Daemons : /\ ipc[d] = "removed" => sock # d
                        /\ dpc[d] \notin Listening => ipc[d] = "sleep"

\* Where a daemon's dlv can be while Run is where it is.
Owned ==
  \A d \in Daemons :
    /\ dlv[d] = "starting" <=> dpc[d] = "launching"
    /\ dlv[d] = "session" => dpc[d] \in Listening \ {"unlink", "close"}
    /\ dlv[d] = "closing" => dpc[d] \in {"handle", "answer", "unwind"}
    /\ dlv[d] = "orphan" => dpc[d] = "dead"

\* Place 0 of a daemon is the connection in handle, the others are its queue.
Places(d) == 0 .. Len(backlog[d])
Holder(d, i) == IF i = 0 THEN serving[d] ELSE backlog[d][i]

\* Which places of a daemon can be taken.
Room ==
  \A d \in Daemons : /\ dpc[d] \in {"handle", "launching", "answer"} <=> serving[d] # 0
                     /\ dpc[d] \notin Listening => backlog[d] = << >>

\* Every waiting client is in one place, and nobody else is in any.
Held ==
  /\ \A c \in Clients :
       cpc[c] = "wait" => \E d \in Daemons : \E i \in Places(d) : Holder(d, i) = c
  /\ \A d \in Daemons : \A i \in Places(d) :
       Holder(d, i) # 0 => cpc[Holder(d, i)] = "wait"
  /\ \A d, e \in Daemons : \A i \in Places(d), j \in Places(e) :
       Holder(d, i) = Holder(e, j) /\ Holder(d, i) # 0 => d = e /\ i = j

\* A client has a request exactly while Send has not returned; dlv is started for a
\* launch, so nothing brings a session back before "stop" is answered; and handle
\* ends a session only for a request that asks for it.
Answered ==
  /\ \A c \in Clients : cpc[c] = "idle" <=> req[c] = "none"
  /\ \A d \in Daemons :
       /\ dpc[d] = "launching" => Kind(d) = "launch"
       /\ dpc[d] = "handle" /\ dlv[d] = "closing" => Kind(d) \in {"launch", "stop", "down"}
       /\ dpc[d] = "answer" => /\ Kind(d) \in {"launch", "cmd", "stop"}
                               /\ Kind(d) = "stop" => d \notin Sessions

IInv == /\ TypeOK /\ DeadSocketMeansKill
        /\ Paths /\ Owned /\ Room /\ Held /\ Answered

\* With one client that never sends "down", and no fault but kills: a daemon that
\* lives is the only one, has the path as soon as it listens, and is on its way
\* only while the client that started it retries.
Alone ==
  /\ \A d, e \in Daemons : Alive(d) /\ Alive(e) => d = e
  /\ \A d \in Daemons :
       /\ dpc[d] \in Listening => sock = d
       /\ dpc[d] \notin {"unwind", "unlink", "close"} /\ ipc[d] = "sleep"
       /\ dpc[d] \in {"started", "bind"} => \A c \in Clients : cpc[c] = "retry"
       /\ Alive(d) => \A c \in Clients : cpc[c] \notin {"spawn", "exec"}
  /\ \A c \in Clients : req[c] # "down"
=============================================================================
