-------------------------- MODULE LifecycleProofs ---------------------------
(***************************************************************************)
(* Theorems about Lifecycle, for every set of clients, every number of     *)
(* daemons and every set of faults.                                        *)
(***************************************************************************)
EXTENDS Lifecycle, FiniteSetTheorems, SequenceTheorems, TLAPS

-----------------------------------------------------------------------------
(* Type correctness.                                                        *)

LEMMA InitTypes == Init => TypeOK
<1> SUFFICES ASSUME Init PROVE TypeOK
  OBVIOUS
<1>1. \A d \in Daemons : << >> \in Seq(Clients)
  OBVIOUS
<1> QED BY <1>1, MaxDaemonsAssumption DEF Init, TypeOK, RunStates, IdleStates, DlvStates

LEMMA ClientTypes ==
  ASSUME TypeOK, NEW c \in Clients, ClientStep(c) \/ \E k \in Requests : Request(c, k)
  PROVE  TypeOK'
<1> USE DEF TypeOK, daemonVars
<1>1. CASE Connect(c)
  <2>1. sock \in Daemons
    BY <1>1, MaxDaemonsAssumption DEF Connect, Reachable, Daemons
  <2>2. Append(backlog[sock], c) \in Seq(Clients)
    BY <2>1
  <2> QED BY <1>1, <2>1, <2>2 DEF Connect
<1>2. CASE DialFails(c)
  BY <1>2 DEF DialFails, Finish
<1>3. CASE SpawnRemove(c)
  BY <1>3, MaxDaemonsAssumption DEF SpawnRemove
<1>4. CASE SpawnExec(c)
  <2>1. dpc' = dpc \/ \E d \in Daemons : dpc' = [dpc EXCEPT ![d] = "started"]
    BY <1>4 DEF SpawnExec
  <2>2. dpc' \in [Daemons -> RunStates]
    BY <2>1 DEF RunStates
  <2>3. \/ Finish(c, "error")
        \/ cpc' = [cpc EXCEPT ![c] = "retry"] /\ UNCHANGED <<req, res>>
    BY <1>4 DEF SpawnExec
  <2>4. /\ cpc' \in [Clients -> {"idle", "dial", "spawn", "exec", "retry", "wait"}]
        /\ req' \in [Clients -> {"none", "launch", "cmd", "stop", "pause", "down"}]
        /\ res' \in [Clients -> {"none", "reply", "error"}]
    BY <2>3 DEF Finish
  <2>5. UNCHANGED <<sock, ipc, long, backlog, serving, dlv, killed>>
    BY <1>4 DEF SpawnExec
  <2> QED BY <2>2, <2>4, <2>5
<1>5. CASE RetryDeadline(c)
  BY <1>5 DEF RetryDeadline, Finish
<1>6. ASSUME NEW k \in Requests, Request(c, k) PROVE TypeOK'
  BY <1>6, RequestsAssumption DEF Request
<1> QED BY <1>1, <1>2, <1>3, <1>4, <1>5, <1>6 DEF ClientStep

LEMMA DiesTypes ==
  ASSUME TypeOK, NEW d \in Daemons, Dies(d), sock' \in {0, sock},
         killed' \in [Daemons -> BOOLEAN]
  PROVE  TypeOK'
<1> USE DEF TypeOK, Dies
<1>1. dpc' \in [Daemons -> RunStates] /\ ipc' \in [Daemons -> IdleStates]
      /\ long' \in [Daemons -> BOOLEAN]
  BY DEF RunStates, IdleStates
<1>2. /\ cpc' \in [Clients -> {"idle", "dial", "spawn", "exec", "retry", "wait"}]
      /\ req' \in [Clients -> {"none", "launch", "cmd", "stop", "pause", "down"}]
      /\ res' \in [Clients -> {"none", "reply", "error"}]
  OBVIOUS
<1>3. backlog' \in [Daemons -> Seq(Clients)] /\ serving' \in [Daemons -> Clients \cup {0}]
  OBVIOUS
<1>4. dlv' \in [Daemons -> DlvStates]
  BY DEF DlvStates
<1>5. sock' \in 0 .. MaxDaemons
  BY MaxDaemonsAssumption
<1> QED BY <1>1, <1>2, <1>3, <1>4, <1>5

\* The steps of Run and of the idle goroutine that leave clients and queues alone.
QuietStep(d) ==
  \/ RunRemove(d) \/ Listen(d) \/ StopSession(d) \/ CloseSession(d)
  \/ LaunchSpawns(d) \/ LaunchEnds(d) \/ Dispatch(d) \/ RunUnwind(d) \/ RunUnlink(d)
  \/ Elapse(d) \/ IdleDecides(d) \/ IdleStops(d) \/ IdleCloses(d) \/ IdleRemoves(d)

\* Those that end a request, and those that end the process.
AnswerStep(d) == Answer(d) \/ HandlePause(d) \/ Panic(d) \/ HandleDown(d)
DeathStep(d) == RunClose(d) \/ Killed(d) \/ IdleExits(d)

DaemonStep(d) == QuietStep(d) \/ Accept(d) \/ AnswerStep(d) \/ DeathStep(d)

LEMMA StepCases ==
  ASSUME Next
  PROVE  \/ \E c \in Clients : ClientStep(c) \/ \E k \in Requests : Request(c, k)
         \/ \E d \in Daemons : DaemonStep(d)
BY DEF Next, RunStep, Serve, IdleStep, DaemonStep, QuietStep, AnswerStep, DeathStep

LEMMA DaemonTypes ==
  ASSUME TypeOK, NEW d \in Daemons, DaemonStep(d)
  PROVE  TypeOK'
<1> USE DEF TypeOK, clientVars
<1>1. d \in 0 .. MaxDaemons
  BY MaxDaemonsAssumption DEF Daemons
<1>3. CASE QuietStep(d)
  <2>1. sock' \in {0, d, sock}
    BY <1>3 DEF QuietStep, RunRemove, Listen, StopSession, CloseSession, LaunchSpawns,
                LaunchEnds, Dispatch, RunUnwind, RunUnlink, Elapse, IdleDecides, IdleStops,
                IdleCloses, IdleRemoves
  <2>2. dpc' \in [Daemons -> RunStates]
    <3>1. dpc' = dpc \/ \E s \in RunStates : dpc' = [dpc EXCEPT ![d] = s]
      BY <1>3 DEF QuietStep, RunRemove, Listen, StopSession, CloseSession, LaunchSpawns,
                  LaunchEnds, Dispatch, RunUnwind, RunUnlink, Elapse, IdleDecides,
                  IdleStops, IdleCloses, IdleRemoves, RunStates
    <3> QED BY <3>1
  <2>3. /\ ipc' \in [Daemons -> IdleStates]
        /\ long' \in [Daemons -> BOOLEAN]
    <3>1. \/ ipc' = ipc
          \/ \E s \in {"decided", "closing", "stopped", "removed"} :
               ipc' = [ipc EXCEPT ![d] = s]
      BY <1>3 DEF QuietStep, RunRemove, Listen, StopSession, CloseSession, LaunchSpawns,
                  LaunchEnds, Dispatch, RunUnwind, RunUnlink, Elapse, IdleDecides,
                  IdleStops, IdleCloses, IdleRemoves
    <3>2. long' = long \/ \E b \in BOOLEAN : long' = [long EXCEPT ![d] = b]
      BY <1>3 DEF QuietStep, RunRemove, Listen, StopSession, CloseSession, LaunchSpawns,
                  LaunchEnds, Dispatch, RunUnwind, RunUnlink, Elapse, IdleDecides,
                  IdleStops, IdleCloses, IdleRemoves
    <3>3. ipc' \in [Daemons -> IdleStates]
      BY <3>1 DEF IdleStates
    <3>4. long' \in [Daemons -> BOOLEAN]
      BY <3>2
    <3> QED BY <3>3, <3>4
  <2>4. dlv' \in [Daemons -> DlvStates]
    <3>1. \/ dlv' = dlv
          \/ \E s \in {"starting", "session", "closing", "none"} :
               dlv' = [dlv EXCEPT ![d] = s]
      BY <1>3 DEF QuietStep, RunRemove, Listen, StopSession, CloseSession, LaunchSpawns,
                  LaunchEnds, Dispatch, RunUnwind, RunUnlink, Elapse, IdleDecides,
                  IdleStops, IdleCloses, IdleRemoves
    <3> QED BY <3>1 DEF DlvStates
  <2>5. UNCHANGED <<backlog, serving, killed, cpc, req, res>>
    BY <1>3 DEF QuietStep, RunRemove, Listen, StopSession, CloseSession, LaunchSpawns,
                LaunchEnds, Dispatch, RunUnwind, RunUnlink, Elapse, IdleDecides, IdleStops,
                IdleCloses, IdleRemoves
  <2> QED BY <1>1, <2>1, <2>2, <2>3, <2>4, <2>5, MaxDaemonsAssumption
<1>4. CASE Accept(d)
  <2>1. Head(backlog[d]) \in Clients /\ Tail(backlog[d]) \in Seq(Clients)
    BY <1>4 DEF Accept
  <2> QED BY <1>4, <2>1 DEF Accept, RunStates
<1>5. CASE AnswerStep(d)
  <2>1. /\ \E s \in {"accept", "unwind"} : dpc' = [dpc EXCEPT ![d] = s]
        /\ long' \in {long, [long EXCEPT ![d] = FALSE]}
        /\ UNCHANGED <<sock, ipc, backlog, dlv, killed>>
    BY <1>5 DEF AnswerStep, Answer, HandlePause, Panic, HandleDown
  <2>6. dpc' \in [Daemons -> RunStates]
    <3>1. PICK s \in {"accept", "unwind"} : dpc' = [dpc EXCEPT ![d] = s]
      BY <2>1
    <3> QED BY <3>1 DEF RunStates
  <2>7. long' \in [Daemons -> BOOLEAN]
    BY <2>1
  <2>2. PICK r \in {"reply", "error"} : Finish(serving[d], r)
    BY <1>5 DEF AnswerStep, Answer, HandlePause, Panic, HandleDown
  <2>3. serving' = [serving EXCEPT ![d] = 0]
    BY <1>5 DEF AnswerStep, Answer, HandlePause, Panic, HandleDown
  <2>4. /\ cpc' \in [Clients -> {"idle", "dial", "spawn", "exec", "retry", "wait"}]
        /\ req' \in [Clients -> {"none", "launch", "cmd", "stop", "pause", "down"}]
        /\ res' \in [Clients -> {"none", "reply", "error"}]
    BY <2>2 DEF Finish
  <2>5. serving' \in [Daemons -> Clients \cup {0}]
    BY <2>3
  <2> QED BY <2>1, <2>4, <2>5, <2>6, <2>7
<1>6. CASE DeathStep(d)
  <2>1. Dies(d) /\ sock' \in {0, sock} /\ killed' \in [Daemons -> BOOLEAN]
    BY <1>6 DEF DeathStep, RunClose, Killed, IdleExits
  <2> QED BY <2>1, DiesTypes
<1> QED BY <1>3, <1>4, <1>5, <1>6 DEF DaemonStep

-----------------------------------------------------------------------------
(* The path, and the dlv of each daemon.                                    *)

\* What the invariants below say of the process side.
Process == DeadSocketMeansKill /\ Paths /\ Owned

\* A client removes the path or starts a daemon; nothing else of it matters here.
LEMMA ClientProcess ==
  ASSUME TypeOK, Process, NEW c \in Clients,
         ClientStep(c) \/ \E k \in Requests : Request(c, k)
  PROVE  Process'
<1> USE DEF Process, DeadSocketMeansKill, Paths, Owned, TypeOK,
            daemonVars, Listening, RunStates
<1>0. 0 \notin Daemons
  BY DEF Daemons
<1>1. UNCHANGED <<ipc, dlv, killed>> /\ sock' \in {0, sock}
  BY DEF ClientStep, Connect, DialFails, SpawnRemove, SpawnExec, RetryDeadline, Request
<1>2. CASE dpc' = dpc
  BY <1>0, <1>1, <1>2
<1>3. CASE SpawnExec(c) /\ dpc' # dpc
  <2>1. PICK d \in Daemons : dpc[d] = "none" /\ dpc' = [dpc EXCEPT ![d] = "started"]
    BY <1>3 DEF SpawnExec
  <2>2. sock # d
    BY <2>1, MaxDaemonsAssumption DEF Daemons
  <2>3. UNCHANGED <<sock, ipc, dlv, killed>>
    BY <1>3 DEF SpawnExec
  <2>4. dlv[d] \notin {"starting", "session", "closing", "orphan"} /\ ipc[d] = "sleep"
    BY <2>1
  <2>5. Owned'
    BY <2>1, <2>3, <2>4
  <2>6. DeadSocketMeansKill' /\ Paths'
    BY <1>0, <2>1, <2>2, <2>3, <2>4
  <2> QED BY <2>5, <2>6
<1> QED BY <1>2, <1>3 DEF ClientStep, Connect, DialFails, SpawnRemove, RetryDeadline,
                          Request

LEMMA DaemonProcess ==
  ASSUME TypeOK, Process, Answered, NEW d \in Daemons, DaemonStep(d)
  PROVE  Process'
<1> USE DEF Process, DeadSocketMeansKill, Paths, Owned, TypeOK,
            Listening, RunStates, clientVars
<1>0. 0 \notin Daemons
  BY DEF Daemons
<1>1. CASE RunRemove(d)
  <2>1. /\ sock' = 0 /\ dpc' = [dpc EXCEPT ![d] = "bind"] /\ UNCHANGED <<ipc, dlv, killed>>
        /\ dpc[d] = "started" /\ ipc[d] = "sleep"
    BY <1>1 DEF RunRemove
  <2>2. DeadSocketMeansKill' /\ Paths'
    BY <1>0, <2>1
  <2>3. Owned'
    BY <2>1
  <2> QED BY <2>2, <2>3
<1>2. CASE Listen(d)
  <2>1. dpc[d] = "bind" /\ UNCHANGED <<ipc, dlv, killed>>
    BY <1>2 DEF Listen
  <2>4. ipc[d] = "sleep" /\ dlv[d] = "none"
    BY <2>1 DEF DlvStates
  <2>2. CASE sock' = d /\ dpc' = [dpc EXCEPT ![d] = "accept"]
    BY <1>0, <2>1, <2>2, <2>4
  <2>3. CASE sock # 0 /\ sock' = sock /\ dpc' = [dpc EXCEPT ![d] = "dead"]
    BY <1>0, <2>1, <2>3, <2>4
  <2> QED BY <1>2, <2>2, <2>3 DEF Listen
<1>3. CASE LaunchSpawns(d)
  BY <1>3 DEF LaunchSpawns, NoSession
<1>4. CASE LaunchEnds(d)
  BY <1>4 DEF LaunchEnds
<1>5. CASE Dispatch(d)
  BY <1>5 DEF Dispatch
<1>6. CASE RunUnwind(d)
  BY <1>6 DEF RunUnwind, NoSession
<1>7. CASE RunUnlink(d)
  <2>1. /\ sock' = 0 /\ dpc' = [dpc EXCEPT ![d] = "close"] /\ UNCHANGED <<ipc, dlv, killed>>
        /\ dpc[d] = "unlink"
    BY <1>7 DEF RunUnlink
  <2>2. DeadSocketMeansKill' /\ Paths'
    BY <1>0, <2>1
  <2>3. Owned'
    BY <2>1
  <2> QED BY <2>2, <2>3
<1>8. CASE Elapse(d)
  BY <1>8 DEF Elapse
<1>9. CASE IdleDecides(d)
  BY <1>9 DEF IdleDecides
<1>10. CASE IdleStops(d)
  BY <1>10 DEF IdleStops
<1>11. CASE IdleRemoves(d)
  BY <1>0, <1>11 DEF IdleRemoves
<1>12. CASE Accept(d)
  BY <1>12 DEF Accept
<1>13. CASE Answer(d)
  BY <1>13 DEF Answer
<1>14. CASE HandlePause(d)
  <2>1. dlv[d] # "closing"
    BY <1>14 DEF HandlePause, Answered
  <2> QED BY <1>14, <2>1 DEF HandlePause
<1>15. CASE Panic(d)
  BY <1>15 DEF Panic
<1>16. CASE HandleDown(d)
  BY <1>16 DEF HandleDown, NoSession
<1>17. CASE DeathStep(d)
  <2>1. /\ dpc' = [dpc EXCEPT ![d] = "dead"] /\ ipc' = [ipc EXCEPT ![d] = "sleep"]
        /\ \E s \in {"none", "orphan"} : dlv' = [dlv EXCEPT ![d] = s]
    BY <1>17 DEF DeathStep, RunClose, Killed, IdleExits, Dies
  <2>2. \/ sock' = 0 /\ killed' = killed
        \/ sock' = sock /\ killed' = [killed EXCEPT ![d] = TRUE]
        \/ sock' = sock /\ killed' = killed /\ ipc[d] = "removed"
    BY <1>17 DEF DeathStep, RunClose, Killed, IdleExits
  <2>3. DeadSocketMeansKill' /\ Paths'
    BY <1>0, <2>1, <2>2
  <2>4. Owned'
    BY <2>1
  <2> QED BY <2>3, <2>4
<1>18. CASE StopSession(d)
  BY <1>18 DEF StopSession
<1>19. CASE CloseSession(d)
  BY <1>19 DEF CloseSession
<1>20. CASE IdleCloses(d)
  BY <1>20 DEF IdleCloses
<1> QED BY <1>1, <1>2, <1>3, <1>4, <1>5, <1>6, <1>7, <1>8, <1>9, <1>10, <1>11, <1>12,
           <1>13, <1>14, <1>15, <1>16, <1>17, <1>18, <1>19, <1>20
        DEF DaemonStep, QuietStep, AnswerStep

-----------------------------------------------------------------------------
(* Connections.                                                             *)

LEMMA ClientRoom ==
  ASSUME TypeOK, Room, NEW c \in Clients,
         ClientStep(c) \/ \E k \in Requests : Request(c, k)
  PROVE  Room'
<1> USE DEF Room, TypeOK, daemonVars, Listening, RunStates
<1>1. serving' = serving
  BY DEF ClientStep, Connect, DialFails, SpawnRemove, SpawnExec, RetryDeadline, Request
<1>2. CASE Connect(c)
  <2>1. /\ dpc[sock] \in Listening /\ dpc' = dpc
        /\ backlog' = [backlog EXCEPT ![sock] = Append(@, c)]
    BY <1>2 DEF Connect, Reachable
  <2> QED BY <1>1, <2>1
<1>3. CASE SpawnExec(c)
  <2>1. /\ backlog' = backlog
        /\ dpc' = dpc \/ \E d \in Daemons : /\ dpc[d] = "none"
                                            /\ dpc' = [dpc EXCEPT ![d] = "started"]
    BY <1>3 DEF SpawnExec
  <2> QED BY <1>1, <2>1
<1>4. CASE UNCHANGED <<dpc, backlog>>
  BY <1>1, <1>4
<1> QED BY <1>2, <1>3, <1>4 DEF ClientStep, DialFails, SpawnRemove, RetryDeadline, Request

LEMMA DaemonRoom ==
  ASSUME TypeOK, Room, NEW d \in Daemons, DaemonStep(d)
  PROVE  Room'
<1> USE DEF Room, TypeOK, Listening, RunStates
<1>1. CASE QuietStep(d)
  <2>1. UNCHANGED <<serving, backlog>>
    BY <1>1 DEF QuietStep, RunRemove, Listen, StopSession, CloseSession, LaunchSpawns,
                LaunchEnds, Dispatch, RunUnwind, RunUnlink, Elapse, IdleDecides, IdleStops,
                IdleCloses, IdleRemoves
  <2>2. \/ dpc' = dpc
        \/ \E s \in {"bind", "dead"} : /\ dpc[d] \in {"started", "bind"}
                                       /\ dpc' = [dpc EXCEPT ![d] = s]
        \/ dpc[d] = "bind" /\ dpc' = [dpc EXCEPT ![d] = "accept"]
        \/ \E s \in {"launching", "answer"} : /\ dpc[d] \in {"handle", "launching"}
                                              /\ dpc' = [dpc EXCEPT ![d] = s]
        \/ \E s \in {"unlink", "close"} : /\ dpc[d] \in {"unwind", "unlink"}
                                          /\ dpc' = [dpc EXCEPT ![d] = s]
    BY <1>1 DEF QuietStep, RunRemove, Listen, StopSession, CloseSession, LaunchSpawns,
                LaunchEnds, Dispatch, RunUnwind, RunUnlink, Elapse, IdleDecides, IdleStops,
                IdleCloses, IdleRemoves
  <2>3. ASSUME NEW e \in Daemons
        PROVE  /\ dpc'[e] \in {"handle", "launching", "answer"} <=> serving[e] # 0
               /\ dpc'[e] \notin Listening => backlog[e] = << >>
    <3>1. CASE e # d
      BY <2>2, <3>1
    <3>2. CASE e = d
      BY <2>2, <3>2
    <3> QED BY <3>1, <3>2
  <2> QED BY <2>1, <2>3
<1>2. CASE Accept(d)
  <2>1. Head(backlog[d]) # 0
    BY <1>2, ClientsAssumption DEF Accept
  <2> QED BY <1>2, <2>1 DEF Accept
<1>3. CASE AnswerStep(d)
  <2>1. /\ serving' = [serving EXCEPT ![d] = 0] /\ backlog' = backlog
        /\ dpc[d] \in {"handle", "answer"}
        /\ \E s \in {"accept", "unwind"} : dpc' = [dpc EXCEPT ![d] = s]
    BY <1>3 DEF AnswerStep, Answer, HandlePause, Panic, HandleDown
  <2> QED BY <2>1
<1>4. CASE DeathStep(d)
  <2>1. Dies(d)
    BY <1>4 DEF DeathStep, RunClose, Killed, IdleExits
  <2> QED BY <2>1 DEF Dies
<1> QED BY <1>1, <1>2, <1>3, <1>4 DEF DaemonStep

\* Steps that move no connection and start or end no waiting.
LEMMA HeldKept ==
  ASSUME Held, UNCHANGED <<serving, backlog>>,
         \A c \in Clients : cpc'[c] = "wait" <=> cpc[c] = "wait",
         TypeOK
  PROVE  Held'
<1>1. \A d \in Daemons : /\ Places(d)' = Places(d)
                         /\ \A i \in Places(d) : Holder(d, i)' = Holder(d, i)
  BY DEF Places, Holder
<1>2. \A d \in Daemons : \A i \in Places(d) : Holder(d, i) \in Clients \cup {0}
  BY DEF Places, Holder, TypeOK
<1>3. ASSUME NEW c \in Clients, cpc'[c] = "wait"
      PROVE  \E d \in Daemons : \E i \in Places(d)' : Holder(d, i)' = c
  BY <1>1, <1>3 DEF Held
<1>4. ASSUME NEW d \in Daemons, NEW i \in Places(d)', Holder(d, i)' # 0
      PROVE  cpc'[Holder(d, i)'] = "wait"
  BY <1>1, <1>2, <1>4 DEF Held
<1>5. ASSUME NEW d \in Daemons, NEW e \in Daemons, NEW i \in Places(d)',
             NEW j \in Places(e)', Holder(d, i)' = Holder(e, j)', Holder(d, i)' # 0
      PROVE  d = e /\ i = j
  BY <1>1, <1>5 DEF Held
<1> QED BY <1>3, <1>4, <1>5 DEF Held

LEMMA ConnectHeld ==
  ASSUME TypeOK, Held, NEW c \in Clients, Connect(c)
  PROVE  Held'
<1> USE DEF TypeOK, Places, Holder
<1>1. PICK s \in Daemons :
        /\ cpc[c] # "wait" /\ serving' = serving
        /\ cpc' = [cpc EXCEPT ![c] = "wait"]
        /\ backlog' = [backlog EXCEPT ![s] = Append(@, c)]
  <2>1. sock \in Daemons
    BY MaxDaemonsAssumption DEF Connect, Reachable, Daemons
  <2> QED BY <2>1 DEF Connect
<1>last. PICK last \in Nat \ {0} : last = Len(backlog[s]) + 1
  OBVIOUS
<1>2. /\ last \in Places(s)' /\ last \notin Places(s) /\ Holder(s, last)' = c
      /\ Places(s)' = Places(s) \cup {last}
      /\ \A i \in Places(s) : Holder(s, i)' = Holder(s, i)
  <2>1. /\ backlog[s] \in Seq(Clients)
        /\ backlog'[s] = Append(backlog[s], c)
    BY <1>1
  <2>2. /\ Len(backlog'[s]) = last /\ backlog'[s][last] = c /\ last # 0
        /\ Len(backlog[s]) \in Nat
        /\ \A i \in 1 .. Len(backlog[s]) : backlog'[s][i] = backlog[s][i]
    BY <1>last, <2>1
  <2> QED BY <1>1, <1>last, <2>2
<1>3. \A d \in Daemons \ {s} :
        Places(d)' = Places(d) /\ \A i \in Places(d) : Holder(d, i)' = Holder(d, i)
  BY <1>1
<1>4. \A d \in Daemons : \A i \in Places(d) : Holder(d, i) # c /\ Holder(d, i) \in Clients \cup {0}
  BY <1>1, ClientsAssumption DEF Held
<1> HIDE DEF Places, Holder
<1>5. ASSUME NEW k \in Clients, cpc'[k] = "wait"
      PROVE  \E d \in Daemons : \E i \in Places(d)' : Holder(d, i)' = k
  <2>1. CASE k = c
    BY <1>1, <1>2, <2>1
  <2>2. CASE k # c
    <3>1. PICK d \in Daemons : \E i \in Places(d) : Holder(d, i) = k
      BY <1>1, <1>5, <2>2 DEF Held
    <3> QED BY <1>2, <1>3, <3>1
  <2> QED BY <2>1, <2>2
<1>6. ASSUME NEW d \in Daemons, NEW i \in Places(d)', Holder(d, i)' # 0
      PROVE  cpc'[Holder(d, i)'] = "wait"
  <2>1. CASE d = s /\ i = last
    BY <1>1, <1>2, <2>1
  <2>2. CASE ~(d = s /\ i = last)
    <3>1. i \in Places(d) /\ Holder(d, i)' = Holder(d, i)
      BY <1>2, <1>3, <2>2
    <3> QED BY <1>1, <1>4, <1>6, <3>1 DEF Held
  <2> QED BY <2>1, <2>2
<1>7. ASSUME NEW d \in Daemons, NEW e \in Daemons, NEW i \in Places(d)',
             NEW j \in Places(e)', Holder(d, i)' = Holder(e, j)', Holder(d, i)' # 0
      PROVE  d = e /\ i = j
  <2>1. \/ d = s /\ i = last
        \/ i \in Places(d) /\ Holder(d, i)' = Holder(d, i)
    BY <1>2, <1>3
  <2>2. \/ e = s /\ j = last
        \/ j \in Places(e) /\ Holder(e, j)' = Holder(e, j)
    BY <1>2, <1>3
  <2> QED BY <1>2, <1>4, <1>7, <2>1, <2>2 DEF Held
<1> QED BY <1>5, <1>6, <1>7 DEF Held

LEMMA AcceptHeld ==
  ASSUME TypeOK, Room, Held, NEW d \in Daemons, Accept(d)
  PROVE  Held'
<1> USE DEF TypeOK, Places, Holder
<1>1. /\ serving[d] = 0 /\ cpc' = cpc /\ backlog[d] # << >>
      /\ serving' = [serving EXCEPT ![d] = Head(backlog[d])]
      /\ backlog' = [backlog EXCEPT ![d] = Tail(@)]
  BY DEF Accept, Room, clientVars
<1>2. /\ \A i \in Places(d)' : i + 1 \in Places(d) /\ Holder(d, i)' = Holder(d, i + 1)
      /\ Holder(d, 0) = 0
      /\ \A i \in Places(d) \ {0} : i - 1 \in Places(d)' /\ Holder(d, i - 1)' = Holder(d, i)
  <2>1. /\ backlog[d] \in Seq(Clients) /\ Len(backlog[d]) \in Nat \ {0}
        /\ serving'[d] = backlog[d][1] /\ Len(backlog'[d]) = Len(backlog[d]) - 1
        /\ \A i \in 1 .. Len(backlog[d]) - 1 : backlog'[d][i] = backlog[d][i + 1]
    BY <1>1
  <2> QED BY <1>1, <2>1
<1>3. \A e \in Daemons \ {d} :
        Places(e)' = Places(e) /\ \A i \in Places(e) : Holder(e, i)' = Holder(e, i)
  BY <1>1
<1>4. \A e \in Daemons : Places(e) \subseteq Int /\ Places(e)' \subseteq Int
  OBVIOUS
<1> HIDE DEF Places, Holder
<1>5. ASSUME NEW c \in Clients, cpc'[c] = "wait"
      PROVE  \E e \in Daemons : \E i \in Places(e)' : Holder(e, i)' = c
  <2>1. PICK e \in Daemons : \E i \in Places(e) : Holder(e, i) = c
    BY <1>1, <1>5 DEF Held
  <2>2. PICK i \in Places(e) : Holder(e, i) = c
    BY <2>1
  <2>3. CASE e = d
    <3>1. i # 0
      BY <1>2, <2>2, <2>3, ClientsAssumption
    <3> QED BY <1>2, <2>2, <2>3, <3>1
  <2> QED BY <1>3, <2>2, <2>3
\* The place from which a connection came to place i.
<1> DEFINE Before(e, i) == IF e = d THEN i + 1 ELSE i
<1>6. \A e \in Daemons : \A i \in Places(e)' :
        Before(e, i) \in Places(e) /\ Holder(e, i)' = Holder(e, Before(e, i))
  BY <1>2, <1>3
<1>7. ASSUME NEW e \in Daemons, NEW i \in Places(e)', Holder(e, i)' # 0
      PROVE  cpc'[Holder(e, i)'] = "wait"
  <2> HIDE DEF Before
  <2>1. Before(e, i) \in Places(e) /\ Holder(e, i)' = Holder(e, Before(e, i))
    BY <1>6
  <2>2. cpc[Holder(e, Before(e, i))] = "wait"
    BY <1>7, <2>1 DEF Held
  <2> QED BY <1>1, <2>1, <2>2
<1>8. ASSUME NEW e \in Daemons, NEW f \in Daemons, NEW i \in Places(e)',
             NEW j \in Places(f)', Holder(e, i)' = Holder(f, j)', Holder(e, i)' # 0
      PROVE  e = f /\ i = j
  <2>1. e = f /\ Before(e, i) = Before(f, j)
    BY <1>6, <1>8 DEF Held
  <2> QED BY <1>4, <2>1
<1> QED BY <1>5, <1>7, <1>8 DEF Held

\* Connections go and nothing else moves: those whose clients stop waiting.
LEMMA ReleaseHeld ==
  ASSUME TypeOK, Held, NEW d \in Daemons,
         \A e \in Daemons \ {d} : UNCHANGED <<serving[e], backlog[e]>>,
         /\ serving'[d] = 0
         /\ backlog'[d] = backlog[d] \/ backlog'[d] = << >>,
         \A c \in Clients :
           cpc'[c] = IF serving[d] = c
                          \/ (/\ backlog'[d] = << >>
                              /\ \E i \in DOMAIN backlog[d] : backlog[d][i] = c)
                     THEN "idle" ELSE cpc[c]
  PROVE  Held'
<1> USE DEF TypeOK, Places, Holder
<1>1. \A e \in Daemons : \A i \in Places(e)' :
        /\ i \in Places(e)
        /\ Holder(e, i)' # 0 => Holder(e, i)' = Holder(e, i)
  OBVIOUS
<1>2. \A e \in Daemons : \A i \in Places(e) :
        /\ Holder(e, i) \in Clients \cup {0}
        /\ e # d => i \in Places(e)' /\ Holder(e, i)' = Holder(e, i)
        /\ e = d /\ Holder(d, i) # 0 =>
             \/ cpc'[Holder(d, i)] = "idle"
             \/ i \in Places(d)' /\ Holder(d, i)' = Holder(d, i)
  <2> TAKE e \in Daemons
  <2> TAKE i \in Places(e)
  <2>1. Holder(e, i) \in Clients \cup {0}
    OBVIOUS
  <2>2. e # d => i \in Places(e)' /\ Holder(e, i)' = Holder(e, i)
    OBVIOUS
  <2>3. ASSUME e = d, i # 0, backlog'[d] = << >>, Holder(d, i) # 0
        PROVE  cpc'[Holder(d, i)] = "idle"
    <3>1. i \in DOMAIN backlog[d] /\ backlog[d][i] = Holder(d, i)
      BY <2>3
    <3> QED BY <2>1, <2>3, <3>1
  <2>4. e = d /\ i # 0 /\ backlog'[d] = backlog[d]
          => i \in Places(d)' /\ Holder(d, i)' = Holder(d, i)
    OBVIOUS
  <2>5. e = d /\ i = 0 /\ Holder(d, i) # 0 => cpc'[Holder(d, i)] = "idle"
    BY <2>1
  <2> QED BY <2>1, <2>2, <2>3, <2>4, <2>5
\* Whoever keeps a place goes on waiting.
<1>3. \A e \in Daemons : \A i \in Places(e)' :
        Holder(e, i)' # 0 =>
          /\ Holder(e, i) # serving[d]
          /\ backlog'[d] = << >> =>
               \A j \in DOMAIN backlog[d] : backlog[d][j] # Holder(e, i)
  <2> TAKE e \in Daemons
  <2> TAKE i \in Places(e)'
  <2> HAVE Holder(e, i)' # 0
  <2>1. Holder(e, i) # 0 /\ i \in Places(e)
    BY <1>1
  <2>2. e # d \/ (i # 0 /\ backlog'[d] = backlog[d])
    <3>1. e = d => i # 0
      OBVIOUS
    <3>2. ASSUME e = d, backlog'[d] = << >>
          PROVE  i = 0
      <4>1. Len(backlog'[d]) = 0
        BY <3>2
      <4>2. i \in 0 .. Len(backlog'[d])
        BY <3>2
      <4> QED BY <4>1, <4>2
    <3> QED BY <3>1, <3>2
  <2>3. \A j \in Places(d) : Holder(d, j) = Holder(e, i) => d = e /\ i = j
    BY <2>1 DEF Held
  <2>4. Holder(d, 0) = serving[d] /\ 0 \in Places(d)
    OBVIOUS
  <2>5. \A j \in DOMAIN backlog[d] : j \in Places(d) /\ Holder(d, j) = backlog[d][j]
    OBVIOUS
  <2>6. backlog'[d] = << >> => e # d \/ backlog[d] = << >>
    BY <2>2
  <2>7. backlog[d] = << >> => DOMAIN backlog[d] = {}
    OBVIOUS
  <2> HIDE DEF Places, Holder, TypeOK
  <2>8. Holder(e, i) # serving[d]
    BY <2>2, <2>3, <2>4
  <2>9. backlog'[d] = << >> => \A j \in DOMAIN backlog[d] : backlog[d][j] # Holder(e, i)
    BY <2>3, <2>5, <2>6, <2>7
  <2> QED BY <2>8, <2>9
<1> HIDE DEF Places, Holder
<1>4. ASSUME NEW c \in Clients, cpc'[c] = "wait"
      PROVE  \E e \in Daemons : \E i \in Places(e)' : Holder(e, i)' = c
  <2>1. cpc[c] = "wait"
    BY <1>4
  <2>2. PICK e \in Daemons : \E i \in Places(e) : Holder(e, i) = c
    BY <2>1 DEF Held
  <2>3. PICK i \in Places(e) : Holder(e, i) = c
    BY <2>2
  <2>4. c # 0
    BY ClientsAssumption
  <2>5. CASE e = d
    BY <1>2, <1>4, <2>3, <2>4, <2>5
  <2>6. CASE e # d
    BY <1>2, <2>3, <2>6
  <2> QED BY <2>5, <2>6
<1>5. ASSUME NEW e \in Daemons, NEW i \in Places(e)', Holder(e, i)' # 0
      PROVE  cpc'[Holder(e, i)'] = "wait"
  <2>1. Holder(e, i)' = Holder(e, i) /\ Holder(e, i) \in Clients /\ cpc[Holder(e, i)] = "wait"
    BY <1>1, <1>2, <1>5 DEF Held
  <2> QED BY <1>3, <1>5, <2>1
<1>6. ASSUME NEW e \in Daemons, NEW f \in Daemons, NEW i \in Places(e)',
             NEW j \in Places(f)', Holder(e, i)' = Holder(f, j)', Holder(e, i)' # 0
      PROVE  e = f /\ i = j
  BY <1>1, <1>6 DEF Held
<1> QED BY <1>4, <1>5, <1>6 DEF Held

\* Places, as the sets of Dies name them.
LEMMA ConnectedCases ==
  ASSUME TypeOK, NEW d \in Daemons, NEW c \in Clients
  PROVE  c \in Connected(d) <=> \E i \in Places(d) : Holder(d, i) = c
<1>1. DOMAIN backlog[d] = 1 .. Len(backlog[d]) /\ Len(backlog[d]) \in Nat
  BY DEF TypeOK
<1>2. ASSUME c \in Connected(d)
      PROVE  \E i \in Places(d) : Holder(d, i) = c
  <2>1. CASE serving[d] = c
    <3>1. 0 \in Places(d) /\ Holder(d, 0) = c
      BY <1>1, <2>1 DEF Places, Holder
    <3> QED BY <3>1
  <2>2. CASE \E i \in DOMAIN backlog[d] : backlog[d][i] = c
    <3>1. PICK i \in DOMAIN backlog[d] : backlog[d][i] = c
      BY <2>2
    <3>2. i \in Places(d) /\ Holder(d, i) = c
      BY <1>1, <3>1 DEF Places, Holder
    <3> QED BY <3>2
  <2> QED BY <1>2, <2>1, <2>2 DEF Connected
<1>3. ASSUME NEW i \in Places(d), Holder(d, i) = c
      PROVE  c \in Connected(d)
  BY <1>1, <1>3 DEF Places, Holder, Connected
<1> QED BY <1>2, <1>3

LEMMA AnswerHeld ==
  ASSUME TypeOK, Room, Held, NEW d \in Daemons, AnswerStep(d)
  PROVE  Held'
<1> USE DEF TypeOK
<1>1. /\ serving' = [serving EXCEPT ![d] = 0] /\ backlog' = backlog
      /\ cpc' = [cpc EXCEPT ![serving[d]] = "idle"]
  BY DEF AnswerStep, Answer, HandlePause, Panic, HandleDown, Finish
<1>2. serving[d] \in Clients
  BY DEF AnswerStep, Answer, HandlePause, Panic, HandleDown, Room
<1>3. \A c \in Clients :
        cpc'[c] = IF serving[d] = c
                       \/ (/\ backlog'[d] = << >>
                           /\ \E i \in DOMAIN backlog[d] : backlog[d][i] = c)
                  THEN "idle" ELSE cpc[c]
  <2>1. backlog'[d] = << >> => DOMAIN backlog[d] = {}
    BY <1>1
  <2> QED BY <1>1, <1>2, <2>1
<1>4. \A e \in Daemons \ {d} : UNCHANGED <<serving[e], backlog[e]>>
  BY <1>1
<1>5. serving'[d] = 0 /\ backlog'[d] = backlog[d]
  BY <1>1
<1> HIDE DEF TypeOK
<1> QED BY <1>3, <1>4, <1>5, ReleaseHeld

LEMMA DeathHeld ==
  ASSUME TypeOK, Held, NEW d \in Daemons, DeathStep(d)
  PROVE  Held'
<1>1. Dies(d)
  BY DEF DeathStep, RunClose, Killed, IdleExits
<1>2. \A c \in Clients :
        cpc'[c] = IF serving[d] = c
                       \/ (/\ backlog'[d] = << >>
                           /\ \E i \in DOMAIN backlog[d] : backlog[d][i] = c)
                  THEN "idle" ELSE cpc[c]
  <2>1. backlog'[d] = << >>
    BY <1>1 DEF Dies, TypeOK
  <2> QED BY <1>1, <2>1 DEF Dies, Connected
<1>3. \A e \in Daemons \ {d} : UNCHANGED <<serving[e], backlog[e]>>
  BY <1>1 DEF Dies, TypeOK
<1>4. serving'[d] = 0 /\ backlog'[d] = << >>
  BY <1>1 DEF Dies, TypeOK
<1> QED BY <1>2, <1>3, <1>4, ReleaseHeld

LEMMA ClientHeld ==
  ASSUME TypeOK, Held, NEW c \in Clients,
         ClientStep(c) \/ \E k \in Requests : Request(c, k)
  PROVE  Held'
<1>1. CASE Connect(c)
  BY <1>1, ConnectHeld
<1>2. CASE ~Connect(c)
  <2>1. /\ UNCHANGED <<serving, backlog>>
        /\ cpc[c] # "wait"
        /\ \E s \in {"idle", "dial", "spawn", "exec", "retry"} : cpc' = [cpc EXCEPT ![c] = s]
    BY <1>2 DEF ClientStep, DialFails, SpawnRemove, SpawnExec, RetryDeadline, Request,
                Finish, daemonVars
  <2>2. \A k \in Clients : cpc'[k] = "wait" <=> cpc[k] = "wait"
    BY <2>1 DEF TypeOK
  <2> QED BY <2>1, <2>2, HeldKept
<1> QED BY <1>1, <1>2

LEMMA DaemonHeld ==
  ASSUME TypeOK, Room, Held, NEW d \in Daemons, DaemonStep(d)
  PROVE  Held'
<1>1. CASE QuietStep(d)
  <2>1. UNCHANGED <<serving, backlog, cpc>>
    BY <1>1 DEF QuietStep, RunRemove, Listen, StopSession, CloseSession, LaunchSpawns,
                LaunchEnds, Dispatch, RunUnwind, RunUnlink, Elapse, IdleDecides, IdleStops,
                IdleCloses, IdleRemoves, clientVars
  <2> QED BY <2>1, HeldKept
<1> QED BY <1>1, AcceptHeld, AnswerHeld, DeathHeld DEF DaemonStep

-----------------------------------------------------------------------------
(* Requests and what they are answered with.                                *)

\* Whoever a daemon serves waits for it, and for no other.
LEMMA ServedWaits ==
  ASSUME TypeOK, Held, NEW d \in Daemons, serving[d] # 0
  PROVE  /\ serving[d] \in Clients /\ cpc[serving[d]] = "wait"
         /\ \A e \in Daemons \ {d} : serving[d] \notin Connected(e)
<1>1. serving[d] \in Clients
  BY DEF TypeOK
<1>2. 0 \in Places(d) /\ Holder(d, 0) = serving[d]
  BY DEF TypeOK, Places, Holder
<1>3. cpc[serving[d]] = "wait"
  BY <1>2 DEF Held
<1>4. ASSUME NEW e \in Daemons \ {d} PROVE serving[d] \notin Connected(e)
  <2>1. \A i \in Places(e) : Holder(e, i) # serving[d]
    BY <1>2 DEF Held
  <2> QED BY <1>1, <2>1, ConnectedCases
<1> QED BY <1>1, <1>3, <1>4

LEMMA ClientAnswered ==
  ASSUME TypeOK, Room, Held, Answered, NEW c \in Clients,
         ClientStep(c) \/ \E k \in Requests : Request(c, k)
  PROVE  Answered'
<1> USE DEF TypeOK, daemonVars
<1>1. /\ UNCHANGED <<serving, dlv>> /\ cpc[c] # "wait"
      /\ \/ dpc' = dpc
         \/ \E d \in Daemons : dpc' = [dpc EXCEPT ![d] = "started"]
  BY DEF ClientStep, Connect, DialFails, SpawnRemove, SpawnExec, RetryDeadline, Request,
         Finish
<1>2. \/ /\ cpc[c] # "idle" /\ req' = req
         /\ \E s \in {"dial", "spawn", "exec", "retry", "wait"} :
              cpc' = [cpc EXCEPT ![c] = s]
      \/ cpc' = [cpc EXCEPT ![c] = "idle"] /\ req' = [req EXCEPT ![c] = "none"]
      \/ \E k \in Requests : /\ cpc' = [cpc EXCEPT ![c] = "dial"]
                             /\ req' = [req EXCEPT ![c] = k]
  BY DEF ClientStep, Connect, DialFails, SpawnRemove, SpawnExec, RetryDeadline, Request,
         Finish
<1>3. \A k \in Clients : cpc'[k] = "idle" <=> req'[k] = "none"
  BY <1>2, RequestsAssumption DEF Answered
<1>4. \A k \in Clients \ {c} : req'[k] = req[k]
  BY <1>2
<1>5. ASSUME NEW d \in Daemons, dpc'[d] \in {"handle", "launching", "answer"}
      PROVE  dpc[d] = dpc'[d] /\ Kind(d)' = Kind(d)
  <2>1. dpc[d] = dpc'[d]
    BY <1>1, <1>5
  <2>2. serving[d] # 0
    BY <1>5, <2>1 DEF Room
  <2>3. serving[d] \in Clients \ {c}
    BY <1>1, <2>2, ServedWaits
  <2> QED BY <1>1, <1>4, <2>1, <2>3 DEF Kind
<1>6. Sessions' = Sessions
  BY <1>1 DEF Sessions
<1> QED BY <1>1, <1>3, <1>5, <1>6 DEF Answered

LEMMA DaemonAnswered ==
  ASSUME TypeOK, Owned, Room, Held, Answered, NEW d \in Daemons, DaemonStep(d)
  PROVE  Answered'
<1> USE DEF TypeOK, clientVars
\* What happens to d leaves the other daemons and their clients alone.
<1>1. ASSUME \A e \in Daemons \ {d} :
               /\ UNCHANGED <<dpc[e], serving[e], dlv[e]>>
               /\ serving[e] # 0 => req'[serving[e]] = req[serving[e]],
             \A c \in Clients : cpc'[c] = "idle" <=> req'[c] = "none",
             dpc'[d] = "launching" => Kind(d)' = "launch",
             dpc'[d] = "handle" /\ dlv'[d] = "closing" =>
               Kind(d)' \in {"launch", "stop", "down"},
             dpc'[d] = "answer" => /\ Kind(d)' \in {"launch", "cmd", "stop"}
                                   /\ Kind(d)' = "stop" => d \notin Sessions'
      PROVE  Answered'
  <2>1. ASSUME NEW e \in Daemons \ {d}, dpc'[e] \in {"handle", "launching", "answer"}
        PROVE  /\ dpc[e] = dpc'[e] /\ dlv'[e] = dlv[e] /\ Kind(e)' = Kind(e)
               /\ e \in Sessions' <=> e \in Sessions
    <3>1. serving[e] # 0
      BY <1>1, <2>1 DEF Room
    <3> QED BY <1>1, <2>1, <3>1 DEF Kind, Sessions
  <2> HIDE DEF TypeOK
  <2>2. ASSUME NEW e \in Daemons
        PROVE  /\ dpc'[e] = "launching" => Kind(e)' = "launch"
               /\ dpc'[e] = "handle" /\ dlv'[e] = "closing" =>
                    Kind(e)' \in {"launch", "stop", "down"}
               /\ dpc'[e] = "answer" => /\ Kind(e)' \in {"launch", "cmd", "stop"}
                                        /\ Kind(e)' = "stop" => e \notin Sessions'
    <3>1. CASE e = d
      BY <1>1, <3>1
    <3>2. CASE e # d
      BY <2>1, <3>2 DEF Answered
    <3> QED BY <3>1, <3>2
  <2> QED BY <1>1, <2>2 DEF Answered
<1>2. CASE QuietStep(d)
  <2>1. /\ UNCHANGED <<serving, cpc, req>>
        /\ \E s \in RunStates : dpc' = [dpc EXCEPT ![d] = s]
        /\ \E v : dlv' = [dlv EXCEPT ![d] = v]
    <3>1. UNCHANGED <<serving, cpc, req>>
      BY <1>2 DEF QuietStep, RunRemove, Listen, StopSession, CloseSession, LaunchSpawns,
                  LaunchEnds, Dispatch, RunUnwind, RunUnlink, Elapse, IdleDecides,
                  IdleStops, IdleCloses, IdleRemoves
    <3>2. \E s \in RunStates : dpc' = [dpc EXCEPT ![d] = s]
      BY <1>2 DEF QuietStep, RunRemove, Listen, StopSession, CloseSession, LaunchSpawns,
                  LaunchEnds, Dispatch, RunUnwind, RunUnlink, Elapse, IdleDecides,
                  IdleStops, IdleCloses, IdleRemoves, RunStates
    <3>3. \E v : dlv' = [dlv EXCEPT ![d] = v]
      <4>1. dlv = [dlv EXCEPT ![d] = dlv[d]]
        OBVIOUS
      <4> QED BY <1>2, <4>1
            DEF QuietStep, RunRemove, Listen, StopSession, CloseSession, LaunchSpawns,
                LaunchEnds, Dispatch, RunUnwind, RunUnlink, Elapse, IdleDecides, IdleStops,
                IdleCloses, IdleRemoves
    <3> QED BY <3>1, <3>2, <3>3
  <2>2. Kind(d)' = Kind(d)
    BY <2>1 DEF Kind
  <2>3. /\ dpc'[d] = "launching" => Kind(d) = "launch"
        /\ dpc'[d] = "handle" /\ dlv'[d] = "closing" => Kind(d) \in {"launch", "stop", "down"}
        /\ dpc'[d] = "answer" =>
             /\ Kind(d) \in {"launch", "cmd", "stop"}
             /\ Kind(d) = "stop" => dlv'[d] \notin {"starting", "session"}
    <3>1. CASE LaunchSpawns(d) \/ LaunchEnds(d) \/ Dispatch(d)
      BY <3>1 DEF LaunchSpawns, LaunchEnds, Dispatch, NoSession, Answered
    <3>2. CASE dpc' = dpc /\ dlv' \in {dlv, [dlv EXCEPT ![d] = "none"]}
      BY <3>2 DEF Answered, Sessions
    <3>4. CASE StopSession(d)
      BY <3>4 DEF StopSession, Answered, Sessions
    <3>3. CASE \E s \in {"bind", "accept", "dead", "unlink", "close"} :
                 dpc' = [dpc EXCEPT ![d] = s]
      BY <3>3
    <3> QED BY <1>2, <3>1, <3>2, <3>3, <3>4
            DEF QuietStep, RunRemove, Listen, CloseSession, RunUnwind, RunUnlink, Elapse,
                IdleDecides, IdleStops, IdleCloses, IdleRemoves
  <2>4. d \in Sessions' <=> dlv'[d] \in {"starting", "session"}
    BY DEF Sessions
  <2> QED BY <1>1, <2>1, <2>2, <2>3, <2>4 DEF Answered
<1>3. CASE Accept(d)
  <2>1. dlv[d] # "closing" /\ dlv' = dlv
    BY <1>3 DEF Accept, Owned
  <2> QED BY <1>1, <1>3, <2>1 DEF Accept, Answered
<1>4. CASE AnswerStep(d)
  <2>1. /\ dpc[d] \in {"handle", "answer"}
        /\ \E s \in {"accept", "unwind"} : dpc' = [dpc EXCEPT ![d] = s]
        /\ serving' = [serving EXCEPT ![d] = 0] /\ dlv' = dlv
        /\ cpc' = [cpc EXCEPT ![serving[d]] = "idle"]
        /\ req' = [req EXCEPT ![serving[d]] = "none"]
    BY <1>4 DEF AnswerStep, Answer, HandlePause, Panic, HandleDown, Finish
  <2>2. serving[d] # 0
    BY <2>1 DEF Room
  <2>3. /\ serving[d] \in Clients
        /\ \A e \in Daemons \ {d} : serving[e] # serving[d]
    BY <2>2, ServedWaits DEF Connected
  <2> QED BY <1>1, <2>1, <2>3 DEF Answered
<1>5. CASE DeathStep(d)
  <2>1. Dies(d)
    BY <1>5 DEF DeathStep, RunClose, Killed, IdleExits
  <2>2. \A e \in Daemons \ {d} :
          serving[e] # 0 => serving[e] \in Clients /\ serving[e] \notin Connected(d)
    BY ServedWaits
  <2> QED BY <1>1, <2>1, <2>2 DEF Dies, Answered
<1> QED BY <1>2, <1>3, <1>4, <1>5 DEF DaemonStep

-----------------------------------------------------------------------------
(* The invariant.                                                           *)

LEMMA InitInvariant == Init => IInv
<1> SUFFICES ASSUME Init PROVE IInv
  OBVIOUS
<1>1. TypeOK
  BY InitTypes
<1>2. Process /\ Room
  BY DEF Init, Process, DeadSocketMeansKill, Paths, Owned, Room,
         Listening, RunStates, Daemons
<1>3. \A d \in Daemons : Places(d) = {0} /\ Holder(d, 0) = 0
  BY DEF Init, Places, Holder
<1>4. \A c \in Clients : cpc[c] # "wait"
  BY DEF Init
<1>5. Held
  BY <1>3, <1>4 DEF Held
<1>6. Answered
  BY DEF Init, Answered
<1> QED BY <1>1, <1>2, <1>5, <1>6 DEF IInv, Process

LEMMA StepInvariant == IInv /\ [Next]_vars => IInv'
<1> SUFFICES ASSUME IInv, [Next]_vars PROVE IInv'
  OBVIOUS
<1> USE DEF IInv, Process
<1>1. ASSUME NEW c \in Clients, ClientStep(c) \/ \E k \in Requests : Request(c, k)
      PROVE  IInv'
  <2>1. TypeOK'
    BY <1>1, ClientTypes
  <2>2. Process'
    BY <1>1, ClientProcess
  <2>3. Room'
    BY <1>1, ClientRoom
  <2>4. Held'
    BY <1>1, ClientHeld
  <2>5. Answered'
    BY <1>1, ClientAnswered
  <2> QED BY <2>1, <2>2, <2>3, <2>4, <2>5
<1>2. ASSUME NEW d \in Daemons, DaemonStep(d)
      PROVE  IInv'
  <2>1. TypeOK'
    BY <1>2, DaemonTypes
  <2>2. Process'
    BY <1>2, DaemonProcess
  <2>3. Room'
    BY <1>2, DaemonRoom
  <2>4. Held'
    BY <1>2, DaemonHeld
  <2>5. Answered'
    BY <1>2, DaemonAnswered
  <2> QED BY <2>1, <2>2, <2>3, <2>4, <2>5
<1>3. CASE UNCHANGED vars
  <2>1. TypeOK' /\ Process' /\ Room'
    BY <1>3 DEF vars, TypeOK, DeadSocketMeansKill, Paths, Owned, Room
  <2>2. Held'
    BY <1>3, HeldKept DEF vars
  <2>3. Answered'
    BY <1>3 DEF vars, Answered, Kind, Sessions
  <2> QED BY <2>1, <2>2, <2>3
<1> QED BY <1>1, <1>2, <1>3, StepCases

\* IInv holds always, for any number of clients and daemons and any faults.
THEOREM Invariant == Spec => []IInv
BY InitInvariant, StepInvariant, PTL DEF Spec

\* The model's types.
THEOREM TypeCorrect == Spec => []TypeOK
<1>1. IInv => TypeOK
  BY DEF IInv
<1> QED BY <1>1, Invariant, PTL

\* A path that leads to a dead daemon was left by a kill, never by an orderly
\* end: Run's deferred Remove and Close, the idle goroutine's Remove (daemon.go).
THEOREM DeadSocketMeansKillCorrect == Spec => []DeadSocketMeansKill
<1>1. IInv => DeadSocketMeansKill
  BY DEF IInv
<1> QED BY <1>1, Invariant, PTL

\* A daemon that ends by itself, not by a kill and not by the exit of its idle
\* goroutine nor while that one closes the session, leaves no dlv: handle's and
\* Run's stopSession have returned before the process ends (daemon.go).
THEOREM NoDlvLeftCorrect == Spec => NoDlvLeft
<1>1. ASSUME IInv, Next, NEW d \in Daemons, dpc[d] # "dead", dpc'[d] = "dead",
             ~killed'[d], ipc[d] # "closing", ipc[d] = "removed" => dpc[d] = "close"
      PROVE  dlv'[d] = "none"
  <2>1. TypeOK /\ Owned /\ Paths
    BY <1>1 DEF IInv
  <2>2. \/ dpc[d] = "close" /\ Dies(d)
        \/ Listen(d) /\ dlv' = dlv
    <3>1. ASSUME NEW c \in Clients, ClientStep(c) \/ \E k \in Requests : Request(c, k)
          PROVE  FALSE
      <4>1. dpc' = dpc \/ \E e \in Daemons : dpc' = [dpc EXCEPT ![e] = "started"]
        BY <3>1 DEF ClientStep, Connect, DialFails, SpawnRemove, SpawnExec, RetryDeadline,
                    Request, daemonVars
      <4> QED BY <1>1, <2>1, <4>1 DEF TypeOK
    <3>2. PICK e \in Daemons : DaemonStep(e)
      BY <1>1, <3>1, StepCases
    <3>3. CASE DeathStep(e)
      <4>1. dpc' = [dpc EXCEPT ![e] = "dead"]
        BY <3>3 DEF DeathStep, RunClose, Killed, IdleExits, Dies
      <4>2. e = d
        BY <1>1, <2>1, <4>1 DEF TypeOK
      <4>3. CASE IdleExits(d)
        BY <1>1, <4>3 DEF IdleExits
      <4>4. CASE RunClose(d)
        BY <4>4 DEF RunClose
      <4>5. ~Killed(d)
        BY <1>1, <2>1 DEF Killed, TypeOK
      <4> QED BY <3>3, <4>2, <4>3, <4>4, <4>5 DEF DeathStep
    <3>4. CASE Listen(e)
      <4>1. e = d /\ dlv' = dlv
        BY <1>1, <2>1, <3>4 DEF Listen, TypeOK
      <4> QED BY <3>4, <4>1
    <3>5. CASE ~DeathStep(e) /\ ~Listen(e)
      <4>1. dpc' = dpc \/ \E s \in RunStates \ {"dead"} : dpc' = [dpc EXCEPT ![e] = s]
        BY <3>2, <3>5
           DEF DaemonStep, QuietStep, RunRemove, StopSession, CloseSession, LaunchSpawns,
               LaunchEnds, Dispatch, RunUnwind, RunUnlink, Elapse, IdleDecides, IdleStops,
               IdleCloses, IdleRemoves, Accept, AnswerStep, Answer, HandlePause, Panic,
               HandleDown, RunStates
      <4> QED BY <1>1, <2>1, <4>1 DEF TypeOK
    <3> QED BY <3>3, <3>4, <3>5
  <2>3. dpc[d] \in {"bind", "close"}
    BY <2>2 DEF Listen
  <2>4. dlv[d] = "none"
    BY <2>1, <2>3 DEF Owned, TypeOK, DlvStates, Listening
  <2>5. CASE Dies(d)
    BY <1>1, <2>1, <2>4, <2>5 DEF Dies, TypeOK
  <2>6. CASE dlv' = dlv
    BY <2>4, <2>6
  <2> QED BY <2>2, <2>5, <2>6
<1>2. IInv /\ [Next]_vars =>
        [\A d \in Daemons :
           /\ dpc[d] # "dead" /\ dpc'[d] = "dead" /\ ~killed'[d]
           /\ ipc[d] # "closing" /\ (ipc[d] = "removed" => dpc[d] = "close")
           => dlv'[d] = "none"]_vars
  BY <1>1
<1> QED BY <1>2, Invariant, PTL DEF Spec, NoDlvLeft

\* A waiting client is held by exactly one daemon, any other by none: Held says
\* so of places, and a client has at most one.
LEMMA HeldByOne == IInv => OneHolder
<1> SUFFICES ASSUME IInv, NEW c \in Clients
             PROVE  LET held == {d \in Daemons : c \in Connected(d)}
                    IN IF cpc[c] = "wait" THEN Cardinality(held) = 1 ELSE held = {}
  BY DEF OneHolder
<1> DEFINE held == {d \in Daemons : c \in Connected(d)}
<1>1. c # 0
  BY ClientsAssumption
<1>2. \A d \in Daemons : c \in Connected(d) <=> \E i \in Places(d) : Holder(d, i) = c
  BY ConnectedCases DEF IInv
<1>3. CASE cpc[c] = "wait"
  <2>1. PICK d \in Daemons : \E i \in Places(d) : Holder(d, i) = c
    BY <1>3 DEF IInv, Held
  <2>2. \A e \in Daemons : c \in Connected(e) => e = d
    BY <1>1, <1>2, <2>1 DEF IInv, Held
  <2>3. held = {d}
    BY <1>2, <2>1, <2>2
  <2> QED BY <1>3, <2>3, FS_Singleton
<1>4. CASE cpc[c] # "wait"
  <2>1. \A d \in Daemons : c \notin Connected(d)
    BY <1>1, <1>2, <1>4 DEF IInv, Held
  <2> QED BY <1>4, <2>1
<1> QED BY <1>3, <1>4

\* No request is handled twice, and no client is left waiting for a connection
\* that nobody has, also when daemons die with connections in their queue.
THEOREM OneHolderCorrect == Spec => []OneHolder
BY HeldByOne, Invariant, PTL

-----------------------------------------------------------------------------
(* The promise to clients.  Each step of a client or a daemon is one step of    *)
(* RemoteCalls or none; the path, the queues and the idle goroutine disappear.  *)

\* A client that does not wait is at no server.
LEMMA NotWaitingPending ==
  ASSUME IInv, NEW c \in Clients, cpc[c] \notin {"idle", "wait"}
  PROVE  Calls!Pending(c)
<1>1. req[c] # "none"
  BY DEF IInv, Answered
<1>2. \A d \in Daemons : serving[d] # c
  BY ClientsAssumption, ServedWaits DEF IInv
<1> QED BY <1>1, <1>2 DEF Calls!Pending

\* Nor is one that waits in a queue.
LEMMA QueuedPending ==
  ASSUME IInv, NEW d \in Daemons, NEW c \in Clients, c \in Connected(d), serving[d] # c
  PROVE  Calls!Pending(c)
<1>1. PICK i \in Places(d) : Holder(d, i) = c
  BY ConnectedCases DEF IInv
<1>2. c # 0
  BY ClientsAssumption
<1>3. cpc[c] = "wait"
  BY <1>1, <1>2 DEF IInv, Held
<1>4. req[c] # "none"
  BY <1>3 DEF IInv, Answered
<1>5. \A e \in Daemons : serving[e] # c
  BY <1>2, ServedWaits DEF IInv
<1> QED BY <1>4, <1>5 DEF Calls!Pending

LEMMA ClientCalls ==
  ASSUME IInv, NEW c \in Clients, ClientStep(c) \/ \E k \in Requests : Request(c, k)
  PROVE  Calls!Next \/ UNCHANGED Calls!cvars
<1> USE DEF daemonVars
<1>1. TypeOK
  BY DEF IInv
<1>2. /\ UNCHANGED <<serving, dlv>>
      /\ \/ dpc' = dpc
         \/ \E d \in Daemons : dpc[d] = "none" /\ dpc' = [dpc EXCEPT ![d] = "started"]
  BY DEF ClientStep, Connect, DialFails, SpawnRemove, SpawnExec, RetryDeadline, Request
<1>3. Sessions' = Sessions /\ Ended' = Ended
  BY <1>1, <1>2 DEF Sessions, Ended, TypeOK
<1>4. ASSUME NEW k \in Requests, Request(c, k)
      PROVE  Calls!Next
  <2>1. req[c] = "none"
    BY <1>4 DEF Request, IInv, Answered
  <2>2. Calls!Send(c, k)
    BY <1>2, <1>3, <1>4, <2>1 DEF Request, Calls!Send
  <2> QED BY <2>2, RequestsAssumption DEF Calls!Next
<1>5. CASE Finish(c, "error") /\ cpc[c] \in {"dial", "exec", "retry"}
  <2>1. Calls!Pending(c)
    BY <1>5, NotWaitingPending
  <2>2. Calls!Close({c}, "error")
    BY <1>1, <1>5 DEF Finish, TypeOK, Calls!Close
  <2>3. Calls!Fail(c)
    BY <1>2, <1>3, <2>1, <2>2 DEF Calls!Fail
  <2> QED BY <2>3 DEF Calls!Next
<1>6. CASE UNCHANGED <<req, res>>
  BY <1>2, <1>3, <1>6 DEF Calls!cvars
<1> QED BY <1>4, <1>5, <1>6
        DEF ClientStep, Connect, DialFails, SpawnRemove, SpawnExec, RetryDeadline

\* Accept is where a call begins: until then nobody executes it.
LEMMA AcceptCalls ==
  ASSUME IInv, NEW d \in Daemons, Accept(d)
  PROVE  Calls!Next
<1> DEFINE c == Head(backlog[d])
<1>1. /\ TypeOK /\ c \in Clients /\ backlog[d] # << >>
      /\ c = backlog[d][1] /\ 1 \in DOMAIN backlog[d]
  BY DEF IInv, TypeOK, Accept
<1>2. serving[d] = 0 /\ d \notin Ended
  BY DEF IInv, Room, Accept, Ended
<1>3. c \in Connected(d) /\ serving[d] # c
  BY <1>1, <1>2, ClientsAssumption DEF Connected
<1> HIDE DEF c
<1>4. Calls!Pending(c)
  BY <1>1, <1>3, QueuedPending
<1>5. /\ UNCHANGED <<req, res, dlv>> /\ serving' = [serving EXCEPT ![d] = c]
      /\ dpc[d] = "accept" /\ dpc' = [dpc EXCEPT ![d] = "handle"]
  BY DEF Accept, clientVars, c
<1>6. Sessions' = Sessions /\ Ended' = Ended
  BY <1>1, <1>5 DEF Sessions, Ended, TypeOK
<1>7. Calls!Take(c, d)
  BY <1>2, <1>4, <1>5, <1>6 DEF Calls!Take
<1> QED BY <1>1, <1>7 DEF Calls!Next

\* Run between Accept and the answer, and the idle goroutine up to its exit.
LEMMA QuietCalls ==
  ASSUME IInv, NEW d \in Daemons, QuietStep(d)
  PROVE  Calls!Next \/ UNCHANGED Calls!cvars
<1>1. TypeOK
  BY DEF IInv
<1>2. UNCHANGED <<req, res, serving>>
  BY DEF QuietStep, RunRemove, Listen, StopSession, CloseSession, LaunchSpawns,
         LaunchEnds, Dispatch, RunUnwind, RunUnlink, Elapse, IdleDecides, IdleStops,
         IdleCloses, IdleRemoves, clientVars
<1>3. CASE LaunchSpawns(d)
  <2>1. serving[d] # 0 /\ req[serving[d]] = "launch"
    BY <1>3 DEF LaunchSpawns, Kind, IInv, Room
  <2>2. Sessions' = Sessions \cup {d} /\ Ended' = Ended
    BY <1>1, <1>3 DEF LaunchSpawns, Sessions, Ended, TypeOK
  <2>3. Calls!Launch(d)
    BY <1>2, <2>1, <2>2 DEF Calls!Launch
  <2> QED BY <2>3 DEF Calls!Next
<1>4. CASE Listen(d) /\ dpc' = [dpc EXCEPT ![d] = "dead"]
  <2>1. serving[d] = 0
    BY <1>4 DEF Listen, IInv, Room
  <2>2. Sessions' = Sessions /\ Ended' = Ended \cup {d}
    BY <1>1, <1>4 DEF Listen, Sessions, Ended, TypeOK
  <2>3. Calls!Close({}, "error") /\ serving' = [serving EXCEPT ![d] = 0]
    BY <1>1, <1>2, <2>1 DEF Calls!Close, TypeOK
  <2>4. {} \cup ({serving[d]} \ {0}) = {}
    BY <2>1
  <2>5. Calls!Ends(d)
    BY <2>2, <2>3, <2>4 DEF Calls!Ends
  <2> QED BY <2>5 DEF Calls!Next
<1>5. CASE ~LaunchSpawns(d) /\ ~(Listen(d) /\ dpc' = [dpc EXCEPT ![d] = "dead"])
  <2>1. Ended' = Ended
    BY <1>1, <1>5
       DEF QuietStep, RunRemove, Listen, StopSession, CloseSession, LaunchEnds, Dispatch,
           RunUnwind, RunUnlink, Elapse, IdleDecides, IdleStops, IdleCloses, IdleRemoves,
           Ended, TypeOK
  <2>2. dlv' = dlv \/ \E s \in {"session", "closing", "none"} :
                         /\ s = "session" => d \in Sessions
                         /\ dlv' = [dlv EXCEPT ![d] = s]
    <3>1. CASE LaunchEnds(d)
      <4>1. d \in Sessions
        BY <3>1 DEF LaunchEnds, IInv, Owned, Sessions
      <4> QED BY <3>1, <4>1 DEF LaunchEnds
    <3>2. CASE ~LaunchEnds(d)
      <4>1. dlv' = dlv \/ \E s \in {"closing", "none"} : dlv' = [dlv EXCEPT ![d] = s]
        BY <1>5, <3>2
           DEF QuietStep, RunRemove, Listen, StopSession, CloseSession, Dispatch,
               RunUnwind, RunUnlink, Elapse, IdleDecides, IdleStops, IdleCloses,
               IdleRemoves
      <4> QED BY <4>1
    <3> QED BY <3>1, <3>2
  <2>3. Sessions' = Sessions \/ Sessions' = Sessions \ {d}
    BY <1>1, <2>2 DEF Sessions, TypeOK
  <2>4. Calls!Lose(d) \/ UNCHANGED Calls!cvars
    BY <1>2, <2>1, <2>3 DEF Calls!Lose, Calls!cvars
  <2> QED BY <2>4 DEF Calls!Next
<1> QED BY <1>3, <1>4, <1>5

LEMMA AnswerCalls ==
  ASSUME IInv, NEW d \in Daemons, AnswerStep(d)
  PROVE  Calls!Next
<1>1. TypeOK
  BY DEF IInv
<1>2. /\ serving[d] # 0 /\ serving' = [serving EXCEPT ![d] = 0]
      /\ dpc[d] \in {"handle", "answer"}
  BY DEF AnswerStep, Answer, HandlePause, Panic, HandleDown, IInv, Room
<1>3. serving[d] \in Clients
  BY <1>1, <1>2 DEF TypeOK
<1>4. \A r \in {"reply", "error"} : Finish(serving[d], r) => Calls!Close({serving[d]}, r)
  BY <1>1, <1>3 DEF Finish, Calls!Close, TypeOK
<1>5. CASE Answer(d) \/ HandlePause(d)
  <2>1. /\ Calls!Close({serving[d]}, "reply")
        /\ dlv' = dlv /\ dpc' = [dpc EXCEPT ![d] = "accept"]
    BY <1>4, <1>5 DEF Answer, HandlePause
  <2>2. Sessions' = Sessions /\ Ended' = Ended
    BY <1>1, <1>2, <2>1 DEF Sessions, Ended, TypeOK
  <2>3. /\ req[serving[d]] # "down"
        /\ req[serving[d]] = "stop" => d \notin Sessions
    BY <1>5 DEF Answer, HandlePause, Kind, IInv, Answered
  <2>4. Calls!Reply(d)
    BY <1>2, <2>1, <2>2, <2>3 DEF Calls!Reply
  <2> QED BY <2>4 DEF Calls!Next
<1>6. CASE HandleDown(d)
  <2>1. /\ Calls!Close({serving[d]}, "reply") /\ req[serving[d]] = "down"
        /\ dpc' = [dpc EXCEPT ![d] = "unwind"] /\ dlv' = dlv /\ dlv[d] = "none"
    BY <1>4, <1>6 DEF HandleDown, NoSession, Kind
  <2>2. Sessions' = Sessions \ {d} /\ Ended' = Ended \cup {d}
    BY <1>1, <2>1 DEF Sessions, Ended, TypeOK
  <2>3. Calls!Reply(d)
    BY <1>2, <2>1, <2>2 DEF Calls!Reply
  <2> QED BY <2>3 DEF Calls!Next
<1>7. CASE Panic(d)
  <2>1. /\ Calls!Close({serving[d]}, "error")
        /\ dpc' = [dpc EXCEPT ![d] = "unwind"] /\ dlv' = dlv
    BY <1>4, <1>7 DEF Panic
  <2>2. Sessions' = Sessions /\ Ended' = Ended \cup {d}
    BY <1>1, <2>1 DEF Sessions, Ended, TypeOK
  <2>3. {serving[d]} = {} \cup ({serving[d]} \ {0})
    BY <1>2
  <2>4. Calls!Ends(d)
    BY <1>2, <2>1, <2>2, <2>3 DEF Calls!Ends
  <2> QED BY <2>4 DEF Calls!Next
<1> QED BY <1>5, <1>6, <1>7 DEF AnswerStep

\* The call in handle and those in the queue end with an error.
LEMMA DeathCalls ==
  ASSUME IInv, NEW d \in Daemons, DeathStep(d)
  PROVE  Calls!Next
<1> DEFINE queued == Connected(d) \ {serving[d]}
<1>1. TypeOK /\ Dies(d)
  BY DEF IInv, DeathStep, RunClose, Killed, IdleExits
<1>2. queued \in SUBSET {c \in Clients : Calls!Pending(c)}
  BY QueuedPending DEF Connected
<1>3. Connected(d) = queued \cup ({serving[d]} \ {0})
  <2>1. 0 \notin Connected(d) /\ (serving[d] # 0 => serving[d] \in Connected(d))
    BY <1>1, ClientsAssumption DEF Connected, TypeOK
  <2> QED BY <2>1
<1>4. Calls!Close(Connected(d), "error")
  BY <1>1 DEF Dies, Calls!Close
<1>5. /\ serving' = [serving EXCEPT ![d] = 0]
      /\ Ended' = Ended \cup {d} /\ Sessions' = Sessions \ {d}
  BY <1>1 DEF Dies, Ended, Sessions, TypeOK
<1> HIDE DEF queued
<1>6. Calls!Ends(d)
  BY <1>2, <1>3, <1>4, <1>5 DEF Calls!Ends
<1> QED BY <1>6 DEF Calls!Next

LEMMA CallsStep == IInv /\ [Next]_vars => [Calls!Next]_(Calls!cvars)
<1> SUFFICES ASSUME IInv, [Next]_vars PROVE [Calls!Next]_(Calls!cvars)
  OBVIOUS
<1>1. ASSUME NEW d \in Daemons, DaemonStep(d)
      PROVE  [Calls!Next]_(Calls!cvars)
  BY <1>1, QuietCalls, AcceptCalls, AnswerCalls, DeathCalls DEF DaemonStep
<1>2. CASE UNCHANGED vars
  BY <1>2 DEF vars, Calls!cvars, Sessions, Ended
<1> QED BY <1>1, <1>2, ClientCalls, StepCases

\* Lifecycle implements RemoteCalls: over any interleaving of clients, daemons, idle
\* goroutines and faults a request is executed at most once, by one daemon at a time,
\* "stop" and "down" are answered when Daemon.sess is nil, and only a daemon that ends
\* leaves a request it has begun without its reply (client.go, daemon.go).
THEOREM ImplementsCallsCorrect == Spec => ImplementsCalls
<1>1. Init => Calls!Init
  BY DEF Init, Calls!Init, Sessions, Ended
<1> QED BY <1>1, CallsStep, Invariant, PTL DEF Spec, ImplementsCalls, Calls!Spec

\* What RemoteCalls says, said of its variables.
CallTypes == /\ req \in [Clients -> {"none", "launch", "cmd", "stop", "pause", "down"}]
             /\ res \in [Clients -> {"none", "reply", "error"}]
             /\ serving \in [Daemons -> Clients \cup {0}]

LEMMA CallsStepOneServer ==
  ASSUME CallTypes, Calls!OneServer, [Calls!Next]_(Calls!cvars)
  PROVE  CallTypes' /\ Calls!OneServer'
<1> USE ClientsAssumption DEF CallTypes, Calls!OneServer
<1>1. ASSUME NEW c \in Clients, NEW k \in {"launch", "cmd", "stop", "pause", "down"},
             Calls!Send(c, k)
      PROVE  CallTypes' /\ Calls!OneServer'
  BY <1>1 DEF Calls!Send
<1>2. ASSUME NEW c \in Clients, Calls!Fail(c)
      PROVE  CallTypes' /\ Calls!OneServer'
  BY <1>2 DEF Calls!Fail, Calls!Pending, Calls!Close
<1>3. ASSUME NEW c \in Clients, NEW s \in Daemons, Calls!Take(c, s)
      PROVE  CallTypes' /\ Calls!OneServer'
  BY <1>3 DEF Calls!Take, Calls!Pending
<1>4. ASSUME NEW s \in Daemons, Calls!Launch(s) \/ Calls!Lose(s)
      PROVE  CallTypes' /\ Calls!OneServer'
  BY <1>4 DEF Calls!Launch, Calls!Lose
<1>5. ASSUME NEW s \in Daemons, Calls!Reply(s)
      PROVE  CallTypes' /\ Calls!OneServer'
  BY <1>5 DEF Calls!Reply, Calls!Close
<1>6. ASSUME NEW s \in Daemons, Calls!Ends(s)
      PROVE  CallTypes' /\ Calls!OneServer'
  <2>1. PICK S \in SUBSET {c \in Clients : Calls!Pending(c)} :
          Calls!Close(S \cup ({serving[s]} \ {0}), "error")
    BY <1>6 DEF Calls!Ends
  <2>2. serving' = [serving EXCEPT ![s] = 0]
    BY <1>6 DEF Calls!Ends
  <2>3. CallTypes'
    BY <2>1, <2>2 DEF Calls!Close
  <2>4. \A t \in Daemons : serving[t] \notin S
    BY <2>1 DEF Calls!Pending
  <2>5. ASSUME NEW t \in Daemons, serving'[t] # 0
        PROVE  t # s /\ serving'[t] = serving[t] /\ req'[serving[t]] = req[serving[t]]
    BY <2>1, <2>2, <2>4, <2>5 DEF Calls!Close
  <2> QED BY <2>3, <2>5
<1>7. CASE UNCHANGED Calls!cvars
  BY <1>7 DEF Calls!cvars
<1> QED BY <1>1, <1>2, <1>3, <1>4, <1>5, <1>6, <1>7 DEF Calls!Next

LEMMA CallsInitOneServer == Calls!Init => CallTypes /\ Calls!OneServer
BY DEF Calls!Init, CallTypes, Calls!OneServer

\* Whoever implements RemoteCalls has each call at one server at most.
THEOREM CallsAtOneServer == Calls!Spec => []Calls!OneServer
BY CallsInitOneServer, CallsStepOneServer, PTL DEF Calls!Spec

\* And a call that was begun ends with a reply or with its server.
THEOREM CallsReplyOrEnd == Calls!Spec => Calls!ReplyOrEnd
<1>1. ASSUME CallTypes, [Calls!Next]_(Calls!cvars)
      PROVE  [\A s \in Daemons : serving[s] # 0 /\ serving'[s] # serving[s] =>
                /\ req'[serving[s]] = "none"
                /\ res'[serving[s]] = "reply" \/ s \in Ended']_(Calls!cvars)
  <2> USE ClientsAssumption DEF CallTypes
  <2> SUFFICES ASSUME Calls!Next, NEW s \in Daemons, serving[s] # 0,
                      serving'[s] # serving[s]
               PROVE  /\ req'[serving[s]] = "none"
                      /\ res'[serving[s]] = "reply" \/ s \in Ended'
    BY <1>1
  <2>1. ASSUME NEW t \in Daemons, Calls!Reply(t)
        PROVE  s = t /\ req'[serving[s]] = "none" /\ res'[serving[s]] = "reply"
    <3>1. Calls!Close({serving[t]}, "reply") /\ serving' = [serving EXCEPT ![t] = 0]
      BY <2>1 DEF Calls!Reply
    <3>2. s = t /\ serving[s] \in Clients
      BY <1>1, <3>1
    <3> QED BY <3>1, <3>2 DEF Calls!Close
  <2>2. ASSUME NEW t \in Daemons, Calls!Ends(t)
        PROVE  s = t /\ req'[serving[s]] = "none" /\ s \in Ended'
    <3>1. s = t /\ s \in Ended'
      BY <2>2 DEF Calls!Ends
    <3>2. PICK S \in SUBSET {c \in Clients : Calls!Pending(c)} :
            Calls!Close(S \cup ({serving[t]} \ {0}), "error")
      BY <2>2 DEF Calls!Ends
    <3>3. serving[s] \in Clients /\ serving[s] \in S \cup ({serving[s]} \ {0})
      BY <1>1
    <3> QED BY <3>1, <3>2, <3>3 DEF Calls!Close
  <2>3. ASSUME NEW c \in Clients, NEW t \in Daemons, Calls!Take(c, t)
        PROVE  FALSE
    BY <2>3 DEF Calls!Take
  <2>4. \/ \E t \in Daemons : Calls!Reply(t) \/ Calls!Ends(t)
        \/ \E c \in Clients, t \in Daemons : Calls!Take(c, t)
    BY DEF Calls!Next, Calls!Send, Calls!Fail, Calls!Launch, Calls!Lose
  <2> QED BY <2>1, <2>2, <2>3, <2>4
<1> QED BY <1>1, CallsInitOneServer, CallsStepOneServer, PTL DEF Calls!Spec,
                                                                 Calls!ReplyOrEnd

\* A request is executed by one daemon at most, never after it has ended, and a
\* daemon that has begun it answers it or ends: Accept, handle and Run
\* (daemon.go) against Send's read of the answer (client.go), by the refinement.
THEOREM RequestsOnceCorrect == Spec => []Calls!OneServer /\ Calls!ReplyOrEnd
BY ImplementsCallsCorrect, CallsAtOneServer, CallsReplyOrEnd DEF ImplementsCalls

-----------------------------------------------------------------------------
(* Progress.  That every request ends (RequestsEnd) is a matter of fairness; these *)
(* are the facts it rests on: a client never goes back, a waiting one comes nearer  *)
(* to its answer with every step of its daemon, and somebody can always go on.      *)

\* The stages of Send, from the last to the first.
Stage(s) == CASE s = "wait" -> 1 [] s = "retry" -> 2 [] s = "exec" -> 3
              [] s = "spawn" -> 4 [] s = "dial" -> 5 [] OTHER -> 0

\* The stages of Run, from the last to the next Accept or the end of the process.
RunStage(s) == CASE s = "close" -> 1 [] s = "unlink" -> 2 [] s = "unwind" -> 3
                 [] s = "answer" -> 4 [] s = "launching" -> 5 [] s = "handle" -> 6
                 [] OTHER -> 0

\* A session may have to be taken out of Daemon.sess and closed on the way.
ToClose(s) == CASE s = "session" -> 2 [] s = "closing" -> 1 [] OTHER -> 0

\* How far Run of d is from there.
Left(d) == IF RunStage(dpc[d]) = 0 THEN 0 ELSE 3 * RunStage(dpc[d]) + ToClose(dlv[d])

\* What Run of d has to do until the connection at place i is closed.
Ahead(d, i) == 21 * i + Left(d)

\* A client moves on to a later stage only; one that waits stays with its daemon,
\* gets no further from its answer, and comes nearer when that daemon takes a step.
Advance ==
  /\ \A c \in Clients :
       cpc'[c] # cpc[c] => cpc[c] = "idle" \/ Stage(cpc'[c]) < Stage(cpc[c])
  /\ \A d \in Daemons : \A i \in Places(d) :
       Holder(d, i) # 0 =>
         \/ cpc'[Holder(d, i)] = "idle"
         \/ \E j \in Places(d)' :
              /\ Holder(d, j)' = Holder(d, i) /\ Ahead(d, j)' <= Ahead(d, i)
              /\ RunStep(d) => Ahead(d, j)' < Ahead(d, i)

\* Some branch of Run can be taken: the conditions of its actions.
CanRun(d) ==
  \/ dpc[d] \in {"started", "bind", "launching", "unlink", "close"}
  \/ dpc[d] = "accept" /\ backlog[d] # << >>
  \/ dpc[d] = "handle" /\ Kind(d) \in {"cmd", "pause"}
  \/ dpc[d] = "answer" /\ dlv[d] # "closing"
  \/ /\ dpc[d] = "unwind" \/ (dpc[d] = "handle" /\ Kind(d) \in {"launch", "stop", "down"})
     /\ dlv[d] \in {"none", "session"}
  \/ dlv[d] = "closing"

\* A client can dial, spawn, connect or give up.
CanStep(c) ==
  \/ cpc[c] \in {"dial", "spawn", "exec"}
  \/ cpc[c] = "retry" /\ (Reachable \/ \A d \in Daemons : dpc[d] \notin {"started", "bind"})

\* Nobody is stuck: a client with a request can go on by itself, or some daemon can,
\* the one that holds its connection if it has one.
NoneStuck ==
  \A c \in Clients :
    cpc[c] # "idle" =>
      \/ CanStep(c)
      \/ \E d \in Daemons : CanRun(d) /\ (cpc[c] = "wait" => c \in Connected(d))

LEMMA StageBounds ==
  ASSUME NEW s \in {"idle", "dial", "spawn", "exec", "retry", "wait"}
  PROVE  Stage(s) \in 0 .. 5 /\ (s # "idle" => Stage(s) > Stage("idle"))
BY DEF Stage

LEMMA LeftBounds == \A d : Left(d) \in 0 .. 20 /\ Left(d)' \in 0 .. 20
<1>1. \A s : RunStage(s) \in 0 .. 6 /\ ToClose(s) \in 0 .. 2
  BY DEF RunStage, ToClose
<1> QED BY <1>1 DEF Left

\* Only a daemon that listens has connections, and their clients wait.
LEMMA HolderListens ==
  ASSUME IInv, NEW d \in Daemons, NEW i \in Places(d), Holder(d, i) # 0
  PROVE  /\ dpc[d] \in Listening /\ Holder(d, i) \in Clients
         /\ cpc[Holder(d, i)] = "wait" /\ i \in Nat
<1>1. TypeOK /\ Room
  BY DEF IInv
<1>2. i \in Nat /\ i \in 0 .. Len(backlog[d]) /\ backlog[d] \in Seq(Clients)
  BY <1>1 DEF TypeOK, Places
<1>3. dpc[d] \in Listening
  <2>1. CASE i = 0
    BY <1>1, <2>1 DEF Room, Holder, Listening, RunStates
  <2>2. CASE i # 0
    <3>1. backlog[d] # << >>
      BY <1>2, <2>2
    <3> QED BY <1>1, <3>1 DEF Room
  <2> QED BY <2>1, <2>2
<1>4. Holder(d, i) \in Clients
  BY <1>1, <1>2 DEF Holder, TypeOK
<1>5. cpc[Holder(d, i)] = "wait"
  BY DEF IInv, Held
<1> QED BY <1>2, <1>3, <1>4, <1>5

\* Every step of Run goes to another place in it, or on with closing the session.
LEMMA RunMoves ==
  ASSUME TypeOK, NEW d \in Daemons, RunStep(d)
  PROVE  \/ dpc'[d] # dpc[d]
         \/ dlv[d] = "session" /\ dlv'[d] = "closing"
         \/ dlv[d] = "closing" /\ dlv'[d] = "none"
<1> USE DEF TypeOK
<1>1. CASE Listen(d)
  BY <1>1 DEF Listen
<1>2. CASE RunRemove(d) \/ Accept(d) \/ LaunchSpawns(d) \/ LaunchEnds(d) \/ Dispatch(d)
  BY <1>2 DEF RunRemove, Accept, LaunchSpawns, LaunchEnds, Dispatch
<1>3. CASE Answer(d) \/ HandlePause(d) \/ HandleDown(d)
  BY <1>3 DEF Answer, HandlePause, HandleDown
<1>4. CASE RunUnwind(d) \/ RunUnlink(d) \/ RunClose(d)
  BY <1>4 DEF RunUnwind, RunUnlink, RunClose, Dies
<1>5. CASE StopSession(d) \/ CloseSession(d)
  BY <1>5 DEF StopSession, CloseSession
<1> QED BY <1>1, <1>2, <1>3, <1>4, <1>5 DEF RunStep, Serve

\* A place that keeps its connection, in a daemon that goes no way back in Run.
LEMMA PlaceNearer ==
  ASSUME TypeOK, NEW d \in Daemons, NEW i \in Places(d), i \in Places(d)',
         Holder(d, i)' = Holder(d, i),
         Left(d)' <= Left(d), RunStep(d) => Left(d)' < Left(d)
  PROVE  \E j \in Places(d)' :
           /\ Holder(d, j)' = Holder(d, i) /\ Ahead(d, j)' <= Ahead(d, i)
           /\ RunStep(d) => Ahead(d, j)' < Ahead(d, i)
<1>1. i \in Int
  BY DEF Places
<1>2. /\ Ahead(d, i)' <= Ahead(d, i)
      /\ RunStep(d) => Ahead(d, i)' < Ahead(d, i)
  BY <1>1, LeftBounds DEF Ahead
<1> QED BY <1>2

\* One that does not go on in Run has not taken a step of it.
LEMMA Stays ==
  ASSUME TypeOK, NEW d \in Daemons, UNCHANGED <<dpc[d], dlv[d]>>
  PROVE  Left(d)' <= Left(d) /\ (RunStep(d) => Left(d)' < Left(d))
<1>1. ~RunStep(d)
  BY RunMoves
<1>2. Left(d)' = Left(d)
  BY DEF Left
<1> QED BY <1>1, <1>2, LeftBounds

LEMMA ClientAdvance ==
  ASSUME IInv, NEW c \in Clients, ClientStep(c) \/ \E k \in Requests : Request(c, k)
  PROVE  Advance
<1> USE DEF daemonVars
<1>1. TypeOK
  BY DEF IInv
<1>2. ASSUME NEW k \in Clients, cpc'[k] # cpc[k]
      PROVE  cpc[k] = "idle" \/ Stage(cpc'[k]) < Stage(cpc[k])
  <2> USE <1>1 DEF TypeOK
  <2>1. CASE Connect(c)
    BY <1>2, <2>1 DEF Connect, Stage
  <2>2. CASE DialFails(c)
    BY <1>2, <2>2 DEF DialFails, Finish, Stage
  <2>3. CASE SpawnRemove(c)
    BY <1>2, <2>3 DEF SpawnRemove, Stage
  <2>4. CASE SpawnExec(c)
    BY <1>2, <2>4 DEF SpawnExec, Finish, Stage
  <2>5. CASE RetryDeadline(c)
    BY <1>2, <2>5 DEF RetryDeadline, Finish, Stage
  <2>6. CASE \E r \in Requests : Request(c, r)
    BY <1>2, <2>6 DEF Request
  <2> QED BY <2>1, <2>2, <2>3, <2>4, <2>5, <2>6 DEF ClientStep
<1>3. /\ serving' = serving
      /\ \/ dpc' = dpc
         \/ \E d \in Daemons : dpc[d] = "none" /\ dpc' = [dpc EXCEPT ![d] = "started"]
      /\ \/ backlog' = backlog
         \/ sock # 0 /\ backlog' = [backlog EXCEPT ![sock] = Append(@, c)]
  BY DEF ClientStep, Connect, DialFails, SpawnRemove, SpawnExec, RetryDeadline, Request,
         Reachable
<1>4. ASSUME NEW d \in Daemons, NEW i \in Places(d), Holder(d, i) # 0
      PROVE  \E j \in Places(d)' :
               /\ Holder(d, j)' = Holder(d, i) /\ Ahead(d, j)' <= Ahead(d, i)
               /\ RunStep(d) => Ahead(d, j)' < Ahead(d, i)
  <2>1. dpc[d] \in Listening
    BY <1>4, HolderListens
  <2>2. dpc'[d] = dpc[d]
    BY <1>1, <1>3, <2>1 DEF Listening, TypeOK
  <2>3. backlog'[d] = backlog[d] \/ backlog'[d] = Append(backlog[d], c)
    BY <1>1, <1>3 DEF TypeOK
  <2>4. /\ Len(backlog'[d]) >= Len(backlog[d]) /\ Len(backlog'[d]) \in Nat
        /\ Len(backlog[d]) \in Nat
        /\ \A j \in 1 .. Len(backlog[d]) : backlog'[d][j] = backlog[d][j]
    <3>1. backlog[d] \in Seq(Clients)
      BY <1>1 DEF TypeOK
    <3> QED BY <2>3, <3>1
  <2>5. i \in Places(d)' /\ Holder(d, i)' = Holder(d, i)
    BY <1>3, <2>4 DEF Places, Holder
  <2>6. dlv'[d] = dlv[d]
    BY DEF ClientStep, Connect, DialFails, SpawnRemove, SpawnExec, RetryDeadline, Request
  <2> QED BY <1>1, <2>2, <2>5, <2>6, Stays, PlaceNearer
<1> QED BY <1>2, <1>4 DEF Advance

\* The steps of Run, and what the idle goroutine takes from its way.
LEMMA QuietNearer ==
  ASSUME TypeOK, Owned, NEW d \in Daemons,
         \/ StopSession(d) \/ CloseSession(d) \/ LaunchSpawns(d) \/ LaunchEnds(d)
         \/ Dispatch(d) \/ RunUnwind(d) \/ RunUnlink(d)
  PROVE  Left(d)' < Left(d)
<1> USE DEF TypeOK, Left, RunStage, ToClose
<1>1. CASE StopSession(d)
  BY <1>1 DEF StopSession
<1>2. CASE CloseSession(d)
  BY <1>2 DEF CloseSession, Owned
<1>3. CASE LaunchSpawns(d)
  BY <1>3 DEF LaunchSpawns, NoSession
<1>4. CASE LaunchEnds(d)
  BY <1>4 DEF LaunchEnds, Owned
<1>5. CASE Dispatch(d) \/ RunUnwind(d) \/ RunUnlink(d)
  BY <1>5 DEF Dispatch, RunUnwind, RunUnlink
<1> QED BY <1>1, <1>2, <1>3, <1>4, <1>5

LEMMA IdleNearer ==
  ASSUME TypeOK, NEW d \in Daemons, IdleStops(d)
  PROVE  Left(d)' <= Left(d) /\ (RunStep(d) => Left(d)' < Left(d))
<1>1. CASE dlv' = dlv
  BY <1>1, Stays DEF IdleStops
<1>2. CASE dlv[d] = "session" /\ dlv' = [dlv EXCEPT ![d] = "none"]
  <2>1. dpc'[d] = dpc[d] /\ dlv'[d] = "none"
    BY <1>2 DEF IdleStops, TypeOK
  <2>2. ~RunStep(d)
    BY <1>2, <2>1, RunMoves
  <2>3. Left(d)' <= Left(d)
    <3>1. RunStage(dpc[d]) \in 0 .. 6
      BY DEF RunStage
    <3>2. ToClose(dlv[d]) = 2 /\ ToClose(dlv'[d]) = 0
      BY <1>2, <2>1 DEF ToClose
    <3> QED BY <2>1, <3>1, <3>2 DEF Left
  <2> QED BY <2>2, <2>3
<1> QED BY <1>1, <1>2 DEF IdleStops

LEMMA AnswerNearer ==
  ASSUME TypeOK, NEW d \in Daemons, AnswerStep(d)
  PROVE  Left(d)' < Left(d)
<1> USE DEF TypeOK, Left, RunStage, ToClose
<1>1. CASE Answer(d) \/ HandlePause(d)
  BY <1>1 DEF Answer, HandlePause
<1>2. CASE Panic(d) \/ HandleDown(d)
  BY <1>2 DEF Panic, HandleDown
<1> QED BY <1>1, <1>2 DEF AnswerStep

LEMMA DaemonAdvance ==
  ASSUME IInv, NEW e \in Daemons, DaemonStep(e)
  PROVE  Advance
<1>1. TypeOK /\ Room
  BY DEF IInv
<1>2. \A c \in Clients : cpc'[c] # cpc[c] => cpc'[c] = "idle"
  <2>1. CASE QuietStep(e) \/ Accept(e)
    BY <2>1 DEF QuietStep, RunRemove, Listen, StopSession, CloseSession, LaunchSpawns,
                LaunchEnds, Dispatch, RunUnwind, RunUnlink, Elapse, IdleDecides, IdleStops,
                IdleCloses, IdleRemoves, Accept, clientVars
  <2>2. CASE AnswerStep(e)
    BY <1>1, <2>2 DEF AnswerStep, Answer, HandlePause, Panic, HandleDown, Finish, TypeOK
  <2>3. CASE DeathStep(e)
    BY <1>1, <2>3 DEF DeathStep, RunClose, Killed, IdleExits, Dies, TypeOK
  <2> QED BY <2>1, <2>2, <2>3 DEF DaemonStep
<1>3. \A c \in Clients :
        cpc'[c] # cpc[c] => cpc[c] = "idle" \/ Stage(cpc'[c]) < Stage(cpc[c])
  BY <1>1, <1>2, StageBounds DEF TypeOK
<1>4. ASSUME NEW d \in Daemons, NEW i \in Places(d), Holder(d, i) # 0
      PROVE  \/ cpc'[Holder(d, i)] = "idle"
             \/ \E j \in Places(d)' :
                  /\ Holder(d, j)' = Holder(d, i) /\ Ahead(d, j)' <= Ahead(d, i)
                  /\ RunStep(d) => Ahead(d, j)' < Ahead(d, i)
  <2>1. /\ dpc[d] \in Listening /\ Holder(d, i) \in Clients /\ i \in Nat
        /\ i \in 0 .. Len(backlog[d])
    BY <1>4, HolderListens DEF Places
  <2>2. CASE UNCHANGED <<serving[d], backlog[d], dpc[d], dlv[d]>>
    <3>1. i \in Places(d)' /\ Holder(d, i)' = Holder(d, i)
      BY <2>2 DEF Places, Holder
    <3> QED BY <1>1, <2>2, <3>1, Stays, PlaceNearer
  <2>3. CASE d # e
    <3>1. UNCHANGED <<serving[d], backlog[d], dpc[d], dlv[d]>>
      BY <1>1, <2>3 DEF DaemonStep, QuietStep, RunRemove, Listen, StopSession,
                        CloseSession, LaunchSpawns, LaunchEnds, Dispatch, RunUnwind,
                        RunUnlink, Elapse, IdleDecides, IdleStops, IdleCloses, IdleRemoves,
                        Accept, AnswerStep, Answer, HandlePause, Panic, HandleDown,
                        DeathStep, RunClose, Killed, IdleExits, Dies, TypeOK
    <3> QED BY <2>2, <3>1
  <2>4. CASE d = e /\ QuietStep(d)
    <3>1. UNCHANGED <<serving, backlog>>
      BY <2>4 DEF QuietStep, RunRemove, Listen, StopSession, CloseSession, LaunchSpawns,
                  LaunchEnds, Dispatch, RunUnwind, RunUnlink, Elapse, IdleDecides,
                  IdleStops, IdleCloses, IdleRemoves
    <3>2. i \in Places(d)' /\ Holder(d, i)' = Holder(d, i)
      BY <3>1 DEF Places, Holder
    <3>3. CASE \/ StopSession(d) \/ CloseSession(d) \/ LaunchSpawns(d) \/ LaunchEnds(d)
               \/ Dispatch(d) \/ RunUnwind(d) \/ RunUnlink(d)
      <4>1. Left(d)' < Left(d)
        BY <3>3, QuietNearer DEF IInv
      <4> QED BY <1>1, <3>2, <4>1, LeftBounds, PlaceNearer
    <3>4. CASE Elapse(d) \/ IdleDecides(d) \/ IdleCloses(d) \/ IdleRemoves(d)
      <4>1. UNCHANGED <<dpc[d], dlv[d]>>
        BY <3>4 DEF Elapse, IdleDecides, IdleCloses, IdleRemoves
      <4> QED BY <1>1, <3>2, <4>1, Stays, PlaceNearer
    <3>5. CASE IdleStops(d)
      <4>1. Left(d)' <= Left(d) /\ (RunStep(d) => Left(d)' < Left(d))
        BY <1>1, <3>5, IdleNearer
      <4> QED BY <1>1, <3>2, <4>1, PlaceNearer
    <3>6. ~RunRemove(d) /\ ~Listen(d)
      BY <2>1 DEF RunRemove, Listen, Listening
    <3> QED BY <2>4, <3>3, <3>4, <3>5, <3>6 DEF QuietStep
  <2>5. CASE d = e /\ Accept(d)
    <3>1. /\ dpc[d] = "accept" /\ dpc'[d] = "handle" /\ serving[d] = 0
          /\ serving'[d] = Head(backlog[d]) /\ backlog'[d] = Tail(backlog[d])
          /\ backlog[d] \in Seq(Clients) /\ backlog[d] # << >>
      BY <1>1, <2>5 DEF Accept, Room, TypeOK
    <3>2. i # 0
      BY <1>4, <3>1 DEF Holder
    <3>3. /\ Len(backlog'[d]) = Len(backlog[d]) - 1 /\ Len(backlog[d]) \in Nat
          /\ serving'[d] = backlog[d][1]
          /\ \A j \in 1 .. Len(backlog[d]) - 1 : backlog'[d][j] = backlog[d][j + 1]
      BY <3>1
    <3>4. i - 1 \in Places(d)' /\ Holder(d, i - 1)' = Holder(d, i)
      BY <2>1, <3>2, <3>3 DEF Places, Holder
    <3>5. Ahead(d, i - 1)' < Ahead(d, i) /\ Ahead(d, i - 1)' \in Int /\ Ahead(d, i) \in Int
      <4>1. Left(d) = 0
        BY <3>1 DEF Left, RunStage
      <4>2. PICK left \in 0 .. 20 : Left(d)' = left
        BY LeftBounds
      <4>3. Ahead(d, i) = 21 * i
        BY <2>1, <4>1 DEF Ahead
      <4>4. Ahead(d, i - 1)' = 21 * (i - 1) + left
        BY <4>2 DEF Ahead
      <4> QED BY <2>1, <4>3, <4>4
    <3> QED BY <3>4, <3>5
  <2>6. CASE d = e /\ AnswerStep(d)
    <3>1. /\ serving' = [serving EXCEPT ![d] = 0] /\ backlog' = backlog
          /\ cpc' = [cpc EXCEPT ![serving[d]] = "idle"]
      BY <2>6 DEF AnswerStep, Answer, HandlePause, Panic, HandleDown, Finish
    <3>2. Left(d)' < Left(d)
      BY <1>1, <2>6, AnswerNearer
    <3>3. CASE i = 0
      BY <1>1, <2>1, <3>1, <3>3 DEF Holder, TypeOK
    <3>4. CASE i # 0
      <4>1. i \in Places(d)' /\ Holder(d, i)' = Holder(d, i)
        BY <3>1, <3>4 DEF Places, Holder
      <4> QED BY <1>1, <3>2, <4>1, LeftBounds, PlaceNearer
    <3> QED BY <3>3, <3>4
  <2>7. CASE d = e /\ DeathStep(d)
    <3>1. Holder(d, i) \in Connected(d)
      BY <1>1, <2>1, ConnectedCases
    <3>2. Dies(d)
      BY <2>7 DEF DeathStep, RunClose, Killed, IdleExits
    <3> QED BY <2>1, <3>1, <3>2 DEF Dies
  <2> QED BY <2>3, <2>4, <2>5, <2>6, <2>7 DEF DaemonStep
<1> QED BY <1>3, <1>4 DEF Advance

\* The way of a request through client.go and daemon.go has no loop: it is at most
\* five stages of Send and one turn of Run for each connection before it, the session
\* that it may have to close included, whatever other clients, other daemons and the
\* idle goroutines do in between.
THEOREM AdvanceCorrect == Spec => [][Advance]_vars
<1>1. IInv /\ [Next]_vars => [Advance]_vars
  BY ClientAdvance, DaemonAdvance, StepCases
<1> QED BY <1>1, Invariant, PTL DEF Spec

LEMMA InvariantNoneStuck == IInv => NoneStuck
<1> SUFFICES ASSUME IInv, NEW c \in Clients, cpc[c] # "idle", ~CanStep(c)
             PROVE  \E d \in Daemons : CanRun(d) /\ (cpc[c] = "wait" => c \in Connected(d))
  BY DEF NoneStuck
<1>1. TypeOK /\ Room /\ Owned /\ Answered
  BY DEF IInv
<1>2. CASE cpc[c] = "retry"
  <2>1. PICK d \in Daemons : dpc[d] \in {"started", "bind"}
    BY <1>2 DEF CanStep
  <2> QED BY <1>2, <2>1 DEF CanRun
<1>3. CASE cpc[c] = "wait"
  <2>1. PICK d \in Daemons : \E i \in Places(d) : Holder(d, i) = c
    BY <1>3 DEF IInv, Held
  <2>2. c \in Connected(d) /\ c # 0
    BY <1>1, <2>1, ConnectedCases, ClientsAssumption
  <2>3. dpc[d] \in Listening
    BY <2>1, <2>2, HolderListens
  <2>4. CASE dpc[d] = "accept"
    <3>1. serving[d] = 0
      BY <1>1, <2>4 DEF Room
    <3>2. backlog[d] # << >>
      BY <2>2, <3>1 DEF Connected
    <3> QED BY <2>2, <2>4, <3>2 DEF CanRun
  <2>5. CASE dpc[d] = "handle"
    <3>1. serving[d] \in Clients /\ cpc[serving[d]] = "wait"
      <4>1. serving[d] # 0
        BY <1>1, <2>5 DEF Room
      <4> QED BY <4>1, ServedWaits DEF IInv
    <3>2. Kind(d) # "none" /\ Kind(d) \in {"none", "launch", "cmd", "stop", "pause", "down"}
      BY <1>1, <3>1 DEF Kind, Answered, TypeOK
    <3>3. dlv[d] \in {"none", "session", "closing"}
      BY <1>1, <2>5 DEF Owned, TypeOK, DlvStates
    <3> QED BY <2>2, <2>5, <3>2, <3>3 DEF CanRun
  <2>6. CASE dpc[d] \notin {"accept", "handle"}
    <3>1. dpc[d] = "unwind" => dlv[d] \in {"none", "session", "closing"}
      BY <1>1 DEF Owned, TypeOK, DlvStates
    <3> QED BY <2>2, <2>3, <2>6, <3>1 DEF CanRun, Listening, RunStates
  <2> QED BY <2>4, <2>5, <2>6
<1>4. cpc[c] \in {"retry", "wait"}
  BY <1>1 DEF CanStep, TypeOK
<1> QED BY <1>2, <1>3, <1>4

\* Nobody waits for somebody who waits: in every reachable state a client with a
\* request can go on, or the daemon can that it waits for or that is starting.
THEOREM NoneStuckCorrect == Spec => []NoneStuck
BY InvariantNoneStuck, Invariant, PTL

-----------------------------------------------------------------------------
(* One client at a time.  The documents promise one session per project; two   *)
(* clients that start at once, or a daemon that goes idle or down while another *)
(* starts, break the promise (runs of MCLifecycle), so the theorems assume one. *)

LEMMA ClientAlone ==
  ASSUME NEW only, Clients = {only}, "down" \notin Requests, Faults \subseteq {"kill"},
         IInv, Alone, NEW c \in Clients,
         ClientStep(c) \/ \E k \in Requests : Request(c, k)
  PROVE  Alone'
<1> USE DEF Alone, Alive, Listening, RunStates, TypeOK, daemonVars
<1>1. TypeOK /\ 0 \notin Daemons /\ c = only
  BY DEF IInv, Daemons
<1>2. UNCHANGED ipc
  BY DEF ClientStep, Connect, DialFails, SpawnRemove, SpawnExec, RetryDeadline, Request
<1>3. CASE Connect(c)
  <2>1. sock \in Daemons /\ dpc[sock] \in Listening
    BY <1>1, <1>3, MaxDaemonsAssumption DEF Connect, Reachable, Daemons
  <2>2. /\ UNCHANGED <<sock, dpc, req>>
        /\ cpc' = [cpc EXCEPT ![c] = "wait"]
    BY <1>3 DEF Connect
  <2>3. \A d \in Daemons : dpc[d] \notin {"started", "bind"}
    BY <2>1
  <2>4. \A k \in Clients : cpc'[k] \notin {"spawn", "exec"} /\ req'[k] # "down"
    BY <1>1, <2>2
  <2>5. \A d \in Daemons : Alive(d)' <=> Alive(d)
    BY <2>2
  <2>6. \A d, e \in Daemons : Alive(d)' /\ Alive(e)' => d = e
    BY <2>5
  <2>7. \A d \in Daemons :
          /\ dpc'[d] \in Listening => sock' = d
          /\ dpc'[d] \notin {"unwind", "unlink", "close"} /\ ipc'[d] = "sleep"
    BY <1>2, <2>2
  <2> HIDE DEF Alive, Listening, RunStates, TypeOK
  <2>8. \A d \in Daemons : dpc'[d] \notin {"started", "bind"}
    BY <2>2, <2>3
  <2> QED BY <2>4, <2>6, <2>7, <2>8
<1>4. CASE DialFails(c)
  <2>1. \A d \in Daemons : ~Alive(d)
    <3>1. ~Reachable /\ cpc[c] = "dial"
      BY <1>4 DEF DialFails
    <3>2. \A d \in Daemons : dpc[d] \notin Listening
      BY <1>1, <3>1 DEF Reachable
    <3>3. \A d \in Daemons : dpc[d] \notin {"started", "bind"}
      BY <1>1, <3>1
    <3> QED BY <1>1, <3>2, <3>3
  <2>2. /\ UNCHANGED <<sock, dpc>> /\ req' \in {req, [req EXCEPT ![c] = "none"]}
    BY <1>4 DEF DialFails, Finish
  <2> QED BY <1>1, <1>2, <2>1, <2>2
<1>5. CASE SpawnRemove(c)
  <2>1. \A d \in Daemons : ~Alive(d)
    BY <1>1, <1>5 DEF SpawnRemove
  <2>2. UNCHANGED <<dpc, req>>
    BY <1>5 DEF SpawnRemove
  <2> QED BY <1>1, <1>2, <2>1, <2>2
<1>6. CASE SpawnExec(c)
  <2>1. \A d \in Daemons : ~Alive(d)
    BY <1>1, <1>6 DEF SpawnExec
  <2>2. sock' = sock /\ req' \in {req, [req EXCEPT ![c] = "none"]}
    BY <1>6 DEF SpawnExec, Finish
  <2>3. CASE dpc' = dpc
    BY <1>1, <1>2, <2>1, <2>2, <2>3
  <2>4. CASE /\ \E d \in Daemons : dpc' = [dpc EXCEPT ![d] = "started"]
             /\ cpc' = [cpc EXCEPT ![c] = "retry"]
    <3>1. PICK d \in Daemons : dpc' = [dpc EXCEPT ![d] = "started"]
      BY <2>4
    <3>2. \A k \in Clients : cpc'[k] = "retry"
      BY <1>1, <2>4
    <3>3. \A e \in Daemons : IF e = d THEN dpc'[e] = "started" ELSE dpc'[e] \in {"none", "dead"}
      BY <1>1, <2>1, <3>1
    <3>4. \A e, f \in Daemons : Alive(e)' /\ Alive(f)' => e = f
      <4>1. \A e \in Daemons : Alive(e)' => e = d
        BY <3>3
      <4> QED BY <4>1
    <3>5. \A e \in Daemons : /\ dpc'[e] \notin Listening /\ ipc'[e] = "sleep"
                             /\ dpc'[e] \notin {"unwind", "unlink", "close"}
      BY <1>2, <3>3
    <3>6. \A k \in Clients : req'[k] # "down"
      BY <1>1, <2>2
    <3> QED BY <3>2, <3>4, <3>5, <3>6
  <2> QED BY <1>6, <2>3, <2>4 DEF SpawnExec
<1>7. CASE RetryDeadline(c)
  <2>1. ~Reachable /\ \A d \in Daemons : dpc[d] \notin {"started", "bind"}
    BY <1>7 DEF RetryDeadline
  <2>2. \A d \in Daemons : dpc[d] \notin Listening
    BY <1>1, <2>1 DEF Reachable
  <2>3. \A d \in Daemons : ~Alive(d)
    BY <1>1, <2>1, <2>2
  <2>4. /\ UNCHANGED <<sock, dpc>> /\ req' = [req EXCEPT ![c] = "none"]
    BY <1>7 DEF RetryDeadline, Finish
  <2> QED BY <1>1, <1>2, <2>3, <2>4
<1>8. ASSUME NEW k \in Requests, Request(c, k) PROVE Alone'
  <2>1. /\ UNCHANGED <<sock, dpc>> /\ cpc[c] = "idle"
        /\ cpc' = [cpc EXCEPT ![c] = "dial"] /\ req' = [req EXCEPT ![c] = k]
    BY <1>8 DEF Request
  <2>2. k # "down"
    OBVIOUS
  <2> QED BY <1>1, <1>2, <2>1, <2>2
<1> QED BY <1>3, <1>4, <1>5, <1>6, <1>7, <1>8 DEF ClientStep

\* What Next lets a daemon do when nothing is idle and nothing panics.
LEMMA DaemonAlone ==
  ASSUME IInv, Alone, NEW d \in Daemons, RunStep(d) \/ Killed(d)
  PROVE  Alone'
<1> USE DEF Alone, Alive, Listening, RunStates, TypeOK, clientVars
<1>1. TypeOK /\ Room /\ 0 \notin Daemons
  BY DEF IInv, Daemons
<1>2. CASE RunRemove(d)
  <2>1. /\ dpc' = [dpc EXCEPT ![d] = "bind"] /\ dpc[d] = "started"
        /\ UNCHANGED <<ipc, cpc, req>>
    BY <1>2 DEF RunRemove
  <2> QED BY <1>1, <2>1
<1>3. CASE Listen(d)
  <2>1. /\ dpc[d] = "bind" /\ UNCHANGED <<ipc, cpc, req>>
        /\ \/ sock' = d /\ dpc' = [dpc EXCEPT ![d] = "accept"]
           \/ dpc' = [dpc EXCEPT ![d] = "dead"]
    BY <1>3 DEF Listen
  <2>2. \A e \in Daemons : e # d => dpc'[e] \in {"none", "dead"}
    <3>1. \A e \in Daemons : e # d => ~Alive(e)
      BY <2>1
    <3>2. \A e \in Daemons : e # d => dpc'[e] = dpc[e]
      BY <1>1, <2>1
    <3> QED BY <3>1, <3>2
  <2>3. /\ dpc'[d] \in {"accept", "dead"}
        /\ dpc'[d] = "accept" => sock' = d
        /\ \A c \in Clients : cpc'[c] = "retry"
    BY <1>1, <2>1
  <2> QED BY <2>1, <2>2, <2>3
\* From one listening state to another.
<1>4. ASSUME dpc[d] \in Listening, UNCHANGED <<sock, ipc>>,
             NEW s \in {"accept", "handle", "launching", "answer"},
             dpc' = [dpc EXCEPT ![d] = s],
             \A c \in Clients : /\ cpc'[c] \notin {"spawn", "exec"} \/ cpc'[c] = cpc[c]
                               /\ req'[c] \in {"none", req[c]}
      PROVE  Alone'
  <2>1. \A e \in Daemons : e # d => ~Alive(e)
    BY <1>4
  <2>2. \A e \in Daemons : e # d => dpc'[e] = dpc[e]
    BY <1>1, <1>4
  <2>3. dpc'[d] = s
    BY <1>1, <1>4
  <2>4. \A c \in Clients : cpc'[c] \notin {"spawn", "exec"}
    BY <1>4
  <2> QED BY <1>4, <2>1, <2>2, <2>3, <2>4
<1>5. CASE Accept(d) \/ LaunchSpawns(d) \/ LaunchEnds(d) \/ Dispatch(d)
  <2>1. /\ dpc[d] \in Listening /\ UNCHANGED <<sock, ipc, cpc, req>>
        /\ \E s \in {"accept", "handle", "launching", "answer"} : dpc' = [dpc EXCEPT ![d] = s]
    BY <1>5 DEF Accept, StopSession, CloseSession, LaunchSpawns, LaunchEnds, Dispatch
  <2> QED BY <1>4, <2>1
<1>6. CASE Answer(d) \/ HandlePause(d)
  <2>1. /\ dpc[d] \in Listening /\ UNCHANGED <<sock, ipc>>
        /\ dpc' = [dpc EXCEPT ![d] = "accept"]
        /\ cpc' = [cpc EXCEPT ![serving[d]] = "idle"]
        /\ req' = [req EXCEPT ![serving[d]] = "none"]
    BY <1>6 DEF Answer, HandlePause, Finish
  <2>2. \A c \in Clients : /\ cpc'[c] \notin {"spawn", "exec"} \/ cpc'[c] = cpc[c]
                           /\ req'[c] \in {"none", req[c]}
    BY <1>1, <2>1
  <2> QED BY <1>4, <2>1, <2>2
<1>7. CASE HandleDown(d)
  <2>1. serving[d] \in Clients
    BY <1>1, <1>7 DEF HandleDown, Room
  <2> QED BY <1>7, <2>1 DEF HandleDown, Kind
<1>8. CASE RunUnwind(d) \/ RunUnlink(d) \/ RunClose(d)
  BY <1>8 DEF RunUnwind, RunUnlink, RunClose
<1>10. CASE StopSession(d) \/ CloseSession(d)
  BY <1>10 DEF StopSession, CloseSession
<1>9. CASE Killed(d)
  <2>1. /\ dpc[d] \in Listening /\ sock' = sock
        /\ dpc' = [dpc EXCEPT ![d] = "dead"] /\ ipc' = [ipc EXCEPT ![d] = "sleep"]
    BY <1>9 DEF Killed, Dies
  <2>2. \A e \in Daemons : dpc'[e] \in {"none", "dead"}
    BY <1>1, <2>1
  <2>3. \A c \in Clients : req'[c] \in {"none", req[c]}
    BY <1>9 DEF Killed, Dies
  <2>4. \A e \in Daemons : ipc'[e] = "sleep"
    BY <1>1, <2>1
  <2> QED BY <2>2, <2>3, <2>4
<1> QED BY <1>2, <1>3, <1>5, <1>6, <1>7, <1>8, <1>9, <1>10 DEF RunStep, Serve

LEMMA AloneAlways ==
  ASSUME NEW only, Clients = {only}, "down" \notin Requests, Faults \subseteq {"kill"}
  PROVE  Spec => [](IInv /\ Alone)
<1>1. Init => Alone
  BY DEF Init, Alone, Alive, Listening, RunStates
<1>2. IInv /\ Alone /\ [Next]_vars => Alone'
  <2> SUFFICES ASSUME IInv, Alone, [Next]_vars PROVE Alone'
    OBVIOUS
  <2>1. ASSUME NEW c \in Clients, ClientStep(c) \/ \E k \in Requests : Request(c, k)
        PROVE  Alone'
    BY <2>1, ClientAlone
  <2>2. ASSUME NEW d \in Daemons, RunStep(d) \/ Killed(d)
        PROVE  Alone'
    BY <2>2, DaemonAlone
  <2>3. CASE UNCHANGED vars
    BY <2>3 DEF vars, Alone, Alive
  <2> QED BY <2>1, <2>2, <2>3 DEF Next
<1> QED BY <1>1, <1>2, InitInvariant, StepInvariant, PTL DEF Spec

\* README.md:48, "One paused process per project is held open between calls",
\* for one client at a time, over any number of killed daemons.
THEOREM OneSessionCorrect ==
  ASSUME NEW only, Clients = {only}, "down" \notin Requests, Faults \subseteq {"kill"}
  PROVE  Spec => []OneSession
<1>1. IInv /\ Alone => OneSession
  <2> SUFFICES ASSUME IInv, Alone PROVE OneSession
    OBVIOUS
  <2>1. \A d \in Sessions : d \in Daemons /\ Alive(d)
    BY DEF IInv, Owned, Alive, Listening, RunStates, Sessions
  <2>2. \A d, e \in Sessions : d = e
    BY <2>1 DEF Alone
  <2>3. CASE Sessions = {}
    BY <2>3, FS_EmptySet DEF OneSession
  <2>4. CASE Sessions # {}
    <3>1. PICK d \in Sessions : TRUE
      BY <2>4
    <3>2. Sessions = {d}
      BY <2>2, <3>1
    <3>3. Cardinality(Sessions) = 1
      BY <3>2, FS_Singleton
    <3> QED BY <3>3 DEF OneSession
  <2> QED BY <2>3, <2>4
<1> QED BY <1>1, AloneAlways, PTL

\* README.md:48, "state survives across commands": the daemon that has the session
\* is the one that the path leads to, for one client at a time.
THEOREM SessionReachableCorrect ==
  ASSUME NEW only, Clients = {only}, "down" \notin Requests, Faults \subseteq {"kill"}
  PROVE  Spec => []SessionReachable
<1>1. IInv /\ Alone => SessionReachable
  BY DEF Alone, SessionReachable, Listening, RunStates
<1> QED BY <1>1, AloneAlways, PTL
=============================================================================
