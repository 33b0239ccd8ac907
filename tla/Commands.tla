------------------------------ MODULE Commands ------------------------------
(***************************************************************************)
(* handle, dispatch and execute (internal/daemon/daemon.go, commands.go)   *)
(* for one command at a time: launch and trace with their flags, do with   *)
(* its script, eval's reading of its words, and the usage log (usage.go).  *)
(* What the other commands do to a session is in Session; here they end    *)
(* well or with an error.                                                  *)
(***************************************************************************)
EXTENDS Args, FiniteSets

CONSTANTS Numerals,   \* texts that strconv.Atoi accepts
          TestArgs,   \* texts such as -run, -v and -count=1
          Special     \* texts with one of "(=<>+*/ " in them

VARIABLES up,         \* a daemon serves the path
          sess,       \* its session: how it was launched
          cmd,        \* the command in execute
          pc,         \* "idle", "next", "parse", "start", "breaks", "done"
          left,       \* the words left of the script of a do
          inDo,       \* a do is in progress
          deep,       \* how many dos in it are
          todo,       \* locations that have no breakpoint yet
          last,       \* how the last command ended: "ok", "usage", "error"
          evaluated,  \* the expressions of the last eval
          log,        \* the usage log: commands and whether they ended well
          before,     \* history: sess when the last command began
          ran         \* history: the commands of the last do and how they ended

comVars == <<up, sess, cmd, pc, left, inDo, deep, todo, last, evaluated, log, before,
             ran>>

\* launchSpec, and its flags that take a value.
LaunchFlags == {"pkg", "test", "bin-path", "build-flags", "break", "break-fn",
                "stop-entry", "capture", "max", "bt"}
LaunchValued == LaunchFlags \ {"stop-entry"}

ASSUME LaunchAssumption == Names = LaunchFlags /\ Valued = LaunchValued

NoSession == [mode |-> "none"]
OldSession == [mode |-> "old"]

ComInit ==
  /\ ArgsInit /\ up \in BOOLEAN
  /\ sess \in IF up THEN {NoSession, OldSession} ELSE {NoSession}
  /\ cmd = "" /\ pc = "idle" /\ left = << >> /\ inDo = FALSE /\ deep = 0 /\ todo = << >>
  /\ last = "ok" /\ evaluated = << >> /\ log = << >>
  /\ before = sess /\ ran = << >>

Outcomes == {"ok", "error"}

\* record appends to the usage log; a do goes on with its next command, or ends
\* because this one failed; a command of its own returns to handle.
Ends(c, r) ==
  /\ log' = Append(log, <<c, r = "ok">>) /\ last' = r
  /\ ran' = IF inDo THEN Append(ran, <<c, r = "ok">>) ELSE ran
  /\ pc' = IF inDo THEN "next" ELSE "done"

-----------------------------------------------------------------------------
(* launch and trace.                                                        *)

First(n) == IF flags[n] = << >> THEN Empty ELSE flags[n][1]
Locations == flags["break"] \o flags["break-fn"]

\* launchMode counts the flags that name a target.
Targets == {n \in {"pkg", "test", "bin-path"} : First(n) # Empty}

\* The package or binary that was asked for.
Asked == {First(t) : t \in Targets}

\* -run, -v, -count=1 and the like become -test.run and so on.
normalizeTestArgs(ws) ==
  IF "test" \notin Targets THEN ws
  ELSE [j \in DOMAIN ws |-> IF ws[j].k = "plain" /\ ws[j].v \in TestArgs
                            THEN Test(ws[j].v) ELSE ws[j]]

NotANumber(n) == First(n) # Empty
                 /\ ~(First(n).k = "plain" /\ First(n).v \in Numerals)

\* The refusals of cmdLaunch and cmdTrace before they touch the session.
BadUsage ==
  \/ parser = "refused"
  \/ cmd = "launch" /\ pos # << >>
  \/ cmd = "trace" /\ (Locations = << >> \/ NotANumber("max") \/ NotANumber("bt"))
  \/ Cardinality(Targets) # 1

Refuse ==
  /\ pc = "parse" /\ parser \in {"done", "refused"} /\ BadUsage
  /\ Ends(cmd, "usage")
  /\ UNCHANGED <<argsVars, up, sess, cmd, left, inDo, deep, todo, evaluated, before>>

\* Variant for mutation: the old session is stopped before the target flags are
\* looked at.
StopOldFirst ==
  /\ pc = "parse" /\ parser = "done"
  /\ sess' = NoSession
  /\ IF BadUsage THEN Ends(cmd, "usage")
     ELSE pc' = "start" /\ UNCHANGED <<last, log, ran>>
  /\ UNCHANGED <<argsVars, up, cmd, left, inDo, deep, todo, evaluated, before>>

\* stopSession; newSession is on its way.
StopOld ==
  /\ pc = "parse" /\ parser = "done" /\ ~BadUsage
  /\ sess' = NoSession /\ pc' = "start"
  /\ UNCHANGED <<argsVars, up, cmd, left, inDo, deep, todo, last, evaluated, log,
                 before, ran>>

StartFails ==
  /\ pc = "start" /\ Ends(cmd, "error")
  /\ UNCHANGED <<argsVars, up, sess, cmd, left, inDo, deep, todo, evaluated, before>>

\* Variant for mutation: the functions to break at are left out.
StartedWithoutFunctions ==
  /\ pc = "start"
  /\ sess' = [mode |-> CHOOSE n \in Targets : TRUE, target |-> Asked,
              args |-> normalizeTestArgs(rest), bps |-> << >>, resumed |-> FALSE]
  /\ todo' = flags["break"] /\ pc' = "breaks"
  /\ UNCHANGED <<argsVars, up, cmd, left, inDo, deep, last, evaluated, log, before,
                 ran>>

\* newSession has built and started the target: setSession.
Started ==
  /\ pc = "start"
  /\ sess' = [mode |-> CHOOSE n \in Targets : TRUE, target |-> Asked,
              args |-> normalizeTestArgs(rest), bps |-> << >>, resumed |-> FALSE]
  /\ todo' = Locations /\ pc' = "breaks"
  /\ UNCHANGED <<argsVars, up, cmd, left, inDo, deep, last, evaluated, log, before,
                 ran>>

SetBreakpoint ==
  /\ pc = "breaks" /\ todo # << >>
  /\ sess' = [sess EXCEPT !.bps = Append(@, Head(todo))] /\ todo' = Tail(todo)
  /\ UNCHANGED <<argsVars, up, cmd, pc, left, inDo, deep, last, evaluated, log, before,
                 ran>>

\* Variant for mutation: the half-made session is left to the user.
BreakpointFailsKeeps ==
  /\ pc = "breaks" /\ todo # << >>
  /\ Ends(cmd, "error") /\ todo' = << >>
  /\ UNCHANGED <<argsVars, up, sess, cmd, left, inDo, deep, evaluated, before>>

\* createBreakpoint refuses a location: stopSession.
BreakpointFails ==
  /\ pc = "breaks" /\ todo # << >>
  /\ sess' = NoSession /\ Ends(cmd, "error") /\ todo' = << >>
  /\ UNCHANGED <<argsVars, up, cmd, left, inDo, deep, evaluated, before>>

\* Without breakpoints, or with --stop-entry, launch stays before main.
PausedAtEntry == cmd = "launch" /\ (Locations = << >> \/ flags["stop-entry"] # << >>)

\* Variant for mutation: the target is resumed when the --break flags are done.
LaunchedEarly ==
  /\ pc = "breaks" /\ Len(todo) <= Len(flags["break-fn"])
  /\ IF PausedAtEntry THEN Ends(cmd, "ok") /\ UNCHANGED sess
     ELSE /\ sess' = [sess EXCEPT !.resumed = TRUE]
          /\ \E r \in Outcomes : Ends(cmd, r)
  /\ UNCHANGED <<argsVars, up, cmd, left, inDo, deep, todo, evaluated, before>>

Launched ==
  /\ pc = "breaks" /\ todo = << >>
  /\ IF PausedAtEntry THEN Ends(cmd, "ok") /\ UNCHANGED sess
     ELSE /\ sess' = [sess EXCEPT !.resumed = TRUE]
          /\ \E r \in Outcomes : Ends(cmd, r)
  /\ UNCHANGED <<argsVars, up, cmd, left, inDo, deep, todo, evaluated, before>>

LaunchStep == \/ ParseStep /\ UNCHANGED comVars
              \/ Refuse \/ StopOld \/ StartFails \/ Started
              \/ SetBreakpoint \/ BreakpointFails \/ Launched

-----------------------------------------------------------------------------
(* The other commands.                                                      *)

\* Words that look like one expression are joined, others stand for themselves.
EvalExpressions(ws) ==
  IF Len(ws) > 1 /\ \E j \in DOMAIN ws : ws[j].v \in Special THEN <<ws>>
  ELSE [j \in DOMAIN ws |-> <<ws[j]>>]

\* Every expression is evaluated and shows its own error.
Eval(ws) ==
  /\ evaluated' = IF sess = NoSession THEN << >> ELSE EvalExpressions(ws)
  /\ Ends("eval", IF sess = NoSession THEN "error"
                  ELSE IF ws = << >> THEN "usage" ELSE "ok")
  /\ UNCHANGED sess

\* stop ends the session; usage needs none; down does nothing inside a do.
Simple(c) ==
  /\ c \notin {"launch", "trace", "eval", "do"}
  /\ \/ c \in {"usage", "down"} /\ Ends(c, "ok") /\ UNCHANGED sess
     \/ c \notin {"usage", "down"} /\ sess = NoSession
        /\ Ends(c, "error") /\ UNCHANGED sess
     \/ c = "stop" /\ sess # NoSession /\ sess' = NoSession /\ Ends(c, "ok")
     \/ c \notin {"usage", "down", "stop"} /\ sess # NoSession
        /\ \E r \in Outcomes : Ends(c, r) /\ UNCHANGED sess
  /\ UNCHANGED evaluated

\* execute, for a command given alone or by a do.
Execute(argv) ==
  LET c == argv[1].v IN
  /\ cmd' = c /\ before' = sess
  /\ \/ /\ c \in {"launch", "trace"}
        /\ Parse(Tail(argv)) /\ pc' = "parse"
        /\ UNCHANGED <<sess, last, evaluated, log, ran>>
     \/ c = "eval" /\ Eval(Tail(argv)) /\ UNCHANGED argsVars
     \/ Simple(c) /\ UNCHANGED argsVars

-----------------------------------------------------------------------------
(* do.                                                                      *)

Semicolon == Plain(";")

\* The script begins; its commands are dispatched one by one.
BeginDo(words) ==
  /\ left' = words /\ inDo' = TRUE /\ ran' = << >> /\ pc' = "next"
  /\ UNCHANGED <<argsVars, sess, cmd, deep, todo, last, evaluated, log, before>>

Failed == ran # << >> /\ ~ran[Len(ran)][2]

\* Word j, or the end of the script, ends its first part.
PartEnd(j) == /\ j <= Len(left) => left[j] = Semicolon
              /\ \A h \in 1 .. j - 1 : left[h] # Semicolon

\* The first part, which ends before word j, begins with k times "do".
Begins(j, k) == /\ k < j /\ \A h \in 1 .. k : left[h].v = "do"
                /\ k + 1 < j => left[k + 1].v # "do"

\* The first part is dispatched, the rest stays; an empty part is skipped.  A do in
\* it has a script of one part.
DispatchPart ==
  \E j \in 1 .. Len(left) + 1 : \E k \in 0 .. j - 1 :
    /\ PartEnd(j) /\ left' = SubSeq(left, j + 1, Len(left))
    /\ Begins(j, k) /\ deep' = k
    /\ IF k = j - 1 THEN UNCHANGED <<argsVars, sess, cmd, pc, last, evaluated, log,
                                    before, ran>>
       ELSE Execute(SubSeq(left, k + 1, j - 1))
    /\ UNCHANGED <<up, inDo, todo>>

\* Variant for mutation: a failing command does not end the script.
DoNextAnyway == pc = "next" /\ deep = 0 /\ left # << >> /\ DispatchPart

DoNext == pc = "next" /\ deep = 0 /\ left # << >> /\ ~Failed /\ DispatchPart

\* A do ends well, whatever its commands did: the one around it goes on.
InnerDoEnds ==
  /\ pc = "next" /\ deep > 0
  /\ deep' = deep - 1 /\ last' = "ok"
  /\ log' = Append(log, <<"do", TRUE>>) /\ ran' = Append(ran, <<"do", TRUE>>)
  /\ UNCHANGED <<argsVars, up, sess, cmd, pc, left, inDo, todo, evaluated, before>>

DoEnds ==
  /\ pc = "next" /\ deep = 0 /\ (left = << >> \/ Failed)
  /\ inDo' = FALSE /\ left' = << >>
  /\ log' = Append(log, <<"do", TRUE>>) /\ last' = "ok" /\ pc' = "done"
  /\ UNCHANGED <<argsVars, up, sess, cmd, deep, todo, evaluated, before, ran>>

-----------------------------------------------------------------------------
(* handle.                                                                  *)

\* Variant for mutation: the session is forgotten and not ended.
DownKeepsSession ==
  /\ up' = FALSE /\ UNCHANGED sess
  /\ Ends("down", "ok") /\ cmd' = "down" /\ before' = sess
  /\ UNCHANGED <<argsVars, left, inDo, deep, todo, evaluated>>

\* "down" is answered here: the session and the daemon end.
Down ==
  /\ sess' = NoSession /\ up' = FALSE
  /\ Ends("down", "ok") /\ cmd' = "down" /\ before' = sess
  /\ UNCHANGED <<argsVars, left, inDo, deep, todo, evaluated>>

\* A request reaches the daemon, one that was started for it included.  pause,
\* which handle answers itself, is one of the simple commands.
Handle(argv) ==
  /\ pc = "idle"
  /\ \/ argv[1].v = "down" /\ Down
     \/ argv[1].v = "do" /\ up' = TRUE /\ BeginDo(Tail(argv))
     \/ argv[1].v \notin {"down", "do"} /\ up' = TRUE
        /\ Execute(argv) /\ UNCHANGED <<left, inDo, deep, todo>>

\* The daemon goes away, idle or in the middle of a command, whose client is
\* told that the connection is lost.
DaemonEnds ==
  /\ up /\ up' = FALSE /\ sess' = NoSession /\ inDo' = FALSE
  /\ pc' = (IF pc = "idle" THEN "idle" ELSE "done")
  /\ last' = "error" /\ parser' = "off" /\ left' = << >> /\ deep' = 0 /\ todo' = << >>
  /\ before' = NoSession /\ cmd' = ""
  /\ UNCHANGED <<args, i, flags, pos, rest, evaluated, log, ran>>

CommandStep == LaunchStep \/ DoNext \/ InnerDoEnds \/ DoEnds
=============================================================================
