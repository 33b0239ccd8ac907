-------------------------------- MODULE Mcp ---------------------------------
(***************************************************************************)
(* The two front ends of one daemon: the command line (cmd/gdbg/main.go)   *)
(* and the MCP server's loop over its input (internal/mcp/mcp.go).  Each   *)
(* waits for the answer to its request before it goes on.                  *)
(***************************************************************************)
EXTENDS Commands

CONSTANT Workloads   \* pairs: the messages of the MCP client, the command lines

VARIABLES input,     \* lines of standard input
          n,         \* index of the next line
          replies,   \* what the MCP server has written
          lines,     \* command lines left to the user
          exits,     \* exit codes of those that ended
          caller     \* whose request the daemon has: "none", "mcp", "cli"

mcpVars == <<input, n, replies, lines, exits, caller>>
vars == <<argsVars, comVars, mcpVars>>

\* A message: its kind, its id (0: none) and, for a tool call, tool and arguments.
\* A line that is no JSON, or empty, has kind "garbage"; one longer than the
\* scanner's buffer has kind "overlong".
Message(k, id, tool, a) == [k |-> k, id |-> id, tool |-> tool, a |-> a]

\* What the arguments of a launch or trace may be, and what a client may send.
LaunchArguments ==
  [pkg : Texts, test : Texts, bin_path : Texts, build_flags : Texts, capture : Texts,
   max_hits : Texts, breakpoints : Seq(Texts), break_functions : Seq(Texts),
   args : Seq(Texts), stop_entry : BOOLEAN]

LaunchTools == {"debug_launch", "debug_trace"}

Messages ==
  [k : {"call"}, id : Nat, tool : LaunchTools, a : LaunchArguments]
    \cup [k : {"call"}, id : Nat, tool : {"debug_eval"}, a : [expressions : Seq(Texts)]]
    \cup [k : {"call", "method", "nomethod", "garbage", "overlong"}, id : Nat,
          tool : STRING \ (LaunchTools \cup {"debug_eval"}), a : LaunchArguments]

Lines == Seq(Seq(Word) \ {<< >>})

ASSUME WorkloadsAssumption ==
  /\ Workloads \subseteq Seq(Messages) \X Lines
  /\ {"launch", "trace", "eval", "stop", "pause", "vars"} \subseteq Texts

Init == /\ ComInit /\ \E w \in Workloads : input = w[1] /\ lines = w[2]
        /\ n = 1 /\ replies = << >> /\ exits = << >> /\ caller = "none"

-----------------------------------------------------------------------------
(* Tools.                                                                   *)

\* --flag value, unless the argument is absent or "".
Option(flag, v) == IF v = "" THEN << >> ELSE <<Flag(flag), Plain(v)>>
Repeat(flag, vs) == [j \in 1 .. 2 * Len(vs) |->
                       IF j % 2 = 1 THEN Flag(flag) ELSE Plain(vs[j \div 2])]
Words(vs) == [j \in DOMAIN vs |-> Plain(vs[j])]

\* Variant for mutation: the program's arguments follow without a "--".
launchArgvNoEnd(c, a) ==
  <<Plain(c)>> \o Option("pkg", a.pkg) \o Option("test", a.test)
    \o Option("bin-path", a.bin_path) \o Repeat("break", a.breakpoints)
    \o Repeat("break-fn", a.break_functions) \o Option("build-flags", a.build_flags)
    \o Words(a.args)

launchArgv(c, a) ==
  <<Plain(c)>> \o Option("pkg", a.pkg) \o Option("test", a.test)
    \o Option("bin-path", a.bin_path) \o Repeat("break", a.breakpoints)
    \o Repeat("break-fn", a.break_functions) \o Option("build-flags", a.build_flags)
    \o (IF c = "trace" THEN Option("capture", a.capture) \o Option("max", a.max_hits)
        ELSE << >>)
    \o (IF c = "launch" /\ a.stop_entry THEN <<Flag("stop-entry")>> ELSE << >>)
    \o (IF a.args = << >> THEN << >> ELSE <<End>> \o Words(a.args))

Tools == {"debug_launch", "debug_trace", "debug_eval", "debug_stop", "debug_vars",
          "debug_pause", "debug_where"}

\* debug_where, debug_definition, debug_hover and debug_references need no daemon.
LocalTools == {"debug_where"}

Argv(m) ==
  CASE m.tool = "debug_launch" -> launchArgv("launch", m.a)
    [] m.tool = "debug_trace"  -> launchArgv("trace", m.a)
    [] m.tool = "debug_eval"   -> <<Plain("eval")>> \o Words(m.a.expressions)
    [] m.tool = "debug_stop"   -> <<Plain("stop")>>
    [] m.tool = "debug_pause"  -> <<Plain("pause")>>
    [] m.tool = "debug_vars"   -> <<Plain("vars")>>

-----------------------------------------------------------------------------
(* Serve.                                                                   *)

Line == input[n]
Listening == n <= Len(input) /\ caller # "mcp"

\* reply writes nothing to a notification.
Reply(kind) ==
  /\ replies' = IF Line.id = 0 THEN replies
                ELSE Append(replies, [id |-> Line.id, kind |-> kind])
  /\ n' = n + 1

Skip ==
  /\ Listening /\ Line.k = "garbage" /\ n' = n + 1
  /\ UNCHANGED <<argsVars, comVars, input, replies, lines, exits, caller>>

\* Scan returns FALSE: the server ends with what it has not read.
TooLong ==
  /\ Listening /\ Line.k = "overlong" /\ n' = Len(input) + 1
  /\ UNCHANGED <<argsVars, comVars, input, replies, lines, exits, caller>>

\* initialize, ping, tools/list; and a method or a tool that there is not.
Known ==
  /\ Listening /\ Line.k = "method" /\ Reply("result")
  /\ UNCHANGED <<argsVars, comVars, input, lines, exits, caller>>

\* Variant for mutation: an unknown tool is passed over.
UnknownSilent ==
  /\ Listening
  /\ \/ Line.k = "nomethod" /\ Reply("error")
     \/ Line.k = "call" /\ Line.tool \notin Tools
        /\ n' = n + 1 /\ UNCHANGED replies
  /\ UNCHANGED <<argsVars, comVars, input, lines, exits, caller>>

Unknown ==
  /\ Listening
  /\ \/ Line.k = "nomethod"
     \/ Line.k = "call" /\ Line.tool \notin Tools
  /\ Reply("error")
  /\ UNCHANGED <<argsVars, comVars, input, lines, exits, caller>>

\* A tool that fails is a result with isError.
CallLocal ==
  /\ Listening /\ Line.k = "call" /\ Line.tool \in LocalTools
  /\ \E r \in {"result", "isError"} : Reply(r)
  /\ UNCHANGED <<argsVars, comVars, input, lines, exits, caller>>

\* The call goes to the daemon, with or without an id; Send starts a daemon.
Call ==
  /\ Listening /\ caller = "none"
  /\ Line.k = "call" /\ Line.tool \in Tools \ LocalTools
  /\ Handle(Argv(Line)) /\ caller' = "mcp"
  /\ UNCHANGED <<input, n, replies, lines, exits>>

\* Variant for mutation: the failure of a command is not passed on.
CallReturnsOnSuccess ==
  /\ caller = "mcp" /\ pc = "done" /\ last = "ok"
  /\ Reply("result")
  /\ caller' = "none" /\ pc' = "idle"
  /\ UNCHANGED <<argsVars, up, sess, cmd, left, inDo, deep, todo, last, evaluated, log,
                 before, ran, input, lines, exits>>

CallReturns ==
  /\ caller = "mcp" /\ pc = "done"
  /\ Reply(IF last = "ok" THEN "result" ELSE "isError")
  /\ caller' = "none" /\ pc' = "idle"
  /\ UNCHANGED <<argsVars, up, sess, cmd, left, inDo, deep, todo, last, evaluated, log,
                 before, ran, input, lines, exits>>

-----------------------------------------------------------------------------
(* The command line.                                                        *)

OnlyIfRunning(argv) == argv[1].v \in {"down", "stop"}

NoDaemonRunning ==
  /\ lines # << >> /\ caller # "cli" /\ ~up /\ OnlyIfRunning(Head(lines))
  /\ lines' = Tail(lines) /\ exits' = Append(exits, 0)
  /\ UNCHANGED <<argsVars, comVars, input, n, replies, caller>>

Run ==
  /\ lines # << >> /\ caller = "none" /\ (up \/ ~OnlyIfRunning(Head(lines)))
  /\ Handle(Head(lines)) /\ caller' = "cli"
  /\ UNCHANGED <<input, n, replies, lines, exits>>

\* down and stop print the answer whatever it says.
RunReturns ==
  /\ caller = "cli" /\ pc = "done"
  /\ exits' = Append(exits, IF last = "ok" \/ OnlyIfRunning(Head(lines)) THEN 0 ELSE 1)
  /\ lines' = Tail(lines) /\ caller' = "none" /\ pc' = "idle"
  /\ UNCHANGED <<argsVars, up, sess, cmd, left, inDo, deep, todo, last, evaluated, log,
                 before, ran, input, n, replies>>

-----------------------------------------------------------------------------
Serve == Skip \/ TooLong \/ Known \/ Unknown \/ CallLocal \/ Call \/ CallReturns
CommandLine == NoDaemonRunning \/ Run \/ RunReturns
Daemon == CommandStep /\ UNCHANGED mcpVars

Next == \/ Serve \/ CommandLine \/ Daemon
        \/ DaemonEnds /\ UNCHANGED mcpVars

Spec == Init /\ [][Next]_vars

\* The server, the user's commands and the daemon are scheduled; a tool that
\* waits for the daemon gets its turn between two command lines.
FairSpec == Spec /\ WF_vars(Serve) /\ WF_vars(CommandLine) /\ WF_vars(Daemon)

-----------------------------------------------------------------------------
(* Properties.                                                              *)

TypeOK ==
  /\ ArgsTypeOK
  /\ up \in BOOLEAN /\ (sess # NoSession => up)
  /\ pc \in {"idle", "next", "parse", "start", "breaks", "done"}
  /\ left \in Seq(Word) /\ inDo \in BOOLEAN /\ deep \in Nat /\ todo \in Seq(Word)
  /\ last \in {"ok", "usage", "error"}
  /\ n \in 1 .. Len(input) + 1 /\ caller \in {"none", "mcp", "cli"}

Rested == pc \in {"idle", "next", "done"}

\* launch and trace refuse bad arguments before they stop the running session:
\* a mistyped command line does not lose the state of the debugger.
UsageErrorsKeepSession == Rested /\ last = "usage" => sess = before

\* Between two commands there is no half-made session: it has every breakpoint
\* that its command line asked for, in order, also when it was never resumed.
SessionsAreWhole ==
  Rested /\ cmd \in {"launch", "trace"} /\ sess # before /\ sess # NoSession
    => sess.bps = Locations /\ sess.target = Asked

\* Where the command is: it stays with the daemon until it ends, and parses its
\* words before it starts a target.
Progress ==
  /\ pc \notin {"idle", "done"} => up
  /\ pc \in {"idle", "done"} => ~inDo
  /\ parser = "on" => pc = "parse"
  /\ pc = "parse" => parser # "off"
  /\ pc \in {"parse", "start", "breaks"} => cmd \in {"launch", "trace"}
  /\ caller = "mcp" => n <= Len(input)
  /\ caller = "cli" => lines # << >>

\* The session that launch is about to make: the old one until the words are
\* accepted, then none, then one whose other breakpoints are still to come.
HalfMade ==
  /\ pc = "parse" => sess = before
  /\ pc = "start" => sess = NoSession
  /\ pc = "breaks" =>
       /\ DOMAIN sess = {"mode", "target", "args", "bps", "resumed"}
       /\ sess.target = Asked /\ sess.resumed = FALSE
       /\ sess.bps \in Seq(Word) /\ sess.bps \o todo = Locations

\* The commands of the usage log.
Entries == (Texts \cup {"do", "down"}) \X BOOLEAN

\* The script so far: it goes on as long as no command failed, and the usage log
\* ends with its commands.
ScriptSoFar ==
  /\ log \in Seq(Entries) /\ ran \in Seq(Entries)
  /\ pc = "next" => inDo
  /\ inDo /\ Failed => pc = "next"
  /\ inDo => /\ Len(ran) <= Len(log)
             /\ ran = SubSeq(log, Len(log) - Len(ran) + 1, Len(log))

\* The server waits for the daemon only for a tool, and an overlong line has not
\* been met unless it has ended.
AnswersSoFar ==
  /\ replies \in Seq([id : Nat, kind : {"result", "isError", "error"}])
  /\ caller = "mcp" => Line.k = "call"
  /\ n <= Len(input) => \A h \in 1 .. n - 1 : input[h].k # "overlong"

\* What the daemon does for the server is the tool's command, alone, and while it
\* is parsed its words are the tool's.
Arriving ==
  caller = "mcp" =>
    /\ ~inDo /\ Line.tool \in Tools \ LocalTools
    /\ pc = "parse" => cmd = Argv(Line)[1].v /\ args = Tail(Argv(Line))

\* A script ends at its first failing command, also when that is in a do of its own
\* and only the inner script ends, and the usage log has its commands in order, each
\* with its own end, right before the do.
DoStopsAndIsLogged ==
  /\ \A k \in 1 .. Len(ran) - 1 : ran[k][2] \/ ran[k + 1][1] = "do"
  /\ pc = "done" /\ log # << >> /\ log[Len(log)][1] = "do" /\ last = "ok"
       => ran = SubSeq(log, Len(log) - Len(ran), Len(log) - 1)

\* Requests are answered once each and in the order they came, also those that
\* are refused and those whose command fails; notifications are not answered, and
\* nothing is that comes after an overlong line.
Requests == {j \in 1 .. n - 1 : /\ input[j].id # 0 /\ input[j].k # "garbage"
                               /\ \A h \in 1 .. j : input[h].k # "overlong"}
RepliesInOrder == Lists([k \in DOMAIN replies |-> replies[k].id], Requests,
                        [j \in DOMAIN input |-> input[j].id])

Core == /\ TypeOK /\ input \in Seq(Messages) /\ lines \in Lines
        /\ Progress /\ ReadSoFar /\ RefusedExactly /\ ParsedAsRead
        /\ HalfMade /\ UsageErrorsKeepSession /\ SessionsAreWhole

IInv == /\ Core /\ ScriptSoFar /\ DoStopsAndIsLogged
        /\ AnswersSoFar /\ RepliesInOrder /\ Arriving

\* The target is not resumed before its breakpoints are set.
BreakpointsFirst ==
  [][sess'.mode \notin {"none", "old"} /\ sess'.resumed => sess'.bps = Locations]_sess

\* A tool's arguments arrive as the flags of the same meaning and as the
\* program's arguments, through launchArgv on one side and parseArgs on the
\* other.
ToolArgumentsArrive ==
  caller = "mcp" /\ pc = "parse" /\ parser \in {"done", "refused"} =>
    LET a == Line.a IN
    /\ parser = "done" /\ pos = << >> /\ rest = Words(a.args)
    /\ flags["break"] = Words(a.breakpoints)
    /\ flags["break-fn"] = Words(a.break_functions)
    /\ First("pkg") = Plain(a.pkg) /\ First("test") = Plain(a.test)
    /\ First("bin-path") = Plain(a.bin_path)
    /\ First("build-flags") = Plain(a.build_flags)
    /\ cmd = "launch" => (flags["stop-entry"] # << >> <=> a.stop_entry)
    /\ cmd = "trace" => First("max") = Plain(a.max_hits)

\* Every message is dealt with and every command line ends.
AllAnswered == <>(n > Len(input) /\ lines = << >>)

\* mcp.go:222: debug_eval takes "expressions to evaluate": each is evaluated.
EachEvaluated ==
  caller = "mcp" /\ pc = "done" /\ last = "ok" /\ Line.tool = "debug_eval"
    => evaluated = [k \in DOMAIN Line.a.expressions |-> <<Plain(Line.a.expressions[k])>>]
=============================================================================
