# gdbg in TLA+

A verification project for `gdbg`, a command line debugger for Go programs: a
client starts one daemon per project, the daemon holds one Delve session and
serves commands over a Unix socket. The modules here model the control of that
program, TLC checks them on small instances, and TLAPS proves some of what TLC
checks for every value of the constants.

`tlc -workers 2 -config X.cfg M` runs a configuration, `tlapm M.tla` checks the
proofs of a module; `PROJECT.json` lists every run, the mutated definitions that
each property rejects, the source lines each definition stands for, and the
theorems.

## 1. Inventory

Paths are under `src/`.

| component | state it keeps | operations |
|---|---|---|
| session `internal/daemon/session.go`, `commands.go` | selected goroutine and frame, last locals, watch expressions, logpoint templates, `exited` | launch, trace, continue, step, until, pause, restart, break, watch, set, state, frame, goroutine, ... |
| stop reports `internal/daemon/render.go` | none of its own; writes the selected frame, the last locals and the output index | renderStop, renderPanic, renderDeltaLocals, renderLogpoint, the value printer |
| dlv process `internal/dlv/spawn.go` | the process group, the output ring, the index `seen` | Spawn, the scanning goroutine, NewOutput, AllOutput, Kill |
| Delve RPC `internal/dlv/client.go`, `types.go` | one JSON-RPC connection | Command, Halt, breakpoints, Restart, Eval, ... |
| daemon `internal/daemon/daemon.go` | `sess`, `lastUsed`, the listener and its path | Run, handle, stopSession, the idle goroutine |
| client `internal/client/client.go` | none | Send, SendIfRunning, dialRetry, spawnDaemon |
| command line `cmd/gdbg/main.go` | none | chooses between the client, the daemon and navigation |
| arguments `commands.go` | none | parseArgs, launchMode, normalizeTestArgs, cmdDo |
| usage log `internal/daemon/usage.go` | an append-only file | record, cmdUsage |
| MCP server `internal/mcp/mcp.go` | none | tool calls become command lines |
| navigation `internal/nav/nav.go` | none | where, def, hover, refs |

How they interact. A client dials the socket path; when that fails it removes the
path and starts a daemon, which removes the path again and listens. The daemon
accepts one connection at a time and handles it to its end. A command calls
Delve over one JSON-RPC connection; resuming the target does so from a goroutine
of its own that a timer may outlive. Delve and the target write to a pipe that a
goroutine scans into a ring, from which reports take what is new. An idle
goroutine ends the session and the process without asking anybody.

What is hard here:

- *Timers against answers.* `runCommand` races Delve's reply with a 25 s timer,
  sends a halt nobody waits for, and gives up 10 s later on a Command that Delve
  keeps. Everything after that happens next to a Command that still runs.
- *State that mirrors Delve.* `exited`, `logpoints`, the selection and the last
  locals describe a target that stops, exits, panics and restarts on its own.
- *A path as a name.* Several processes remove and bind the same path; a
  listener whose path is gone lives on unseen.
- *An index into a moving slice.* `seen` points into a ring whose front is cut.
- *Exit without cleanup.* `os.Exit` in the idle goroutine and a kill skip the
  deferred calls of `Run`; a panic in a handler runs them with clients connected.
- *Words that look like flags.* A value, a program's argument or an expression may
  look like a flag, like `--` or like the end of a script's command.
- *State in the reader's head.* A stop report lists what changed; the reader adds
  the changes up, over commands that show or change variables in between.

What makes each component correct:

- session: no call returns with its own Command running; a reported stop is where
  the target is; `exited` says what became of the target; logpoints are exact and
  every logpoint stop is logged; nothing selected at one stop is used at the next;
  the delta of locals is taken against the last stop; every call returns.
- output capture: the ring is the newest lines, a report neither repeats nor
  reorders, a failed launch leaves no dlv behind, Spawn returns.
- daemon and clients: one session per project, reachable through the path; a
  waiting client is held by one daemon; a request is executed once, and if it is not
  answered the daemon that began it has ended; a stale path means a kill; a
  daemon that ends by `down` or by a panic leaves no dlv, unless its idle goroutine is
  ending the session at that moment; every request ends.
- stop reports: the deltas add up; nothing is listed without a change; watch
  expressions are kept.
- arguments and commands: flags, positionals and program arguments are what a
  reader of the line takes them for; a mistyped `launch` leaves the session alone;
  a session has all the breakpoints asked for or is not there; a script ends at
  its first failure and is logged command by command.
- MCP server: one reply for each request, in order, whatever became of the
  command; a tool's arguments arrive as the flags of the same meaning.

`PROJECT.json` lists the hazards line by line, with the properties that cover
each.

## 2. The modules

| module | models | properties and proofs |
|---|---|---|
| `OutputLog` | what output capture promises: a numbered log | abstract specification |
| `Proc` | `spawn.go` and `newSession`'s Dial | implements `OutputLog` |
| `ProcProofs` | | theorems about `Proc` |
| `View` | selection and delta baseline | used by `Session` |
| `Session` | `session.go`, the state-changing commands of `commands.go`, Delve as their environment | |
| `SessionProofs` | | theorems about `Session`: control, logpoints |
| `SessionReportProofs` | | theorems about `Session`: what reports say and what is kept between them |
| `Report` | `render.go`'s delta of locals, the notebook of its reader, `watch-expr` | |
| `ReportProofs` | | theorems about `Report` |
| `RemoteCalls` | what a client of the daemon is promised: a call is executed once | abstract specification |
| `Lifecycle` | `client.go`, `daemon.go`, the path | implements `RemoteCalls` |
| `LifecycleProofs` | | theorems about `Lifecycle` |
| `Args` | `parseArgs` | reference reading: `RefusedExactly`, `ParsedAsRead` |
| `ArgsProofs` | | lemmas about readings of a command line |
| `Commands` | `handle`, `dispatch`, `launch` and `trace`, `do`, `eval`'s words, the usage log | extends `Args` |
| `Mcp` | the MCP server's loop and the command line, in front of one daemon | extends `Commands` |
| `McpProofs` | | theorems about `Mcp`: arguments and sessions |
| `McpAnswerProofs` | | theorems about `Mcp`: scripts, replies, tool calls, progress |
| `MCProc`, `MCSession`, `MCReport`, `MCLifecycle`, `MCMcp` | instances for TLC | |

Operators commented "Variant for mutation" are not part of
a specification: each is a plausible bug, and the property it belongs to must
fail when it replaces the definition that follows it.

### Proc

`WriteLine` and `DlvExits` are the other end of the pipe. `ScanLine` and
`ScanEOF` are the goroutine of `Spawn`: before the address line it keeps lines
for the error text, after it it appends to the ring, and it ends at end of file
or at a line longer than the scanner's buffer. `SpawnAddr`, `SpawnError` and
`SpawnTimeout` are the three branches of the `select`, `Reaped` is `cmd.Wait`,
`DialOk` and `DialFails` what `newSession` does next. A captured line is its
number in capture order, so the ring's contents say which lines were kept;
`captured` and `told` are history variables. `appendOutput` computes the new
slice and the shifted, clamped `seen` as the code does.

### Session and View

`pc` is where the handler is: `run` and `intr` are the two `select`s of
`runCommand`, `stopped` and `halted` its two ways to return a reply, `clear` is
the `ClearBreakpoint` of `until`. `cmd` says which loop called it (`resume`,
`until`'s `resume`, or `cmdTrace`). `pend`, `serving`, `waiting` and `reply`
follow resume Commands: sent and not started, running (mine or lost), given up
and not started, answered. `halts` counts halts in flight. One action per branch
of the loops: an error, an exit, a logpoint, a stop; for trace also the timeout,
a panic, a hit below and at `--max`.

Every command that changes state is an action. `launch` and `trace` are split by
their outcome (build or breakpoint error, paused at entry, running). `stop`
records carry what a later decision reads: kind, breakpoint id, the frame
`renderPanic` would choose, and a stamp that stands for the values of the
locals. `View` holds the selection and the baseline; `fresh` is a history
variable that is TRUE while the selection was made at the present stop.

Delve is external. What the model assumes of it, from the way the code uses it:
a Command is served when no other runs; it answers once, with a stop, an exit or
an error; calls other than halt wait while the target runs; a halt of a paused
target does nothing; breakpoint ids grow; on restart hit counts start again and
watchpoints, and any other breakpoint that no longer binds, are discarded; a
Command given to an exited target is answered with the exit; `halt` on an exited
one with an error or with a state that has no current thread.

### Report

`Stop` is `renderDeltaLocals` with the watch expressions of `renderStop`: of two
variables with one name the later one stays in the map, both are compared with
it, and more than `MaxLines` changes are only counted. `Vars`, `State`, `Set`,
`Restart`, `Launch`, `WatchAdd` and `WatchRm` are the commands in between;
`same` says that the place asked about is that of the stop. A value is compared
by how it looks (`Shown`, the 90 character form). History variables keep the
reader's notebook (`known`), whether anything was hidden from it (`reliable`: a
shadowed name, a report that is too long, a `set`), and how often each
expression was asked for.

### Args, Commands and Mcp

`Args` is the loop of `parseArgs`, one action per branch. A word keeps its kind
(plain, `--n`, `--n=t`, `--`, `-test.t`), the flag it names and its text.
`RefusedExactly` and `ParsedAsRead` say what the loop must compute without running
it. A reading is a set of places that are values: a word is a value exactly if the
word before it takes one and is no value. A list of words is then described by
the places it comes from: its element at the rank of a place, the number of places
up to it, is what stands there (`Lists`).

`Commands` is one command from `handle` to its answer. `launch` and `trace` go
through `parse` (refusals before anything is touched), `start` (the old session
is gone, the new one not there), `breaks` (published, breakpoints set one by
one) and their end. `do` cuts its words at the semicolons and dispatches the
parts until one fails; each part and the `do` itself is logged. A part that is
itself a `do` has a script of one part: `deep` counts the scripts that are open
inside the outermost one, and each ends well (`InnerDoEnds`), so that a failure
stops the inner script and not the one around it. The other commands end well or with an error; what they do to a session is in `Session`.

`Mcp` puts both front ends before that daemon: the request loop of the MCP
server, which turns a tool call into words with `launchArgv`, and the command
line, which starts no daemon for `stop` and `down`. The daemon may go away at any
time (`DaemonEnds`).

### Lifecycle

`sock` is the daemon whose listener the path names. A client dials, perhaps
removes the path, starts a process, retries and waits. A daemon removes the path,
listens, accepts, handles and answers, and after `down` runs its deferred calls
in order: `stopSession`, unlink by `os.Remove`, then close, which unlinks once more.
Its idle goroutine decides, stops the session, removes the path and exits in steps of
its own; `long` says that it has a silence of 30 minutes still to see. `dlv` says what
became of the dlv that `Run` started: `starting` until `setSession` publishes it,
`session` while it is in `Daemon.sess`, `closing`, and `orphan` when the daemon ends
without killing it. `stopSession` is two steps, as in the code: it takes the session
out of `Daemon.sess` under the mutex, and calls `close` after it (`StopSession`,
`CloseSession` in `Run`; `IdleStops`, `IdleCloses` in the idle goroutine, whose
own place `closing` stands for a dlv that lives while `Daemon.sess` is already nil).
In between, the other of the two finds no session and goes on, up to the
end of the process. A panic in
`pause` unwinds through the deferred calls; a kill runs none of them. `pause` is
answered by `handle` itself, which is reached only when `Accept` gets to it.

`RemoteCalls` is the same service with no path, no starting processes and no
connections: a client's open call, the server that executes it, the servers that
have ended and those with a session. `Lifecycle` implements it with `asked <- req`,
`told <- res`, `at <- serving`, and with the sets `Ended` and `Sessions` of daemons.
A request is `Send`; `Accept` is `Take`; the answers are `Reply`; the ways a client
fails to reach anybody are `Fail`; and an idle exit, a kill or the end of `Run` after
a panic is `Ends`, with an error for the call it executes and for some that wait. All
else is a stutter or moves a session.

## 3. The runs

| run | question | result |
|---|---|---|
| `proc` | is output capture right, does a failed launch clean up, does Spawn return | holds |
| `session_control` | timers, halts, give-ups, traces, exits, restarts; does every call return, without logpoints | holds |
| `session_breaks` | two breakpoints of every kind, logged, kept and forgotten; does `exited` follow exits and restarts | holds |
| `session_view` | selection and baseline over stops, panics, traces and a log line; is `ReportInv` an invariant | holds |
| `report` | do the deltas add up for a reader, are unchanged variables left out, are watch expressions kept | holds |
| `lifecycle` | two clients, two daemons that idle, panic and are killed; who leaves a dead path or a dlv behind; is `IInv` an invariant, is every step one of `RemoteCalls` | holds |
| `lifecycle_serial` | one client at a time, over kills: one session, and the path leads to it | holds |
| `lifecycle_ends` | does every request end, over idle exits, kills and slow starts | holds |
| `frontends` | are command lines, scripts and tool calls understood, are sessions whole, is every message answered | holds |
| `session_pause` | does the daemon survive (daemon.go:3) | not a pause of an exited program |
| `lifecycle_pause` | does `pause` interrupt a running command (daemon.go:123, SKILL.md:64) | no: it waits in the accept queue |
| `mcp_eval` | is each expression of `debug_eval` evaluated (mcp.go:222) | no: two may be joined to one |

The last three are disagreements between a document and the code; `PROJECT.json`
quotes both. The models show more that have no run of their own. Four of them
are counterexamples to properties above on instances larger than their run:

- resumeTimeout "bounds how long continue/step block" (session.go:13): each
  logpoint stop starts a new timer, so a loop with a logpoint never returns. `CallsReturn` fails when "log"
  is added to the commands of `MCSession_control.cfg` and `MaxLogs` is 1.
- `exited` is set by a trace that was interrupted, with the target alive
  (commands.go:340). `ExitedHonest` fails when "trace" is added to
  `MCSession_breaks.cfg`.
- "One paused process per project" (README.md:48): two clients that find no
  daemon start one each. `OneSession` fails with two clients in
  `MCLifecycle_serial.cfg`.
- "state survives across commands" (README.md:48): a launch right after `down` may
  bind a path that the old daemon then removes. `SessionReachable` fails with
  "down" among that run's requests.

One more is a counterexample to a property with an exception taken out:

- "daemon stopped" (daemon.go:120): `stopSession` unlocks before `close`
  (daemon.go:50-58). While the idle goroutine is in `close`, which may wait long for
  Delve, `down` finds no session, answers and returns from `Run`, and the process
  ends before `proc.Kill`: dlv lives on. `NoDlvLeft` fails without its conjunct
  `ipc[d] # "closing"`.

The others follow from reading one function:

- "Every stop shows only the locals that *changed*" (SKILL.md:81): of two variables
  with one name, when they differ, one is listed at every stop.
  `QuietWhenSame` excepts shadowed names.
- A variable that `set` changed and the program changed back is not listed at
  the next stop; `ReaderKnows` says nothing from a `set` until a `vars` at a later stop.
- `debug_stop` starts a daemon when none runs, the command line's `stop` does not
  (mcp.go:259, client.go:77): `Call` and `NoDaemonRunning` differ there.
- "NewOutput returns target output lines produced since the last call"
  (spawn.go:118): not the ones that fell out of the ring in between. What holds
  is `ImplementsLog`: nothing is repeated or reordered, and only forgotten lines
  are skipped.
- "dlv exited before serving" (spawn.go:83) is also what the goroutine says when a
  line over 1 MB ended its scan and dlv is alive. `SpawnReturns` has to except it.
- `runCommand` "returns the state and whether we halted it" (session.go:73): the
  flag says that the timer fired first. A breakpoint stop that races the timer is
  labelled interrupted, and a late halt stops the next resume without a label.
- "When the program exits, gdbg lists any breakpoints that were NEVER HIT"
  (SKILL.md:128): trace lists them only when it had no hit at all.
- "the daemon shuts down after 30 minutes idle" (README.md:49): only the start and
  the end of a command touch `lastUsed`, so a command of more than 30 minutes
  counts as idle time and is cut off.

The properties that hold are conditional where the code is: `clean` restricts
them to calls that met no abandoned Command, because after "target did not stop
after interrupt" nothing the daemon knows is reliable.

Bounds. `RingSize = 2` with six lines lets lines fall out before, at and after
the position of `seen`; the two line pipe makes writers block. Two abandoned
Commands (`MaxLost`) let one run while another waits; halts and log lines are
counted up to one or two because more are not told apart. Two breakpoints let a
logpoint and a breakpoint, or a hit and a missed location, meet. Two stamps and
two frames make a stale baseline visible. Two clients and two daemons are the
least for the races on the path; `lifecycle` sends `launch`, `pause` and `down`,
which are the requests that start, lose and end a session beside the idle goroutine
(`stop` is in `lifecycle_serial`, slow starts are in `lifecycle_ends`, where the
deadline of the retry matters). In `lifecycle_serial` three daemons let a kill happen twice;
its one client meets neither concurrent starts nor the removals after a `down`. `report`
has three values of which two look alike, two variables, which may have the same
name, and one line, so that two changes are too many. `frontends` has every line
of up to three words after `launch` and `trace` over eight words that cover the
kinds of flags, values and `--`; scripts of two commands cover success, failure,
`stop`, an empty part and a `do` in a part; tool calls take every mix of arguments; MCP sessions of
three messages put every kind before and after every other, next to a user who
stops, asks and shuts down.

Fairness. `Proc`: goroutines run, the timer fires, `Dial` ends after 50 tries;
nothing is assumed of dlv. `Session`: timers fire, a reply in the channel is
taken, the loops go on; nothing is assumed of Delve, of the target or of the
user. `Lifecycle`: clients and daemons are scheduled and a dispatched command
returns, which `CallsReturn` shows for sessions without logpoints and abandoned
Commands; the idle goroutine has no fairness. A
slow start (`lifecycle_ends`) lets the retry's deadline pass at any time. `BlockedSpec`, for
`lifecycle_pause`, is the same without the return of a dispatched command: a
target that is resumed may run until somebody interrupts it. `Mcp`: the server,
the user and the daemon are scheduled, and nothing is assumed of what commands
end with.

`MCProc.cfg` and `MCMcp.cfg` set `CHECK_DEADLOCK FALSE`: after the last line and
the close, and after the last message and command line, nothing happens any
more. All other passing runs check deadlock.

## 4. The proofs

`ProcProofs`, for every ring size, pipe size and number of lines:
`TypeCorrect`, `RingCorrect`, `NoOrphanCorrect` and `ImplementsLogCorrect`. The
ring invariant is inductive by itself once it relates the three numbers
`captured`, `told` and `seen` to `Forgotten`, the number of lines that fell out;
the refinement theorem maps every step of `Proc` to a step or a stutter of
`OutputLog` with `written <- captured`. `AnswerWaitsCorrect` has the facts that
`SpawnReturns` rests on: the goroutine sends one answer, never both; one that has
been sent while Spawn waits is in its channel; the address of a dlv that serves is in
the pipe until it is scanned; and Spawn waits for the end of dlv only when nobody
reads its output any more, which is the exception in `SpawnReturns`.

`SessionProofs`, for every set of goroutines, locations and commands and every
value of the bounds: the invariant `IInv` and from it `TypeCorrect`,
`OnlyAbandonedRunsCorrect`, `ReportIsCurrentCorrect` and `LogpointsCorrect`.
None of these is inductive alone. `IInv` adds

- `Bounded`: during a call there is room for the Command it may abandon, and the
  hit count of trace is below its limit. Without it `waiting` and `hits` could
  leave their types.
- `Control`: the target runs exactly when some Command is served, and the
  handler's own Command is on its way, running or answered, never two of these
  and never outside a call. `OnlyAbandonedRuns` follows from it.
- `Undisturbed`: in a clean call nothing is lost, and the target is at the stop
  that the reply, and later the report, carries.
- `LogpointsExact` itself.

The run `session_control` checks `IInv` as an invariant. The proof has one lemma
per invariant and group of actions (commands, handler, Delve); lemmas named
`...Effect` state once what a group of actions does to the variables the
invariants are about.

Two theorems state what `CallsReturn` rests on. `CallAdvanceCorrect`: each step of a
call leaves less of it, `Remaining` steps at most, which is below
6 * (`--max` + 1); only a logpoint, after which the timer starts again, does not.
`CallCanGoOnCorrect`: a call that met no abandoned Command can always take such a
step, because a timer is running, or because it has its reply and the target stands.

`SessionReportProofs` adds `ReportInv`, which is inductive given `IInv`
(`ReportInvariant`), and from it `LogsCompleteCorrect`, `SelectionFreshCorrect`,
`DeltaBaselineCorrect` and `ExitedHonestCorrect`. Each part says of the middle of a
call what the property says of its end:

- `Counted`: the log lines so far are the logpoint stops so far; one line is owed
  while the reply in hand is a logpoint stop.
- `Selected`: what is selected is of the last stop, and trace, which shows stops
  without selecting, begins with a new session where nothing is selected.
- `Baseline`: `DeltaBaseline`, also on the way out of `until`.
- `Honest`: an exit that `exited` does not show yet is one the call is about to
  report. It is false with trace, which sets `exited` on a target that may be alive
  (section 3), so `ExitedHonestCorrect` assumes that nobody traces; the other
  three do not.

`session_view` checks `ReportInv` with traces and log lines, `session_breaks` the
properties.

`ReportProofs`, for every set of names, values and expressions, every way values
look and every bound: `Invariant`, `ReaderKnowsCorrect`, `QuietWhenSameCorrect` and
`WatchesKeptCorrect`. `IInv` adds to the types that `lastLocals` has exactly the
entries of the last reported stop (`Baseline`), and that a reader from whom
nothing was hidden has every entry of `lastLocals` in the notebook (`Notebook`);
the step that matters is `Stop`, where what is not listed looked the same and so
stands in the notebook already. `WatchesKept` counts: how often an expression
occurs in a list after an element is cut out is shown by a bijection between the
places before and after (`OccurrencesCut`).

`LifecycleProofs`, for every number of clients and daemons, every set of requests
and faults: `Invariant`, `TypeCorrect`, `DeadSocketMeansKillCorrect`,
`NoDlvLeftCorrect`, `OneHolderCorrect` and `ImplementsCallsCorrect`. `IInv` adds

- `Paths`: the path leads to a daemon that listens or is dead, not to one whose idle
  goroutine has removed it, and idle goroutines act only while their daemon listens.
- `Owned`: a daemon has a session only while it listens, is about to have one exactly
  while it launches, closes one only in `handle`, at the end of a refused launch or in
  its deferred calls, and leaves an orphan only when it is dead. `NoDlvLeft` follows:
  past the deferred `stopSession` there is no dlv but one the idle goroutine holds.
- `Answered`: a client without a request waits for nothing and one with a request is on
  its way; a daemon launches only for a launch; `handle` closes a session only for a request
  that asks for it; and an answer to `stop` is under way only when `Daemon.sess` is nil.
- `Room` and `Held`: `Room` says which places of a daemon may be taken; a place is a daemon with a position of its queue, or with its
  handler; a client waits exactly if some place holds it, and no two places hold
  the same one. `OneHolder` counts daemons, and two places of one daemon would
  be counted once: it is not inductive, and follows from `Held`.

The refinement (`ImplementsCallsCorrect`) needs `Held` most: a connection that is
accepted is in no other place, so that its call is `Pending` and `Take` is possible,
and the connections that die with a daemon are those of pending calls. Its steps are
grouped by what they are above: `ClientCalls`, `AcceptCalls`, `AnswerCalls`,
`DeathCalls`, and `QuietCalls` for the stutters and the sessions. What `RemoteCalls`
promises is proved there once, `CallsAtOneServer` and `CallsReplyOrEnd`, and
`RequestsOnceCorrect` carries it over: no request is executed by two daemons or twice, and
one that was begun ends with its reply or with its daemon.

Two theorems state what `RequestsEnd` rests on. `AdvanceCorrect`: nothing takes a
request back. A client goes through the stages of `Send` in one direction, a connection
only moves forward in its daemon's queue, and every step of that daemon brings its
answer nearer (`Ahead` allows 21 steps for each connection before it).
`NoneStuckCorrect`: whoever waits, waits for somebody who can go on, the daemon that holds
its connection or one that is starting.

With more than one client, with `down`, or with an idle exit, a panic or a slow start,
"one session" is false (section 3). `OneSessionCorrect` and
`SessionReachableCorrect` therefore assume one client, no `down` and no fault but
kills, for any number of daemons; `Alone` is what is inductive then: a daemon that
lives is the only one, and it has the path as soon as it listens.

`ArgsProofs` has the lemmas about readings, for every command line: a reading
exists and is the only one (`SomeReading`, `OneReading`), a list grows at the end
when a last place is added (`ListsGrow`), and each branch of the loop keeps what
was taken so far (`ParseStepReads`, `ParseEndsAsRead`). Existence and uniqueness are
inductions over the words; they are done by a least counterexample (`Least`),
because the provers cannot apply an induction theorem.

`McpProofs` and `McpAnswerProofs`, for every workload of messages and command lines,
of any number and length: `Invariant`, `TypeCorrect`, `RefusedExactlyCorrect`,
`ParsedAsReadCorrect`, `UsageErrorsKeepSessionCorrect`, `SessionsAreWholeCorrect`,
`BreakpointsFirstCorrect`, `DoStopsAndIsLoggedCorrect`, `RepliesInOrderCorrect`,
`ToolArgumentsArriveCorrect`, and of progress `WorkAdvanceCorrect`, `WorkIsCounted` and
`SomebodyActsCorrect`. `IInv` adds

- `ReadSoFar`: while the loop of `parseArgs` runs, it stands at no value, the
  words behind it show no fault and no `--`, and what it has taken is what those
  words say. With it each branch of the loop decides `RefusedExactly` and
  `ParsedAsRead` for the whole line.
- `Progress`: which command is where, and for whom; a step of `launch` is never
  taken for a command that has not been parsed.
- `HalfMade`: the session that `launch` is making. It is the old one until the words
  are accepted, then none, then one for the target asked for, not resumed, whose
  breakpoints followed by those still to come are the ones asked for.
- `ScriptSoFar`: inside a `do`, the commands that have run are the newest records of
  the usage log, and after a failure nothing but the end of its script comes.
- `AnswersSoFar`: no overlong line is among those passed as long as lines are left,
  and the server waits only for tool calls; `RepliesInOrder` is inductive with it.
- `Arriving`: what the daemon does for the server is no script, and the words that it
  parses are `launchArgv`'s.

The first three and the types are `Core`, which is inductive alone
(`CoreInvariant`). Its proof treats the daemon's half (`DaemonInv`) and the front
ends' half (`FrontInv`) apart; `LaunchArgvWords` shows that every tool call is a
command line.

`ToolArgumentsArrive` follows from the invariant in two steps. `LaunchSpells` shows
what `launchArgv` makes: flags and texts in turn, all of one flag behind each other
(`Spells`, kept by one more flag: `SpellsMore`), then `--stop-entry`, then `--` with the
program's arguments. `ReadsCall` shows how such words are read: their only reading
takes the words at even places as values, nothing in it is faulty, and by
`ParsedAsRead` each flag lists its own texts (`ListsInOrder`). The texts of a tool are
plain words in the model; words that look like flags where a value is expected are in
`RefusedExactly` and `ParsedAsRead`, whose command lines have every kind of word.

Progress is a measure with seven parts (`Todo`), the weightiest first: messages,
command lines, a request that has not begun, the words of its script, its inner dos,
the stage of its command, and the words or breakpoints still before that stage. Every
step of the front ends and of the daemon lowers it in the order of the dictionary
(`WorkAdvanceCorrect`; a daemon that goes away at least does not raise it), its parts
are natural numbers (`WorkIsCounted`), and there is always somebody who can go on
(`SomebodyActsCorrect`). The last rests on `Busy`, that the daemon works exactly while
a front end waits for it, and on `Dispatches`, that a script with words left has a
first part (`Least`: a set of numbers has a least one).

Assumptions: the named `ASSUME`s of `Proc`, `View`, `Session` and `Report`, which
ask that bounds are natural numbers (positive where zero makes no sense), that
the sets of locations and stamps are not empty, and that no value looks like the
mark for an absent entry; and those of `Args`, `Commands` and `Mcp`: the flags are
those of `launchSpec`, those that take a value are among them, "" and the commands
that tools send are texts, and workloads are messages and command lines. TLC
evaluates them in every run.

Assumptions of single theorems: `ExitedHonestCorrect`, `OneSessionCorrect` and
`SessionReachableCorrect` have the ones named above, each the condition without
which TLC refutes the property.

Only model-checked: liveness (`SpawnReturns`, `CallsReturn`, `RequestsEnd`,
`AllAnswered`). Of all four the premises are proved, that nothing goes back and that
somebody can go on; the last step, from there to "eventually", needs `ENABLED` and the
fairness of an action, which are out of the prover's reach. Every invariant, action property
and refinement of the passing runs has a theorem, those about one session of
`Lifecycle` and about `exited` under the assumptions above.

## 5. Not modelled, and the plan

Not modelled: the text of values and source lines; `where`, `def`, `hover` and
`refs` beyond being answered without a daemon (they keep no state);
the memory that `set` writes beyond one variable of a frame; the flags of
commands other than `launch` and `trace`, which the same `parseArgs` reads; the
MCP tools that build their words like the modelled ones; the statistics of the
usage log and a log that cannot be written; a request that cannot be decoded and
a failing `Accept`; conditions and hit conditions of breakpoints, which Delve
evaluates (any enabled breakpoint may or may not stop the target); `--max` below 1.

Next: `Daemon`, `Session` under `Lifecycle`'s accept loop, for the idle goroutine that
closes a session in the middle of a call.
