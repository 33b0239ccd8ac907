----------------------------- MODULE McpProofs ------------------------------
(***************************************************************************)
(* Proofs about the front ends: for every set of workloads, that is for    *)
(* every command line, script and tool call, parseArgs refuses exactly the *)
(* faulty lines, mistyped launches keep the session, and sessions have     *)
(* all their breakpoints before they run.                                  *)
(***************************************************************************)
EXTENDS Mcp, ArgsProofs

-----------------------------------------------------------------------------
(* Words.                                                                   *)

\* The makers of words make words.
LEMMA Makers ==
  /\ \A t \in Texts : Plain(t) \in Word /\ Test(t) \in Word
  /\ \A f \in LaunchFlags : Flag(f) \in Word
  /\ Empty \in Word /\ End \in Word
<1>0. "" \in Spellings /\ LaunchFlags \subseteq Spellings /\ "" \in Texts
  BY NamesAssumption, TextsAssumption, LaunchAssumption
<1>1. \A t \in Texts : Plain(t) \in Word BY <1>0 DEF Plain, Word
<1>2. \A t \in Texts : Test(t) \in Word BY <1>0 DEF Test, Word
<1>3. \A f \in LaunchFlags : Flag(f) \in Word BY <1>0 DEF Flag, Word
<1>4. Empty \in Word BY <1>0, <1>1 DEF Empty
<1>5. End \in Word BY <1>0 DEF End, Word
<1> QED BY <1>1, <1>2, <1>3, <1>4, <1>5

\* A command line stays one when words are added.
LEMMA Longer ==
  ASSUME NEW s \in Seq(Word) \ {<< >>}, NEW t \in Seq(Word)
  PROVE  s \o t \in Seq(Word) \ {<< >>}
<1>1. s \o t \in Seq(Word) /\ Len(s \o t) = Len(s) + Len(t) OBVIOUS
<1>2. Len(s) # 0 /\ Len(s) \in Nat /\ Len(t) \in Nat OBVIOUS
<1> QED BY <1>1, <1>2

\* The parts of a tool's command line are words.
LEMMA Parts ==
  /\ \A f \in LaunchFlags, t \in Texts : Option(f, t) \in Seq(Word)
  /\ \A f \in LaunchFlags, ts \in Seq(Texts) : Repeat(f, ts) \in Seq(Word)
  /\ \A ts \in Seq(Texts) : Words(ts) \in Seq(Word)
<1>1. ASSUME NEW f \in LaunchFlags, NEW t \in Texts PROVE Option(f, t) \in Seq(Word)
  <2>1. Flag(f) \in Word /\ Plain(t) \in Word BY Makers
  <2>2. <<Flag(f), Plain(t)>> \in Seq(Word) /\ << >> \in Seq(Word) BY <2>1
  <2> QED BY <2>2 DEF Option
<1>2. ASSUME NEW f \in LaunchFlags, NEW ts \in Seq(Texts) PROVE Repeat(f, ts) \in Seq(Word)
  <2>1. 2 * Len(ts) \in Nat OBVIOUS
  <2>2. ASSUME NEW j \in 1 .. 2 * Len(ts)
        PROVE  (IF j % 2 = 1 THEN Flag(f) ELSE Plain(ts[j \div 2])) \in Word
    <3>1. CASE j % 2 = 1 BY <3>1, Makers
    <3>2. CASE j % 2 # 1
      <4>1. j \div 2 \in 1 .. Len(ts) BY <3>2
      <4>2. ts[j \div 2] \in Texts BY <4>1
      <4> QED BY <3>2, <4>2, Makers
    <3> QED BY <3>1, <3>2
  <2> QED BY <2>1, <2>2 DEF Repeat
<1>3. ASSUME NEW ts \in Seq(Texts) PROVE Words(ts) \in Seq(Word)
  <2>1. \A j \in DOMAIN ts : Plain(ts[j]) \in Word BY Makers
  <2> QED BY <2>1 DEF Words
<1> QED BY <1>1, <1>2, <1>3

\* The first word of one sequence becomes the last of the other.
LEMMA MoveHead ==
  ASSUME NEW s \in Seq(Word), NEW t \in Seq(Word), t # << >>
  PROVE  /\ Append(s, Head(t)) \in Seq(Word) /\ Tail(t) \in Seq(Word)
         /\ Append(s, Head(t)) \o Tail(t) = s \o t
<1>1. Head(t) \in Word /\ Tail(t) \in Seq(Word) OBVIOUS
<1>2. Append(s, Head(t)) \in Seq(Word) BY <1>1
<1>3. Len(Tail(t)) = Len(t) - 1 /\ Len(t) \in Nat \ {0} /\ Len(s) \in Nat
      /\ Len(Append(s, Head(t))) = Len(s) + 1
  BY <1>1
<1> DEFINE u == Append(s, Head(t)) \o Tail(t)
<1>4. u \in Seq(Word) /\ s \o t \in Seq(Word) BY <1>1, <1>2
<1>5. Len(u) = Len(s \o t) BY <1>1, <1>2, <1>3
<1>6. ASSUME NEW k \in 1 .. Len(u) PROVE u[k] = (s \o t)[k]
  <2>1. CASE k <= Len(s) BY <2>1, <1>1, <1>2, <1>3
  <2>2. CASE k = Len(s) + 1 BY <2>2, <1>1, <1>2, <1>3
  <2>3. CASE k > Len(s) + 1
    <3>1. u[k] = Tail(t)[k - (Len(s) + 1)] BY <2>3, <1>1, <1>2, <1>3, <1>5
    <3>2. (s \o t)[k] = t[k - Len(s)] BY <2>3, <1>3, <1>5
    <3>3. Tail(t)[k - (Len(s) + 1)] = t[k - Len(s)] BY <2>3, <1>3, <1>5
    <3> QED BY <3>1, <3>2, <3>3
  <2> QED BY <2>1, <2>2, <2>3, <1>3
<1>7. u = s \o t BY <1>4, <1>5, <1>6
<1> QED BY <1>1, <1>2, <1>7

\* The flags that launchArgv spells.
LEMMA FlagNames ==
  {"pkg", "test", "bin-path", "break", "break-fn", "build-flags", "capture", "max",
   "stop-entry"} \subseteq LaunchFlags
BY DEF LaunchFlags

\* launchArgv makes a command line.
LEMMA LaunchArgvWords ==
  ASSUME NEW c \in {"launch", "trace"}, NEW a \in LaunchArguments
  PROVE  launchArgv(c, a) \in Seq(Word) \ {<< >>}
<1>0. /\ a.pkg \in Texts /\ a.test \in Texts /\ a.bin_path \in Texts
      /\ a.build_flags \in Texts /\ a.capture \in Texts /\ a.max_hits \in Texts
      /\ a.breakpoints \in Seq(Texts) /\ a.break_functions \in Seq(Texts)
      /\ a.args \in Seq(Texts)
  BY DEF LaunchArguments
<1>1. <<Plain(c)>> \in Seq(Word) \ {<< >>}
  <2>1. Plain(c) \in Word BY Makers, WorkloadsAssumption
  <2> QED BY <2>1
<1> DEFINE L1 == <<Plain(c)>> \o Option("pkg", a.pkg)
           L2 == L1 \o Option("test", a.test)
           L3 == L2 \o Option("bin-path", a.bin_path)
           L4 == L3 \o Repeat("break", a.breakpoints)
           L5 == L4 \o Repeat("break-fn", a.break_functions)
           L6 == L5 \o Option("build-flags", a.build_flags)
           T7 == IF c = "trace" THEN Option("capture", a.capture)
                                       \o Option("max", a.max_hits)
                 ELSE << >>
           L7 == L6 \o T7
           T8 == IF c = "launch" /\ a.stop_entry THEN <<Flag("stop-entry")>> ELSE << >>
           L8 == L7 \o T8
           T9 == IF a.args = << >> THEN << >> ELSE <<End>> \o Words(a.args)
<1>2. L1 \in Seq(Word) \ {<< >>} BY <1>0, <1>1, Parts, Longer, FlagNames
<1>3. L2 \in Seq(Word) \ {<< >>} BY <1>0, <1>2, Parts, Longer, FlagNames
<1>4. L3 \in Seq(Word) \ {<< >>} BY <1>0, <1>3, Parts, Longer, FlagNames
<1>5. L4 \in Seq(Word) \ {<< >>} BY <1>0, <1>4, Parts, Longer, FlagNames
<1>6. L5 \in Seq(Word) \ {<< >>} BY <1>0, <1>5, Parts, Longer, FlagNames
<1>7. L6 \in Seq(Word) \ {<< >>} BY <1>0, <1>6, Parts, Longer, FlagNames
<1>8. T7 \in Seq(Word)
  <2>1. Option("capture", a.capture) \in Seq(Word) /\ Option("max", a.max_hits) \in Seq(Word)
    BY <1>0, Parts, FlagNames
  <2> QED BY <2>1
<1>9. L7 \in Seq(Word) \ {<< >>} BY <1>7, <1>8, Longer
<1>10. T8 \in Seq(Word)
  <2>1. Flag("stop-entry") \in Word BY Makers, FlagNames
  <2> QED BY <2>1
<1>11. L8 \in Seq(Word) \ {<< >>} BY <1>9, <1>10, Longer
<1>12. T9 \in Seq(Word)
  <2>1. Words(a.args) \in Seq(Word) /\ <<End>> \in Seq(Word) BY <1>0, Parts, Makers
  <2> QED BY <2>1
<1>13. L8 \o T9 \in Seq(Word) \ {<< >>} BY <1>11, <1>12, Longer
<1> QED BY <1>13 DEF launchArgv

\* Every tool that asks the daemon sends it a command line.
LEMMA ArgvWords ==
  ASSUME NEW m \in Messages, m.tool \in Tools \ LocalTools
  PROVE  Argv(m) \in Seq(Word) \ {<< >>}
<1>1. CASE m.tool = "debug_launch"
  <2>1. m.a \in LaunchArguments BY <1>1 DEF Messages, LaunchTools
  <2> QED BY <1>1, <2>1, LaunchArgvWords DEF Argv
<1>2. CASE m.tool = "debug_trace"
  <2>1. m.a \in LaunchArguments BY <1>2 DEF Messages, LaunchTools
  <2> QED BY <1>2, <2>1, LaunchArgvWords DEF Argv
<1>3. CASE m.tool = "debug_eval"
  <2>1. m.a.expressions \in Seq(Texts) BY <1>3 DEF Messages, LaunchTools
  <2>2. <<Plain("eval")>> \in Seq(Word) \ {<< >>}
    <3>1. Plain("eval") \in Word BY Makers, WorkloadsAssumption
    <3> QED BY <3>1
  <2>3. <<Plain("eval")>> \o Words(m.a.expressions) \in Seq(Word) \ {<< >>}
    BY <2>1, <2>2, Parts, Longer
  <2> QED BY <1>3, <2>3 DEF Argv
<1>4. CASE m.tool \in {"debug_stop", "debug_pause", "debug_vars"}
  <2>1. Plain("stop") \in Word /\ Plain("pause") \in Word /\ Plain("vars") \in Word
    BY Makers, WorkloadsAssumption
  <2> QED BY <1>4, <2>1 DEF Argv
<1> QED BY <1>1, <1>2, <1>3, <1>4 DEF Tools, LocalTools

-----------------------------------------------------------------------------
(* The daemon.                                                              *)

\* The two halves of the invariant: the daemon with its command, the front ends.
DaemonInv ==
  /\ ArgsTypeOK /\ ReadSoFar /\ RefusedExactly /\ ParsedAsRead
  /\ up \in BOOLEAN /\ (sess # NoSession => up)
  /\ pc \in {"idle", "next", "parse", "start", "breaks", "done"}
  /\ left \in Seq(Word) /\ inDo \in BOOLEAN /\ deep \in Nat /\ todo \in Seq(Word)
  /\ last \in {"ok", "usage", "error"}
  /\ pc \notin {"idle", "done"} => up
  /\ pc \in {"idle", "done"} => ~inDo
  /\ parser = "on" => pc = "parse"
  /\ pc = "parse" => parser # "off"
  /\ pc \in {"parse", "start", "breaks"} => cmd \in {"launch", "trace"}
  /\ HalfMade /\ UsageErrorsKeepSession /\ SessionsAreWhole

FrontInv ==
  /\ input \in Seq(Messages) /\ lines \in Lines
  /\ n \in 1 .. Len(input) + 1 /\ caller \in {"none", "mcp", "cli"}
  /\ caller = "mcp" => n <= Len(input)
  /\ caller = "cli" => lines # << >>

LEMMA Halves == Core <=> DaemonInv /\ FrontInv
BY DEF Core, TypeOK, Progress, DaemonInv, FrontInv

LEMMA HalvesNext == (Core <=> DaemonInv /\ FrontInv)'
BY DEF Core, TypeOK, Progress, DaemonInv, FrontInv

\* What the words of the last launch asked for stays until the next is parsed.
LEMMA SameWords ==
  ASSUME UNCHANGED argsVars
  PROVE  Locations' = Locations /\ Targets' = Targets /\ Asked' = Asked
<1>1. flags' = flags BY DEF argsVars
<1>2. \A f : First(f)' = First(f) BY <1>1 DEF First
<1>3. Targets' = Targets BY <1>2 DEF Targets
<1> QED BY <1>1, <1>2, <1>3 DEF Locations, Asked

\* --break and --break-fn name words.
LEMMA LocationsAreWords == ArgsTypeOK => Locations \in Seq(Word)
<1> SUFFICES ASSUME ArgsTypeOK PROVE Locations \in Seq(Word) OBVIOUS
<1>1. {"break", "break-fn"} \subseteq Names
  BY LaunchAssumption, FlagNames
<1>2. flags["break"] \in Seq(Word) /\ flags["break-fn"] \in Seq(Word)
  BY <1>1 DEF ArgsTypeOK
<1> QED BY <1>2 DEF Locations

\* How a command of its own, or one of a script, ends.
LEMMA EndsEffect ==
  ASSUME NEW c, NEW r, Ends(c, r), inDo \in BOOLEAN
  PROVE  last' = r /\ pc' = (IF inDo THEN "next" ELSE "done")
BY DEF Ends

\* A command that is dispatched either has its words parsed and leaves the
\* session alone, or ends at once and is no launch and no trace.
LEMMA ExecuteEffect ==
  ASSUME DaemonInv, pc \in {"idle", "next"}, NEW argv \in Seq(Word) \ {<< >>}, Execute(argv)
  PROVE  /\ ArgsTypeOK' /\ ReadSoFar' /\ RefusedExactly' /\ ParsedAsRead'
         /\ \/ /\ pc' = "parse" /\ parser' = "on" /\ cmd' \in {"launch", "trace"}
               /\ sess' = sess /\ before' = sess /\ last' = last
            \/ /\ pc' = (IF inDo THEN "next" ELSE "done") /\ parser' = parser
               /\ cmd' \notin {"launch", "trace"} /\ before' = sess
               /\ sess' \in {sess, NoSession}
               /\ last' \in {"ok", "usage", "error"} /\ (last' = "usage" => sess' = sess)
<1> DEFINE c == argv[1].v
<1>0. ArgsTypeOK /\ ReadSoFar /\ RefusedExactly /\ ParsedAsRead /\ inDo \in BOOLEAN BY DEF DaemonInv
<1>1. cmd' = c /\ before' = sess BY DEF Execute
<1>2. CASE /\ c \in {"launch", "trace"} /\ Parse(Tail(argv)) /\ pc' = "parse"
           /\ UNCHANGED <<sess, last, evaluated, log, ran>>
  <2>1. Tail(argv) \in Seq(Word) OBVIOUS
  <2>2. ArgsTypeOK' /\ ReadSoFar' /\ RefusedExactly' /\ ParsedAsRead' /\ parser' = "on"
    BY <1>2, <2>1, ParseBegins
  <2> QED BY <1>1, <1>2, <2>2
<1>3. CASE c = "eval" /\ Eval(Tail(argv)) /\ UNCHANGED argsVars
  <2>1. ArgsTypeOK' /\ ReadSoFar' /\ RefusedExactly' /\ ParsedAsRead' BY <1>0, <1>3, ParseRests
  <2>2. sess' = sess /\ \E r \in {"ok", "usage", "error"} : Ends("eval", r)
    BY <1>3 DEF Eval
  <2>3. last' \in {"ok", "usage", "error"} /\ pc' = (IF inDo THEN "next" ELSE "done")
    BY <2>2, <1>0, EndsEffect
  <2>4. parser' = parser BY <1>3 DEF argsVars
  <2> QED BY <1>1, <1>3, <2>1, <2>2, <2>3, <2>4
<1>4. CASE Simple(c) /\ UNCHANGED argsVars
  <2>1. ArgsTypeOK' /\ ReadSoFar' /\ RefusedExactly' /\ ParsedAsRead' BY <1>0, <1>4, ParseRests
  <2>2. /\ c \notin {"launch", "trace"} /\ sess' \in {sess, NoSession}
        /\ \E r \in {"ok", "error"} : Ends(c, r)
    BY <1>4 DEF Simple, Outcomes
  <2>3. last' \in {"ok", "error"} /\ pc' = (IF inDo THEN "next" ELSE "done") BY <2>2, <1>0, EndsEffect
  <2>4. parser' = parser BY <1>4 DEF argsVars
  <2> QED BY <1>1, <2>1, <2>2, <2>3, <2>4
<1> QED BY <1>2, <1>3, <1>4 DEF Execute


\* A request reaches the daemon.
LEMMA HandleKeeps ==
  ASSUME DaemonInv, NEW argv \in Seq(Word) \ {<< >>}, Handle(argv)
  PROVE  DaemonInv'
<1>0. pc = "idle" BY DEF Handle
<1>1. CASE Down
  <2>1. UNCHANGED argsVars BY <1>1 DEF Down
  <2>2. ArgsTypeOK' /\ ReadSoFar' /\ RefusedExactly' /\ ParsedAsRead' BY <2>1, ParseRests DEF DaemonInv
  <2>3. /\ sess' = NoSession /\ up' = FALSE /\ cmd' = "down" /\ last' = "ok"
        /\ left' = left /\ inDo' = inDo /\ deep' = deep /\ todo' = todo /\ parser' = parser
    BY <1>1 DEF Down, Ends, argsVars
  <2>4. inDo = FALSE BY <1>0 DEF DaemonInv
  <2>5. pc' = "done" BY <1>1, <2>4 DEF Down, Ends
  <2> QED BY <1>0, <2>2, <2>3, <2>5
         DEF DaemonInv, HalfMade, UsageErrorsKeepSession, SessionsAreWhole, Rested
<1>2. CASE up' = TRUE /\ BeginDo(Tail(argv))
  <2>1. UNCHANGED argsVars BY <1>2 DEF BeginDo
  <2>2. ArgsTypeOK' /\ ReadSoFar' /\ RefusedExactly' /\ ParsedAsRead' BY <2>1, ParseRests DEF DaemonInv
  <2>3. Tail(argv) \in Seq(Word) OBVIOUS
  <2>4. Locations' = Locations /\ Asked' = Asked BY <2>1, SameWords
  <2>5. UNCHANGED parser BY <2>1 DEF argsVars
  <2> QED BY <1>0, <1>2, <2>2, <2>3, <2>4, <2>5
         DEF BeginDo, DaemonInv, HalfMade, UsageErrorsKeepSession, SessionsAreWhole, Rested
<1>3. CASE up' = TRUE /\ Execute(argv) /\ UNCHANGED <<left, inDo, deep, todo>>
  BY <1>0, <1>3, ExecuteEffect
     DEF DaemonInv, HalfMade, UsageErrorsKeepSession, SessionsAreWhole, Rested
<1> QED BY <1>1, <1>2, <1>3 DEF Handle

\* The words of the first part of a script, without the dos that it begins with.
LEMMA PartWords ==
  ASSUME NEW s \in Seq(Word), NEW j \in 1 .. Len(s) + 1, NEW k \in 0 .. j - 1, k # j - 1
  PROVE  SubSeq(s, k + 1, j - 1) \in Seq(Word) \ {<< >>}
<1>1. j \in Nat /\ k \in Nat /\ Len(s) \in Nat /\ k + 1 <= j - 1 /\ j - 1 <= Len(s)
  OBVIOUS
<1>2. SubSeq(s, k + 1, j - 1) \in Seq(Word) /\ Len(SubSeq(s, k + 1, j - 1)) = j - 1 - k
  BY <1>1
<1> QED BY <1>1, <1>2

\* The next command of a script, and the end of a script.
LEMMA ScriptKeeps ==
  ASSUME DaemonInv, DoNext \/ InnerDoEnds \/ DoEnds
  PROVE  DaemonInv'
<1>1. CASE DoEnds
  <2>1. UNCHANGED argsVars BY <1>1 DEF DoEnds
  <2>2. ArgsTypeOK' /\ ReadSoFar' /\ RefusedExactly' /\ ParsedAsRead' BY <2>1, ParseRests DEF DaemonInv
  <2>3. Locations' = Locations /\ Asked' = Asked BY <2>1, SameWords
  <2>4. UNCHANGED parser BY <2>1 DEF argsVars
  <2>5. /\ pc = "next" /\ inDo' = FALSE /\ left' = << >> /\ last' = "ok" /\ pc' = "done"
        /\ UNCHANGED <<up, sess, cmd, deep, todo, before>>
    BY <1>1 DEF DoEnds
  <2>6. left' \in Seq(Word) BY <2>5
  <2> QED BY <2>2, <2>3, <2>4, <2>5, <2>6
         DEF DaemonInv, HalfMade, UsageErrorsKeepSession, SessionsAreWhole, Rested
<1>2. CASE DoNext
  <2>1. pc = "next" BY <1>2 DEF DoNext
  <2>2. PICK j \in 1 .. Len(left) + 1 : \E k \in 0 .. j - 1 :
          /\ left' = SubSeq(left, j + 1, Len(left)) /\ deep' = k
          /\ IF k = j - 1 THEN UNCHANGED <<argsVars, sess, cmd, pc, last, evaluated, log,
                                          before, ran>>
             ELSE Execute(SubSeq(left, k + 1, j - 1))
          /\ UNCHANGED <<up, inDo, todo>>
    BY <1>2 DEF DoNext, DispatchPart
  <2>2a. PICK k \in 0 .. j - 1 :
          /\ left' = SubSeq(left, j + 1, Len(left)) /\ deep' = k
          /\ IF k = j - 1 THEN UNCHANGED <<argsVars, sess, cmd, pc, last, evaluated, log,
                                          before, ran>>
             ELSE Execute(SubSeq(left, k + 1, j - 1))
          /\ UNCHANGED <<up, inDo, todo>>
    BY <2>2
  <2>3. left \in Seq(Word) /\ j \in Nat \ {0} /\ Len(left) \in Nat BY DEF DaemonInv
  <2>4. left' \in Seq(Word) /\ deep' \in Nat BY <2>2a, <2>3
  <2>5. CASE k = j - 1
    <3>1. UNCHANGED argsVars BY <2>2a, <2>5
    <3>2. ArgsTypeOK' /\ ReadSoFar' /\ RefusedExactly' /\ ParsedAsRead' BY <3>1, ParseRests DEF DaemonInv
    <3>3. Locations' = Locations /\ Asked' = Asked BY <3>1, SameWords
    <3>4. UNCHANGED parser BY <3>1 DEF argsVars
    <3> QED BY <2>1, <2>2a, <2>4, <2>5, <3>2, <3>3, <3>4
           DEF DaemonInv, HalfMade, UsageErrorsKeepSession, SessionsAreWhole, Rested
  <2>6. CASE k # j - 1
    <3>1. SubSeq(left, k + 1, j - 1) \in Seq(Word) \ {<< >>} BY <2>3, <2>6, PartWords
    <3>2. Execute(SubSeq(left, k + 1, j - 1)) BY <2>2a, <2>6
    <3> QED BY <2>1, <2>2a, <2>4, <3>1, <3>2, ExecuteEffect
           DEF DaemonInv, HalfMade, UsageErrorsKeepSession, SessionsAreWhole, Rested
  <2> QED BY <2>5, <2>6
<1>3. CASE InnerDoEnds
  <2>1. UNCHANGED argsVars BY <1>3 DEF InnerDoEnds
  <2>2. ArgsTypeOK' /\ ReadSoFar' /\ RefusedExactly' /\ ParsedAsRead' BY <2>1, ParseRests DEF DaemonInv
  <2>3. Locations' = Locations /\ Asked' = Asked BY <2>1, SameWords
  <2>4. UNCHANGED parser BY <2>1 DEF argsVars
  <2>5. /\ pc = "next" /\ last' = "ok"
        /\ UNCHANGED <<up, sess, cmd, pc, left, inDo, todo, before>>
    BY <1>3 DEF InnerDoEnds
  <2>6. deep' \in Nat BY <1>3 DEF InnerDoEnds, DaemonInv
  <2> QED BY <2>2, <2>3, <2>4, <2>5, <2>6
         DEF DaemonInv, HalfMade, UsageErrorsKeepSession, SessionsAreWhole, Rested
<1> QED BY <1>1, <1>2, <1>3

\* A turn of parseArgs belongs to a launch or trace.
LEMMA ParsingKeeps ==
  ASSUME DaemonInv, ParseStep, UNCHANGED comVars
  PROVE  DaemonInv'
<1>1. ArgsTypeOK' /\ ReadSoFar' /\ RefusedExactly' /\ ParsedAsRead' BY ParseStepReads DEF DaemonInv
<1>2. parser = "on" /\ parser' # "off"
  BY DEF ParseStep, ParseEnd, ParseAssign, ParseBare, ParseValued, ParsePositional,
         ParseRefuses, ParseEnds, Reading
<1>3. pc = "parse" BY <1>2 DEF DaemonInv
<1>4. UNCHANGED <<up, sess, cmd, pc, left, inDo, deep, todo, last, before>> BY DEF comVars
<1> QED BY <1>1, <1>2, <1>3, <1>4
       DEF DaemonInv, HalfMade, UsageErrorsKeepSession, SessionsAreWhole, Rested

\* The steps of launch and trace.
LEMMA LaunchKeeps ==
  ASSUME DaemonInv,
         Refuse \/ StopOld \/ StartFails \/ Started \/ SetBreakpoint
           \/ BreakpointFails \/ Launched
  PROVE  DaemonInv'
<1>1. UNCHANGED argsVars /\ UNCHANGED <<up, cmd, left, inDo, deep, before>>
  BY DEF Refuse, StopOld, StartFails, Started, SetBreakpoint, BreakpointFails, Launched
<1>2. ArgsTypeOK' /\ ReadSoFar' /\ RefusedExactly' /\ ParsedAsRead' BY <1>1, ParseRests DEF DaemonInv
<1>3. Locations' = Locations /\ Asked' = Asked BY <1>1, SameWords
<1>4. parser' = parser BY <1>1 DEF argsVars
<1>5. up = TRUE /\ cmd \in {"launch", "trace"} /\ inDo \in BOOLEAN
      /\ pc \in {"parse", "start", "breaks"} /\ (parser = "on" => pc = "parse")
  BY DEF Refuse, StopOld, StartFails, Started, SetBreakpoint, BreakpointFails, Launched,
         DaemonInv
<1>6. Locations \in Seq(Word) BY LocationsAreWords DEF DaemonInv
<1>7. CASE Refuse
  <2>1. parser # "on" /\ sess = before /\ sess' = sess /\ last' = "usage" /\ todo' = todo
        /\ pc' = (IF inDo THEN "next" ELSE "done")
    BY <1>7 DEF Refuse, Ends, DaemonInv, HalfMade
  <2> QED BY <1>1, <1>2, <1>3, <1>4, <1>5, <2>1
         DEF DaemonInv, HalfMade, UsageErrorsKeepSession, SessionsAreWhole, Rested
<1>8. CASE StopOld
  <2>1. parser # "on" /\ sess' = NoSession /\ pc' = "start" /\ last' = last /\ todo' = todo
    BY <1>8 DEF StopOld
  <2> QED BY <1>1, <1>2, <1>3, <1>4, <1>5, <2>1
         DEF DaemonInv, HalfMade, UsageErrorsKeepSession, SessionsAreWhole, Rested
<1>9. CASE StartFails
  <2>1. parser # "on" /\ sess = NoSession /\ sess' = sess /\ last' = "error" /\ todo' = todo
        /\ pc' = (IF inDo THEN "next" ELSE "done")
    BY <1>9, <1>5 DEF StartFails, Ends, DaemonInv, HalfMade
  <2> QED BY <1>1, <1>2, <1>3, <1>4, <1>5, <2>1
         DEF DaemonInv, HalfMade, UsageErrorsKeepSession, SessionsAreWhole, Rested
<1>10. CASE Started
  <2>1. parser # "on" /\ pc' = "breaks" /\ todo' = Locations /\ last' = last
        /\ \E md, g : sess' = [mode |-> md, target |-> Asked, args |-> g, bps |-> << >>,
                             resumed |-> FALSE]
    BY <1>10, <1>5 DEF Started
  <2>2. /\ DOMAIN sess' = {"mode", "target", "args", "bps", "resumed"}
        /\ sess'.target = Asked /\ sess'.resumed = FALSE /\ sess'.bps = << >>
    BY <2>1
  <2>3. sess'.bps \in Seq(Word) /\ sess'.bps \o todo' = Locations BY <1>6, <2>1, <2>2
  <2>4. HalfMade' BY <1>3, <2>1, <2>2, <2>3 DEF HalfMade
  <2> QED BY <1>1, <1>2, <1>3, <1>4, <1>5, <1>6, <2>1, <2>4
         DEF DaemonInv, UsageErrorsKeepSession, SessionsAreWhole, Rested
<1>11. CASE SetBreakpoint
  <2>1. /\ parser # "on" /\ pc = "breaks" /\ pc' = pc /\ last' = last /\ todo # << >>
        /\ sess' = [sess EXCEPT !.bps = Append(@, Head(todo))] /\ todo' = Tail(todo)
    BY <1>11, <1>5 DEF SetBreakpoint
  <2>2. /\ DOMAIN sess = {"mode", "target", "args", "bps", "resumed"}
        /\ sess.target = Asked /\ sess.resumed = FALSE
        /\ sess.bps \in Seq(Word) /\ sess.bps \o todo = Locations
        /\ todo \in Seq(Word)
    BY <2>1 DEF DaemonInv, HalfMade
  <2>3. /\ DOMAIN sess' = {"mode", "target", "args", "bps", "resumed"}
        /\ sess'.target = Asked /\ sess'.resumed = FALSE
        /\ sess'.bps = Append(sess.bps, Head(todo))
    BY <2>1, <2>2
  <2>4. /\ Append(sess.bps, Head(todo)) \in Seq(Word) /\ Tail(todo) \in Seq(Word)
        /\ Append(sess.bps, Head(todo)) \o Tail(todo) = Locations
    BY <2>1, <2>2, MoveHead
  <2>5. HalfMade' BY <1>3, <2>1, <2>3, <2>4 DEF HalfMade
  <2> QED BY <1>1, <1>2, <1>3, <1>4, <1>5, <2>1, <2>4, <2>5
         DEF DaemonInv, UsageErrorsKeepSession, SessionsAreWhole, Rested
<1>12. CASE BreakpointFails
  <2>1. parser # "on" /\ sess' = NoSession /\ last' = "error" /\ todo' = << >>
        /\ pc' = (IF inDo THEN "next" ELSE "done")
    BY <1>12, <1>5 DEF BreakpointFails, Ends
  <2>2. todo' \in Seq(Word) BY <2>1
  <2> QED BY <1>1, <1>2, <1>3, <1>4, <1>5, <2>1, <2>2
         DEF DaemonInv, HalfMade, UsageErrorsKeepSession, SessionsAreWhole, Rested
<1>13. CASE Launched
  <2>1. /\ parser # "on" /\ pc = "breaks" /\ todo = << >> /\ todo' = todo
        /\ sess' = sess \/ sess' = [sess EXCEPT !.resumed = TRUE]
        /\ last' \in {"ok", "error"} /\ pc' = (IF inDo THEN "next" ELSE "done")
    BY <1>13, <1>5 DEF Launched, Ends, Outcomes
  <2>2. /\ DOMAIN sess = {"mode", "target", "args", "bps", "resumed"}
        /\ sess.target = Asked /\ sess.resumed = FALSE
        /\ sess.bps \in Seq(Word) /\ sess.bps \o todo = Locations
    BY <2>1 DEF DaemonInv, HalfMade
  <2>3. sess.bps = Locations BY <2>1, <2>2
  <2>4. sess'.bps = Locations /\ sess'.target = Asked BY <2>1, <2>2, <2>3
  <2> QED BY <1>1, <1>2, <1>3, <1>4, <1>5, <2>1, <2>4
         DEF DaemonInv, HalfMade, UsageErrorsKeepSession, SessionsAreWhole, Rested
<1> QED BY <1>7, <1>8, <1>9, <1>10, <1>11, <1>12, <1>13

\* The daemon goes away with its session and its command.
LEMMA EndKeeps ==
  ASSUME DaemonInv, DaemonEnds
  PROVE  DaemonInv'
<1>1. /\ up' = FALSE /\ sess' = NoSession /\ inDo' = FALSE /\ last' = "error"
      /\ pc' \in {"idle", "done"} /\ parser' = "off" /\ left' = << >> /\ todo' = << >>
      /\ deep' = 0 /\ cmd' = "" /\ UNCHANGED <<args, i, flags, pos, rest>>
  BY DEF DaemonEnds
<1>2. ArgsTypeOK' BY <1>1 DEF DaemonInv, ArgsTypeOK
<1>3. ReadSoFar' /\ RefusedExactly' /\ ParsedAsRead' BY <1>1 DEF ReadSoFar, RefusedExactly, ParsedAsRead
<1>4. left' \in Seq(Word) /\ todo' \in Seq(Word)
  <2>1. << >> \in Seq(Word) OBVIOUS
  <2> QED BY <1>1, <2>1
<1> QED BY <1>1, <1>2, <1>3, <1>4
       DEF DaemonInv, HalfMade, UsageErrorsKeepSession, SessionsAreWhole, Rested

\* The front ends change nothing of the daemon, but take the answer.
LEMMA AnswerKeeps ==
  ASSUME DaemonInv, UNCHANGED argsVars,
         UNCHANGED <<up, sess, cmd, left, inDo, deep, todo, last, before>>,
         pc' = pc \/ (pc = "done" /\ pc' = "idle")
  PROVE  DaemonInv'
<1>1. ArgsTypeOK' /\ ReadSoFar' /\ RefusedExactly' /\ ParsedAsRead' BY ParseRests DEF DaemonInv
<1>2. Locations' = Locations /\ Asked' = Asked BY SameWords
<1>3. parser' = parser BY DEF argsVars
<1> QED BY <1>1, <1>2, <1>3
       DEF DaemonInv, HalfMade, UsageErrorsKeepSession, SessionsAreWhole, Rested

\* Whatever command line reaches the daemon is one.
LEMMA CommandLines ==
  ASSUME FrontInv
  PROVE  /\ n <= Len(input) => Line \in Messages
         /\ lines # << >> => Head(lines) \in Seq(Word) \ {<< >>} /\ Tail(lines) \in Lines
<1>1. input \in Seq(Messages) /\ n \in 1 .. Len(input) + 1 /\ Len(input) \in Nat
      /\ lines \in Seq(Seq(Word) \ {<< >>})
  BY DEF FrontInv, Lines
<1>2. n <= Len(input) => n \in 1 .. Len(input) BY <1>1
<1> QED BY <1>1, <1>2 DEF Line, Lines

LEMMA ServeKeeps ==
  ASSUME Core, Serve
  PROVE  Core'
<1>0. DaemonInv /\ FrontInv BY Halves
<1>1. Len(input) \in Nat /\ n \in Nat BY <1>0 DEF FrontInv
<1>2. CASE Skip \/ TooLong \/ Known \/ Unknown \/ CallLocal
  <2>1. UNCHANGED argsVars /\ UNCHANGED comVars /\ UNCHANGED <<input, lines, caller>>
    BY <1>2 DEF Skip, TooLong, Known, Unknown, CallLocal
  <2>2. DaemonInv' BY <1>0, <2>1, AnswerKeeps DEF comVars
  <2>3. n <= Len(input) /\ caller # "mcp" /\ n' \in {n + 1, Len(input) + 1}
    BY <1>2 DEF Skip, TooLong, Known, Unknown, CallLocal, Listening, Reply
  <2>4. n' \in 1 .. Len(input) + 1 BY <1>1, <2>3
  <2>5. FrontInv' BY <1>0, <2>1, <2>3, <2>4 DEF FrontInv
  <2> QED BY <2>2, <2>5, HalvesNext
<1>3. CASE Call
  <2>1. n <= Len(input) /\ Line.tool \in Tools \ LocalTools /\ Handle(Argv(Line))
        /\ caller' = "mcp" /\ UNCHANGED <<input, n, lines>>
    BY <1>3 DEF Call, Listening
  <2>2. Argv(Line) \in Seq(Word) \ {<< >>} BY <1>0, <2>1, CommandLines, ArgvWords
  <2>3. DaemonInv' BY <1>0, <2>1, <2>2, HandleKeeps
  <2>4. FrontInv' BY <1>0, <2>1 DEF FrontInv
  <2> QED BY <2>3, <2>4, HalvesNext
<1>4. CASE CallReturns
  <2>1. /\ UNCHANGED argsVars /\ UNCHANGED <<up, sess, cmd, left, inDo, deep, todo, last, before>>
        /\ pc = "done" /\ pc' = "idle" /\ caller = "mcp" /\ caller' = "none"
        /\ n' = n + 1 /\ UNCHANGED <<input, lines>>
    BY <1>4 DEF CallReturns, Reply
  <2>2. DaemonInv' BY <1>0, <2>1, AnswerKeeps
  <2>3. n' \in 1 .. Len(input) + 1 BY <1>0, <1>1, <2>1 DEF FrontInv
  <2>4. FrontInv' BY <1>0, <2>1, <2>3 DEF FrontInv
  <2> QED BY <2>2, <2>4, HalvesNext
<1> QED BY <1>2, <1>3, <1>4 DEF Serve

LEMMA CommandLineKeeps ==
  ASSUME Core, CommandLine
  PROVE  Core'
<1>0. DaemonInv /\ FrontInv BY Halves
<1>1. CASE NoDaemonRunning
  <2>1. UNCHANGED argsVars /\ UNCHANGED comVars /\ UNCHANGED <<input, n, caller>>
        /\ lines # << >> /\ lines' = Tail(lines) /\ caller # "cli"
    BY <1>1 DEF NoDaemonRunning
  <2>2. DaemonInv' BY <1>0, <2>1, AnswerKeeps DEF comVars
  <2>3. FrontInv' BY <1>0, <2>1, CommandLines DEF FrontInv
  <2> QED BY <2>2, <2>3, HalvesNext
<1>2. CASE Run
  <2>1. lines # << >> /\ Handle(Head(lines)) /\ caller' = "cli" /\ UNCHANGED <<input, n, lines>>
    BY <1>2 DEF Run
  <2>2. DaemonInv' BY <1>0, <2>1, CommandLines, HandleKeeps
  <2>3. FrontInv' BY <1>0, <2>1 DEF FrontInv
  <2> QED BY <2>2, <2>3, HalvesNext
<1>3. CASE RunReturns
  <2>1. /\ UNCHANGED argsVars /\ UNCHANGED <<up, sess, cmd, left, inDo, deep, todo, last, before>>
        /\ pc = "done" /\ pc' = "idle" /\ caller = "cli" /\ caller' = "none"
        /\ lines' = Tail(lines) /\ UNCHANGED <<input, n>>
    BY <1>3 DEF RunReturns
  <2>2. DaemonInv' BY <1>0, <2>1, AnswerKeeps
  <2>3. Tail(lines) \in Lines BY <1>0, <2>1, CommandLines DEF FrontInv
  <2>4. FrontInv' BY <1>0, <2>1, <2>3 DEF FrontInv
  <2> QED BY <2>2, <2>4, HalvesNext
<1> QED BY <1>1, <1>2, <1>3 DEF CommandLine

-----------------------------------------------------------------------------
(* Theorems.                                                                *)

LEMMA Initial == Init => Core
<1> SUFFICES ASSUME Init PROVE Core OBVIOUS
<1>1. PICK w \in Workloads : input = w[1] /\ lines = w[2] BY DEF Init
<1>2. input \in Seq(Messages) /\ lines \in Lines BY <1>1, WorkloadsAssumption
<1>3. n = 1 /\ caller = "none" /\ Len(input) \in Nat BY <1>2 DEF Init
<1>4. FrontInv BY <1>2, <1>3 DEF FrontInv
<1>5. ArgsTypeOK /\ ReadSoFar /\ RefusedExactly /\ ParsedAsRead
  <2>1. NoFlags \in [Names -> Seq(Word)] BY DEF NoFlags
  <2>2. << >> \in Seq(Word) OBVIOUS
  <2>3. /\ args = << >> /\ i = 1 /\ flags = NoFlags /\ pos = << >> /\ rest = << >>
        /\ parser = "off"
    BY DEF Init, ComInit, ArgsInit
  <2>4. ArgsTypeOK BY <2>1, <2>2, <2>3 DEF ArgsTypeOK
  <2> QED BY <2>3, <2>4 DEF ReadSoFar, RefusedExactly, ParsedAsRead
<1>6. DaemonInv
  <2>1. << >> \in Seq(Word) OBVIOUS
  <2> QED BY <1>5, <2>1
         DEF Init, ComInit, ArgsInit, DaemonInv, HalfMade, UsageErrorsKeepSession,
             SessionsAreWhole, Rested
<1> QED BY <1>4, <1>6, Halves

LEMMA Inductive == Core /\ [Next]_vars => Core'
<1> SUFFICES ASSUME Core, [Next]_vars PROVE Core' OBVIOUS
<1>0. DaemonInv /\ FrontInv BY Halves
<1>1. CASE Serve BY <1>1, ServeKeeps
<1>2. CASE CommandLine BY <1>2, CommandLineKeeps
<1>3. CASE (CommandStep \/ DaemonEnds) /\ UNCHANGED mcpVars
  <2>1. FrontInv' BY <1>0, <1>3 DEF FrontInv, mcpVars
  <2>2. DaemonInv'
    BY <1>0, <1>3, ParsingKeeps, LaunchKeeps, ScriptKeeps, EndKeeps
       DEF CommandStep, LaunchStep
  <2> QED BY <2>1, <2>2, HalvesNext
<1>4. CASE UNCHANGED vars
  <2>1. UNCHANGED argsVars /\ UNCHANGED comVars /\ UNCHANGED mcpVars BY <1>4 DEF vars
  <2>2. FrontInv' BY <1>0, <2>1 DEF FrontInv, mcpVars
  <2>3. DaemonInv' BY <1>0, <2>1, AnswerKeeps DEF comVars
  <2> QED BY <2>2, <2>3, HalvesNext
<1> QED BY <1>1, <1>2, <1>3, <1>4 DEF Next, Daemon

\* The inductive invariant of the front ends, for every set of workloads.
LEMMA CoreInvariant == Spec => []Core
BY Initial, Inductive, PTL DEF Spec

\* Every variable keeps its type; a session belongs to a daemon that is up.
THEOREM TypeCorrect == Spec => []TypeOK
<1>1. Core => TypeOK BY DEF Core
<1> QED BY <1>1, CoreInvariant, PTL

\* parseArgs refuses a command line exactly if it has to look at a fault.
THEOREM RefusedExactlyCorrect == Spec => []RefusedExactly
<1>1. Core => RefusedExactly BY DEF Core
<1> QED BY <1>1, CoreInvariant, PTL

\* A mistyped launch or trace keeps the running session.
THEOREM UsageErrorsKeepSessionCorrect == Spec => []UsageErrorsKeepSession
<1>1. Core => UsageErrorsKeepSession BY DEF Core
<1> QED BY <1>1, CoreInvariant, PTL

\* After a launch or trace there is no half-made session.
THEOREM SessionsAreWholeCorrect == Spec => []SessionsAreWhole
<1>1. Core => SessionsAreWhole BY DEF Core
<1> QED BY <1>1, CoreInvariant, PTL

\* Only Launched resumes a session, and finds every breakpoint set.
LEMMA ResumedIsWhole ==
  ASSUME Core, Next, sess' # sess, sess'.mode \notin {"none", "old"}, sess'.resumed
  PROVE  sess'.bps = Locations
<1>0. DaemonInv /\ FrontInv BY Halves
<1>1. sess' # NoSession BY DEF NoSession
<1>2. CASE Launched
  <2>1. pc = "breaks" /\ todo = << >> /\ sess' = [sess EXCEPT !.resumed = TRUE]
    BY <1>2 DEF Launched
  <2>2. /\ DOMAIN sess = {"mode", "target", "args", "bps", "resumed"}
        /\ sess.bps \in Seq(Word) /\ sess.bps \o todo = Locations
    BY <1>0, <2>1 DEF DaemonInv, HalfMade
  <2>3. sess.bps = Locations BY <2>1, <2>2
  <2> QED BY <2>1, <2>2, <2>3
<1>3. CASE Started BY <1>3 DEF Started
<1>4. CASE SetBreakpoint
  <2>1. pc = "breaks" /\ sess' = [sess EXCEPT !.bps = Append(@, Head(todo))]
    BY <1>4 DEF SetBreakpoint
  <2>2. /\ DOMAIN sess = {"mode", "target", "args", "bps", "resumed"}
        /\ sess.resumed = FALSE
    BY <1>0, <2>1 DEF DaemonInv, HalfMade
  <2>3. sess'.resumed = FALSE BY <2>1, <2>2
  <2> QED BY <2>3
<1>5. CASE Refuse \/ StopOld \/ StartFails \/ BreakpointFails \/ InnerDoEnds \/ DoEnds
           \/ DaemonEnds
  BY <1>1, <1>5 DEF Refuse, StopOld, StartFails, BreakpointFails, InnerDoEnds, DoEnds,
                    DaemonEnds
<1>6. CASE UNCHANGED comVars BY <1>6 DEF comVars
<1>7. ASSUME NEW argv \in Seq(Word) \ {<< >>}, Execute(argv), pc \in {"idle", "next"}
      PROVE  FALSE
  BY <1>0, <1>1, <1>7, ExecuteEffect
<1>8. ASSUME NEW argv \in Seq(Word) \ {<< >>}, Handle(argv) PROVE FALSE
  <2>1. pc = "idle" BY <1>8 DEF Handle
  <2>2. CASE Down BY <1>1, <2>2 DEF Down
  <2>3. CASE BeginDo(Tail(argv)) BY <2>3 DEF BeginDo
  <2> QED BY <1>7, <1>8, <2>1, <2>2, <2>3 DEF Handle
<1>9. CASE DoNext
  <2>1. /\ pc = "next"
        /\ \E j \in 1 .. Len(left) + 1 : \E k \in 0 .. j - 1 :
             IF k = j - 1 THEN UNCHANGED <<argsVars, sess, cmd, pc, last, evaluated, log,
                                         before, ran>>
             ELSE Execute(SubSeq(left, k + 1, j - 1))
    BY <1>9 DEF DoNext, DispatchPart
  <2>2. PICK j \in 1 .. Len(left) + 1 : \E k \in 0 .. j - 1 :
          k # j - 1 /\ Execute(SubSeq(left, k + 1, j - 1))
    BY <2>1
  <2>2a. PICK k \in 0 .. j - 1 : k # j - 1 /\ Execute(SubSeq(left, k + 1, j - 1))
    BY <2>2
  <2>3. left \in Seq(Word) BY <1>0 DEF DaemonInv
  <2>4. SubSeq(left, k + 1, j - 1) \in Seq(Word) \ {<< >>} BY <2>2a, <2>3, PartWords
  <2> QED BY <1>7, <2>1, <2>2a, <2>4
<1>10. CASE Serve
  <2>1. CASE Call
    <3>1. n <= Len(input) /\ Line.tool \in Tools \ LocalTools /\ Handle(Argv(Line))
      BY <2>1 DEF Call, Listening
    <3>2. Argv(Line) \in Seq(Word) \ {<< >>} BY <1>0, <3>1, CommandLines, ArgvWords
    <3> QED BY <1>8, <3>1, <3>2
  <2>2. CASE CallReturns BY <2>2 DEF CallReturns
  <2>3. CASE Skip \/ TooLong \/ Known \/ Unknown \/ CallLocal
    BY <1>6, <2>3 DEF Skip, TooLong, Known, Unknown, CallLocal
  <2> QED BY <1>10, <2>1, <2>2, <2>3 DEF Serve
<1>11. CASE CommandLine
  <2>1. CASE NoDaemonRunning BY <1>6, <2>1 DEF NoDaemonRunning
  <2>2. CASE Run BY <1>0, <1>8, <2>2, CommandLines DEF Run
  <2>3. CASE RunReturns BY <2>3 DEF RunReturns
  <2> QED BY <1>11, <2>1, <2>2, <2>3 DEF CommandLine
<1> QED BY <1>2, <1>3, <1>4, <1>5, <1>6, <1>9, <1>10, <1>11
       DEF Next, Daemon, CommandStep, LaunchStep

\* The target is not resumed before every breakpoint of its command line is set.
THEOREM BreakpointsFirstCorrect == Spec => BreakpointsFirst
<1>1. Core /\ [Next]_vars
        => [sess'.mode \notin {"none", "old"} /\ sess'.resumed => sess'.bps = Locations]_sess
  <2>1. ASSUME Core, UNCHANGED vars PROVE sess' = sess BY <2>1 DEF vars, comVars
  <2> QED BY <2>1, ResumedIsWhole
<1> QED BY <1>1, CoreInvariant, PTL DEF Spec, BreakpointsFirst
=============================================================================
