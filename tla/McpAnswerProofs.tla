-------------------------- MODULE McpAnswerProofs ---------------------------
(***************************************************************************)
(* More proofs about the front ends: a script ends at its first failing    *)
(* command and the usage log has its commands, every request is answered   *)
(* once and in order, the arguments of a tool arrive, and the work that is *)
(* left shrinks with every step while nobody is ever stuck.                *)
(***************************************************************************)
EXTENDS McpProofs

-----------------------------------------------------------------------------
(* Scripts.                                                                 *)

\* A part of a sequence, element by element.
LEMMA PartOf ==
  ASSUME NEW E, NEW s \in Seq(E), NEW t \in Seq(E), NEW a \in Nat, a + Len(s) <= Len(t)
  PROVE  s = SubSeq(t, a + 1, a + Len(s)) <=> \A k \in 1 .. Len(s) : s[k] = t[a + k]
<1> DEFINE m == Len(s)
           u == SubSeq(t, a + 1, a + m)
<1>1. m \in Nat /\ Len(t) \in Nat /\ DOMAIN s = 1 .. m /\ \A k \in 1 .. Len(t) : t[k] \in E
  OBVIOUS
<1> HIDE DEF m
<1>2. /\ u \in Seq(E)
      /\ Len(u) = IF a + 1 <= a + m THEN a + m - (a + 1) + 1 ELSE 0
      /\ \A k \in 1 .. a + m - (a + 1) + 1 : u[k] = t[a + 1 + k - 1]
  <2>1. \A k \in a + 1 .. a + m : t[k] \in E
    BY <1>1 DEF m
  <2> QED BY <1>1, <2>1, SubSeqProperties
<1> HIDE DEF u
<1>3. Len(u) = m /\ \A k \in 1 .. m : u[k] = t[a + k]
  BY <1>1, <1>2
<1>4. s = u <=> \A k \in 1 .. m : s[k] = u[k]
  <2>1. s \in Seq(E) /\ Len(s) = m
    BY DEF m
  <2> QED BY <1>2, <1>3, <2>1
<1>5. s = u <=> \A k \in 1 .. m : s[k] = t[a + k]
  BY <1>3, <1>4
<1> QED BY <1>5 DEF u, m

\* The usage log grows together with the script's commands.
LEMMA BothGrow ==
  ASSUME NEW E, NEW s \in Seq(E), NEW t \in Seq(E), NEW e \in E, Len(s) <= Len(t),
         s = SubSeq(t, Len(t) - Len(s) + 1, Len(t))
  PROVE  Append(s, e) = SubSeq(Append(t, e), Len(t) - Len(s) + 1, Len(t) + 1)
<1> DEFINE m == Len(s)
           l == Len(t)
           a == l - m
           s2 == Append(s, e)
           t2 == Append(t, e)
<1>1. m \in Nat /\ l \in Nat /\ a \in Nat /\ a + m = l
  OBVIOUS
<1>2. s2 \in Seq(E) /\ t2 \in Seq(E) /\ Len(s2) = m + 1 /\ Len(t2) = l + 1
  OBVIOUS
<1>3. (\A k \in 1 .. m : s2[k] = s[k]) /\ s2[m + 1] = e
  OBVIOUS
<1>4. (\A k \in 1 .. l : t2[k] = t[k]) /\ t2[l + 1] = e
  OBVIOUS
<1>5. \A k \in 1 .. m : s[k] = t[a + k]
  <2>1. a + Len(s) = Len(t)
    BY <1>1 DEF m, l
  <2>2. s = SubSeq(t, a + 1, a + Len(s))
    BY <1>1, <2>1
  <2>3. a \in Nat /\ a + Len(s) <= Len(t)
    BY <1>1, <2>1
  <2> HIDE DEF a
  <2>4. s = SubSeq(t, a + 1, a + Len(s)) <=> \A k \in 1 .. Len(s) : s[k] = t[a + k]
    BY <2>3, PartOf
  <2> QED BY <2>2, <2>4 DEF m
<1> HIDE DEF m, l, a, s2, t2
<1>6. ASSUME NEW k \in 1 .. Len(s2) PROVE s2[k] = t2[a + k]
  <2>1. CASE k \in 1 .. m
    <3>1. a + k \in 1 .. l
      BY <1>1, <2>1
    <3> QED BY <1>3, <1>4, <1>5, <2>1, <3>1
  <2>2. CASE k = m + 1
    <3>1. a + k = l + 1
      BY <1>1, <2>2
    <3> QED BY <1>3, <1>4, <2>2, <3>1
  <2> QED BY <1>1, <1>2, <2>1, <2>2
<1>7. a + Len(s2) = l + 1 /\ a + Len(s2) <= Len(t2)
  BY <1>1, <1>2
<1>8. s2 = SubSeq(t2, a + 1, a + Len(s2))
  BY <1>1, <1>2, <1>6, <1>7, PartOf
<1> QED BY <1>7, <1>8 DEF s2, t2, a, l, m

\* The entry of the do follows the entries of its commands.
LEMMA OneGrows ==
  ASSUME NEW E, NEW s \in Seq(E), NEW t \in Seq(E), NEW e \in E, Len(s) <= Len(t),
         s = SubSeq(t, Len(t) - Len(s) + 1, Len(t))
  PROVE  s = SubSeq(Append(t, e), Len(Append(t, e)) - Len(s), Len(Append(t, e)) - 1)
<1> DEFINE m == Len(s)
           l == Len(t)
           a == l - m
           t2 == Append(t, e)
<1>1. m \in Nat /\ l \in Nat /\ a \in Nat /\ a + m = l
  OBVIOUS
<1>2. t2 \in Seq(E) /\ Len(t2) = l + 1 /\ Len(s) = m
  OBVIOUS
<1>3. \A k \in 1 .. l : t2[k] = t[k]
  OBVIOUS
<1>4. \A k \in 1 .. m : s[k] = t[a + k]
  <2>1. a + Len(s) = Len(t)
    BY <1>1 DEF m, l
  <2>2. s = SubSeq(t, a + 1, a + Len(s))
    BY <1>1, <2>1
  <2>3. a \in Nat /\ a + Len(s) <= Len(t)
    BY <1>1, <2>1
  <2> HIDE DEF a
  <2>4. s = SubSeq(t, a + 1, a + Len(s)) <=> \A k \in 1 .. Len(s) : s[k] = t[a + k]
    BY <2>3, PartOf
  <2> QED BY <2>2, <2>4 DEF m
<1> HIDE DEF m, l, a, t2
<1>5. ASSUME NEW k \in 1 .. Len(s) PROVE s[k] = t2[a + k]
  <2>1. a + k \in 1 .. l
    BY <1>1, <1>2
  <2> QED BY <1>2, <1>3, <1>4, <2>1
<1>6. a + Len(s) <= Len(t2) /\ a + Len(s) = Len(t2) - 1 /\ Len(t2) - Len(s) = a + 1
  BY <1>1, <1>2
<1>7. s = SubSeq(t2, a + 1, a + Len(s))
  BY <1>1, <1>2, <1>5, <1>6, PartOf
<1> QED BY <1>6, <1>7 DEF t2

Script == ScriptSoFar /\ DoStopsAndIsLogged

\* A record more in the log and in the script: of a command when none has failed
\* before, or of a do in the script.
LEMMA RecordGrows ==
  ASSUME Script, inDo, inDo' = inDo, pc' = "next",
         NEW e \in Entries, log' = Append(log, e), ran' = Append(ran, e),
         ~Failed \/ e[1] = "do"
  PROVE  Script'
<1>1. log \in Seq(Entries) /\ ran \in Seq(Entries)
  BY DEF Script, ScriptSoFar
<1>2. Len(ran) <= Len(log) /\ ran = SubSeq(log, Len(log) - Len(ran) + 1, Len(log))
  BY DEF Script, ScriptSoFar
<1>3. /\ Len(ran') <= Len(log')
      /\ ran' = SubSeq(log', Len(log') - Len(ran') + 1, Len(log'))
  <2>1. Append(ran, e) = SubSeq(Append(log, e), Len(log) - Len(ran) + 1, Len(log) + 1)
    BY <1>1, <1>2, BothGrow
  <2>2. Len(ran') = Len(ran) + 1 /\ Len(log') = Len(log) + 1
        /\ Len(ran) \in Nat /\ Len(log) \in Nat
    BY <1>1
  <2>3. Len(ran') <= Len(log') /\ Len(log') - Len(ran') = Len(log) - Len(ran)
    BY <1>2, <2>2
  <2> QED BY <2>1, <2>2, <2>3
<1>4. ran' \in Seq(Entries) /\ log' \in Seq(Entries)
  BY <1>1
<1>5. ASSUME NEW k \in 1 .. Len(ran') - 1 PROVE ran'[k][2] \/ ran'[k + 1][1] = "do"
  <2>1. /\ Len(ran) \in Nat /\ Len(ran') = Len(ran) + 1
        /\ \A h \in 1 .. Len(ran) : ran'[h] = ran[h]
        /\ ran'[Len(ran) + 1] = e
    BY <1>1
  <2>2. CASE k = Len(ran)
    <3>1. ran'[k + 1] = e /\ ran'[k] = ran[k] /\ ran # << >>
      BY <2>1, <2>2
    <3> QED BY <2>2, <3>1 DEF Failed
  <2>3. CASE k # Len(ran)
    <3>1. k \in 1 .. Len(ran) - 1 /\ ran'[k] = ran[k] /\ ran'[k + 1] = ran[k + 1]
      BY <2>1, <2>3
    <3> QED BY <3>1 DEF Script, DoStopsAndIsLogged
  <2> QED BY <2>2, <2>3
<1> QED BY <1>3, <1>4, <1>5 DEF Script, ScriptSoFar, DoStopsAndIsLogged

\* A command ends, alone or in a script that none of its commands has failed yet.
LEMMA CommandEnds ==
  ASSUME Script, NEW c \in Texts \cup {"down"}, c # "do", NEW r, Ends(c, r),
         inDo \in BOOLEAN, inDo' = inDo, ~(inDo /\ Failed)
  PROVE  Script'
<1> DEFINE e == <<c, r = "ok">>
<1>1. e \in Entries /\ log \in Seq(Entries) /\ ran \in Seq(Entries)
  BY DEF Script, ScriptSoFar, Entries
<1>2. log' = Append(log, e) /\ log' \in Seq(Entries) /\ log'[Len(log')] = e
      /\ e[1] = c /\ e[1] # "do"
  BY <1>1 DEF Ends
<1> HIDE DEF e
<1>3. CASE inDo
  <2>1. ran' = Append(ran, e) /\ pc' = "next"
    BY <1>3 DEF Ends, e
  <2> QED BY <1>1, <1>2, <1>3, <2>1, RecordGrows
<1>4. CASE ~inDo
  <2>1. ran' = ran /\ pc' = "done" /\ ~inDo'
    BY <1>4 DEF Ends
  <2> QED BY <1>1, <1>2, <2>1 DEF Script, ScriptSoFar, DoStopsAndIsLogged
<1> QED BY <1>3, <1>4

\* What does not end a command leaves the log and the script alone.
LEMMA CommandGoesOn ==
  ASSUME Script, UNCHANGED <<log, ran, inDo>>, ~(inDo /\ Failed),
         pc' \in {"parse", "start", "breaks"}
  PROVE  Script'
BY DEF Script, ScriptSoFar, DoStopsAndIsLogged, Failed

\* A command that is dispatched.
LEMMA ExecuteScript ==
  ASSUME Script, DaemonInv, NEW argv \in Seq(Word) \ {<< >>}, Execute(argv),
         inDo' = inDo, ~(inDo /\ Failed)
  PROVE  Script'
<1> DEFINE c == argv[1].v
<1>0. inDo \in BOOLEAN
  BY DEF DaemonInv
<1>1. c \in Texts /\ "eval" \in Texts
  <2>1. argv[1] \in Word
    OBVIOUS
  <2> QED BY <2>1, WorkloadsAssumption DEF Word
<1>2. CASE pc' = "parse" /\ UNCHANGED <<log, ran>>
  BY <1>2, CommandGoesOn
<1>3. CASE Eval(Tail(argv))
  <2>1. PICK r \in {"ok", "usage", "error"} : Ends("eval", r)
    BY <1>3 DEF Eval
  <2> QED BY <1>0, <1>1, <2>1, CommandEnds
<1>4. CASE Simple(c)
  <2>1. c # "do" /\ \E r \in {"ok", "error"} : Ends(c, r)
    BY <1>4 DEF Simple, Outcomes
  <2> QED BY <1>0, <1>1, <2>1, CommandEnds
<1> QED BY <1>2, <1>3, <1>4 DEF Execute

\* A request begins a command of its own or a script.
LEMMA HandleScript ==
  ASSUME Script, DaemonInv, NEW argv \in Seq(Word) \ {<< >>}, Handle(argv)
  PROVE  Script'
<1>1. pc = "idle" /\ inDo = FALSE
  BY DEF Handle, DaemonInv
<1>2. CASE Down
  <2>1. Ends("down", "ok") /\ inDo' = inDo
    BY <1>2 DEF Down
  <2> QED BY <1>1, <2>1, CommandEnds
<1>3. CASE BeginDo(Tail(argv))
  <2>1. inDo' = TRUE /\ ran' = << >> /\ pc' = "next" /\ log' = log
    BY <1>3 DEF BeginDo
  <2>2. log \in Seq(Entries) /\ ran' \in Seq(Entries) /\ Len(log) \in Nat /\ Len(ran') = 0
    BY <2>1 DEF Script, ScriptSoFar
  <2>3. ran' = SubSeq(log', Len(log') - Len(ran') + 1, Len(log'))
    BY <2>1, <2>2
  <2> QED BY <2>1, <2>2, <2>3 DEF Script, ScriptSoFar, DoStopsAndIsLogged
<1>4. CASE Execute(argv) /\ UNCHANGED inDo
  BY <1>1, <1>4, ExecuteScript
<1> QED BY <1>2, <1>3, <1>4 DEF Handle

\* The script goes on, or ends.
LEMMA DoScript ==
  ASSUME Script, DaemonInv, DoNext \/ InnerDoEnds \/ DoEnds
  PROVE  Script'
<1>1. CASE DoEnds
  <2>1. /\ pc = "next" /\ inDo' = FALSE /\ pc' = "done" /\ ran' = ran
        /\ log' = Append(log, <<"do", TRUE>>)
    BY <1>1 DEF DoEnds
  <2>2. /\ inDo /\ log \in Seq(Entries) /\ ran \in Seq(Entries)
        /\ Len(ran) <= Len(log) /\ ran = SubSeq(log, Len(log) - Len(ran) + 1, Len(log))
    BY <2>1 DEF Script, ScriptSoFar
  <2>3. <<"do", TRUE>> \in Entries
    BY DEF Entries
  <2>4. ran' = SubSeq(log', Len(log') - Len(ran'), Len(log') - 1)
    BY <2>1, <2>2, <2>3, OneGrows
  <2>5. log' \in Seq(Entries)
    BY <2>1, <2>2, <2>3
  <2> QED BY <2>1, <2>2, <2>4, <2>5 DEF Script, ScriptSoFar, DoStopsAndIsLogged
<1>2. CASE DoNext
  <2>1. pc = "next" /\ ~Failed
    BY <1>2 DEF DoNext
  <2>2. PICK j \in 1 .. Len(left) + 1 : \E k \in 0 .. j - 1 :
          /\ IF k = j - 1 THEN UNCHANGED <<argsVars, sess, cmd, pc, last, evaluated, log,
                                          before, ran>>
             ELSE Execute(SubSeq(left, k + 1, j - 1))
          /\ UNCHANGED <<up, inDo, todo>>
    BY <1>2 DEF DoNext, DispatchPart
  <2>2a. PICK k \in 0 .. j - 1 :
          /\ IF k = j - 1 THEN UNCHANGED <<argsVars, sess, cmd, pc, last, evaluated, log,
                                          before, ran>>
             ELSE Execute(SubSeq(left, k + 1, j - 1))
          /\ UNCHANGED <<up, inDo, todo>>
    BY <2>2
  <2>3. CASE k = j - 1
    BY <2>2a, <2>3 DEF Script, ScriptSoFar, DoStopsAndIsLogged, Failed
  <2>4. CASE k # j - 1
    <3>1. left \in Seq(Word)
      BY DEF DaemonInv
    <3>2. SubSeq(left, k + 1, j - 1) \in Seq(Word) \ {<< >>}
      BY <2>4, <3>1, PartWords
    <3> QED BY <2>1, <2>2a, <2>4, <3>2, ExecuteScript
  <2> QED BY <2>3, <2>4
<1>3. CASE InnerDoEnds
  <2>1. /\ pc' = "next" /\ inDo /\ inDo' = inDo
        /\ log' = Append(log, <<"do", TRUE>>) /\ ran' = Append(ran, <<"do", TRUE>>)
    BY <1>3 DEF InnerDoEnds, Script, ScriptSoFar
  <2>2. <<"do", TRUE>> \in Entries /\ <<"do", TRUE>>[1] = "do"
    BY DEF Entries
  <2> QED BY <2>1, <2>2, RecordGrows
<1> QED BY <1>1, <1>2, <1>3

\* The steps of launch and trace.
LEMMA LaunchScript ==
  ASSUME Script, DaemonInv,
         Refuse \/ StopOld \/ StartFails \/ Started \/ SetBreakpoint
           \/ BreakpointFails \/ Launched
  PROVE  Script'
<1>1. /\ inDo' = inDo /\ inDo \in BOOLEAN /\ pc \in {"parse", "start", "breaks"}
      /\ cmd \in {"launch", "trace"}
  BY DEF Refuse, StopOld, StartFails, Started, SetBreakpoint, BreakpointFails, Launched,
         DaemonInv
<1>2. ~(inDo /\ Failed) /\ cmd \in Texts /\ cmd # "do"
  BY <1>1, WorkloadsAssumption DEF Script, ScriptSoFar
<1>3. CASE StopOld \/ Started \/ SetBreakpoint
  <2>1. UNCHANGED <<log, ran, inDo>> /\ pc' \in {"parse", "start", "breaks"}
    BY <1>1, <1>3 DEF StopOld, Started, SetBreakpoint
  <2> QED BY <1>2, <2>1, CommandGoesOn
<1>4. CASE Refuse \/ StartFails \/ BreakpointFails \/ Launched
  <2>1. \E r : Ends(cmd, r)
    BY <1>4 DEF Refuse, StartFails, BreakpointFails, Launched
  <2> QED BY <1>1, <1>2, <2>1, CommandEnds
<1> QED BY <1>3, <1>4

\* The front ends take the answer; nothing else of the daemon changes.
LEMMA AnswerScript ==
  ASSUME Script, DaemonInv, UNCHANGED <<log, ran, inDo, last>>,
         pc' = pc \/ (pc = "done" /\ pc' = "idle")
  PROVE  Script'
<1>1. pc = "done" => ~inDo
  BY DEF DaemonInv
<1> QED BY <1>1 DEF Script, ScriptSoFar, DoStopsAndIsLogged, Failed

LEMMA ScriptInductive == IInv /\ [Next]_vars => Script'
<1> SUFFICES ASSUME IInv, [Next]_vars PROVE Script' OBVIOUS
<1>0. DaemonInv /\ FrontInv /\ Script
  BY Halves DEF IInv, Script
<1>1. CASE UNCHANGED vars \/ Skip \/ TooLong \/ Known \/ Unknown \/ CallLocal
           \/ NoDaemonRunning \/ (ParseStep /\ UNCHANGED comVars)
  <2>1. UNCHANGED comVars
    BY <1>1 DEF vars, Skip, TooLong, Known, Unknown, CallLocal, NoDaemonRunning
  <2> QED BY <1>0, <2>1, AnswerScript DEF comVars
<1>2. CASE CallReturns \/ RunReturns
  BY <1>0, <1>2, AnswerScript DEF CallReturns, RunReturns
<1>3. CASE Call
  <2>1. n <= Len(input) /\ Line.tool \in Tools \ LocalTools /\ Handle(Argv(Line))
    BY <1>3 DEF Call, Listening
  <2>2. Argv(Line) \in Seq(Word) \ {<< >>}
    BY <1>0, <2>1, CommandLines, ArgvWords
  <2> QED BY <1>0, <2>1, <2>2, HandleScript
<1>4. CASE Run
  BY <1>0, <1>4, CommandLines, HandleScript DEF Run
<1>5. CASE DoNext \/ InnerDoEnds \/ DoEnds
  BY <1>0, <1>5, DoScript
<1>6. CASE Refuse \/ StopOld \/ StartFails \/ Started \/ SetBreakpoint
           \/ BreakpointFails \/ Launched
  BY <1>0, <1>6, LaunchScript
<1>7. CASE DaemonEnds
  <2>1. inDo' = FALSE /\ pc' \in {"idle", "done"} /\ last' = "error" /\ UNCHANGED <<log, ran>>
    BY <1>7 DEF DaemonEnds
  <2> QED BY <1>0, <2>1 DEF Script, ScriptSoFar, DoStopsAndIsLogged
<1> QED BY <1>1, <1>2, <1>3, <1>4, <1>5, <1>6, <1>7
       DEF Next, Serve, CommandLine, Daemon, CommandStep, LaunchStep

-----------------------------------------------------------------------------
(* Answers.                                                                 *)

Answers == AnswersSoFar /\ RepliesInOrder

Ids == [k \in DOMAIN replies |-> replies[k].id]
Lined == [j \in DOMAIN input |-> input[j].id]

\* A line that must not be answered is passed.
LEMMA PassesLine ==
  ASSUME Answers, FrontInv, n <= Len(input), input' = input, n' = n + 1, replies' = replies,
         caller # "mcp", caller' = caller, Line.k # "overlong", Line.id = 0 \/ Line.k = "garbage"
  PROVE  Answers'
<1>1. n \in Nat \ {0} /\ Len(input) \in Nat
  BY DEF FrontInv
<1>2. \A h \in 1 .. n : input[h].k # "overlong"
  BY <1>1 DEF Answers, AnswersSoFar, Line
<1>3. Requests' = Requests
  BY <1>1 DEF Requests, Line
<1>4. RepliesInOrder'
  BY <1>3 DEF Answers, RepliesInOrder
<1>5. AnswersSoFar'
  BY <1>1, <1>2 DEF Answers, AnswersSoFar
<1> QED BY <1>4, <1>5 DEF Answers

\* A line is dealt with: its request, if it is one, is the last so far and gets
\* the last reply.
LEMMA AnswersLine ==
  ASSUME Answers, FrontInv, n <= Len(input), input' = input,
         NEW kind \in {"result", "isError", "error"}, Reply(kind),
         caller' # "mcp", Line.k \notin {"garbage", "overlong"}
  PROVE  Answers'
<1>1. n \in Nat \ {0} /\ n \in 1 .. Len(input) /\ Len(input) \in Nat /\ n' = n + 1
      /\ input \in Seq(Messages)
  BY DEF FrontInv, Reply
<1>2. \A h \in 1 .. n : input[h].k # "overlong"
  BY <1>1 DEF Answers, AnswersSoFar, Line
<1> DEFINE R == [id : Nat, kind : {"result", "isError", "error"}]
<1>3. replies \in Seq(R)
  BY DEF Answers, AnswersSoFar
<1>3a. Lists(Ids, Requests, Lined)
  BY DEF Answers, RepliesInOrder, Ids, Lined
<1>4. Line.id \in Nat
  <2>1. Line \in Messages
    BY <1>1 DEF Line
  <2> QED BY <2>1 DEF Messages
<1>5. CASE Line.id = 0
  <2>1. replies' = replies
    BY <1>5 DEF Reply
  <2>2. Requests' = Requests
    BY <1>1, <1>5 DEF Requests, Line
  <2>3. AnswersSoFar'
    BY <1>1, <1>2, <1>3, <2>1 DEF AnswersSoFar
  <2> QED BY <2>1, <2>2, <2>3 DEF Answers, RepliesInOrder
<1>6. CASE Line.id # 0
  <2> DEFINE r == [id |-> Line.id, kind |-> kind]
  <2>1. replies' = Append(replies, r)
    BY <1>6 DEF Reply
  <2>2. r \in R /\ r.id = Line.id
    BY <1>4
  <2> HIDE DEF r
  <2>3. replies' \in Seq(R)
    BY <1>3, <2>1, <2>2
  <2>4. Ids \in Seq(Nat) /\ Ids' = Append(Ids, Line.id)
    <3>1. Len(replies) \in Nat /\ \A k \in 1 .. Len(replies) : replies[k].id \in Nat
      <4>1. Len(replies) \in Nat
        BY <1>3
      <4>2. ASSUME NEW k \in 1 .. Len(replies)  PROVE replies[k].id \in Nat
        <5> HIDE DEF R
        <5>1. replies[k] \in R
          BY <1>3, ElementOfSeq
        <5> QED BY <5>1 DEF R
      <4> QED BY <4>1, <4>2
    <3>2. Ids \in Seq(Nat) /\ Len(Ids) = Len(replies)
      BY <3>1 DEF Ids
    <3>3. /\ DOMAIN Ids' = 1 .. Len(replies) + 1
          /\ \A k \in 1 .. Len(replies) + 1 :
               Ids'[k] = IF k <= Len(replies) THEN Ids[k] ELSE Line.id
      BY <1>3, <2>1, <2>2 DEF Ids
    <3>4. /\ DOMAIN Append(Ids, Line.id) = 1 .. Len(replies) + 1
          /\ \A k \in 1 .. Len(replies) + 1 :
               Append(Ids, Line.id)[k] = IF k <= Len(replies) THEN Ids[k] ELSE Line.id
      BY <1>4, <3>2, <3>1
    <3>5. Ids' = [k \in DOMAIN Ids' |-> Ids'[k]]
      BY DEF Ids
    <3>6. Append(Ids, Line.id)
            = [k \in DOMAIN Append(Ids, Line.id) |-> Append(Ids, Line.id)[k]]
      BY <1>4, <3>2
    <3> QED BY <3>2, <3>3, <3>4, <3>5, <3>6
  <2>5. Requests' = Requests \cup {n}
    BY <1>1, <1>2, <1>6 DEF Requests, Line
  <2>6. Requests \in SUBSET Nat /\ IsFiniteSet(Requests) /\ \A h \in Requests : h < n
    <3>1. Requests \in SUBSET (1 .. n - 1)
      BY DEF Requests
    <3>2. IsFiniteSet(1 .. n - 1)
      BY <1>1, FS_Interval
    <3>3. IsFiniteSet(Requests)
      BY <3>1, <3>2, FS_Subset
    <3> QED BY <1>1, <3>1, <3>3
  <2>7. Lined[n] = Line.id /\ Lined' = Lined
    BY <1>1 DEF Lined, Line
  <2>8. Lists(Append(Ids, Line.id), Requests \cup {n}, Lined)
    BY <1>1, <1>3a, <1>4, <2>4, <2>6, <2>7, ListsGrow
  <2>9. Lists(Ids', Requests', Lined')
    BY <2>4, <2>5, <2>7, <2>8
  <2>10. RepliesInOrder'
    BY <2>9 DEF RepliesInOrder, Ids, Lined
  <2>11. AnswersSoFar'
    BY <1>1, <1>2, <2>3 DEF AnswersSoFar
  <2> QED BY <2>10, <2>11 DEF Answers
<1> QED BY <1>5, <1>6

\* The server ends at an overlong line.
LEMMA EndsAtOverlong ==
  ASSUME Answers, FrontInv, TooLong
  PROVE  Answers'
<1>1. /\ n \in Nat \ {0} /\ n <= Len(input) /\ Len(input) \in Nat /\ n' = Len(input) + 1
      /\ input[n].k = "overlong" /\ UNCHANGED <<input, replies, caller>> /\ caller # "mcp"
  BY DEF FrontInv, TooLong, Listening, Line
<1>2. Requests' = Requests
  <2>1. Requests' \subseteq Requests
    BY <1>1 DEF Requests
  <2>2. Requests \subseteq Requests'
    BY <1>1 DEF Requests
  <2> QED BY <2>1, <2>2
<1>3. RepliesInOrder'
  BY <1>1, <1>2 DEF Answers, RepliesInOrder
<1>4. AnswersSoFar'
  BY <1>1 DEF Answers, AnswersSoFar
<1> QED BY <1>3, <1>4 DEF Answers

\* The rest does not read the input.
LEMMA AnswersRest ==
  ASSUME Answers, UNCHANGED <<input, n, replies>>, caller' = "mcp" => Line.k = "call"
  PROVE  Answers'
BY DEF Answers, AnswersSoFar, RepliesInOrder, Requests, Line

LEMMA AnswersInductive == IInv /\ [Next]_vars => Answers'
<1> SUFFICES ASSUME IInv, [Next]_vars PROVE Answers' OBVIOUS
<1>0. DaemonInv /\ FrontInv /\ Answers
  BY Halves DEF IInv, Answers
<1>1. CASE Skip
  <2>1. n <= Len(input) /\ caller # "mcp" /\ Line.k = "garbage" /\ n' = n + 1
        /\ UNCHANGED <<input, replies, caller>>
    BY <1>1 DEF Skip, Listening
  <2> QED BY <1>0, <2>1, PassesLine
<1>2. CASE TooLong
  BY <1>0, <1>2, EndsAtOverlong
<1>3. CASE Known \/ Unknown \/ CallLocal
  <2>1. /\ n <= Len(input) /\ input' = input /\ caller' # "mcp"
        /\ Line.k \in {"method", "nomethod", "call"}
        /\ \E kind \in {"result", "isError", "error"} : Reply(kind)
    BY <1>3 DEF Known, Unknown, CallLocal, Listening
  <2> QED BY <1>0, <2>1, AnswersLine
<1>4. CASE CallReturns
  <2>1. /\ n <= Len(input) /\ input' = input /\ caller' # "mcp" /\ Line.k = "call"
        /\ \E kind \in {"result", "isError", "error"} : Reply(kind)
    BY <1>0, <1>4 DEF CallReturns, FrontInv, Answers, AnswersSoFar
  <2> QED BY <1>0, <2>1, AnswersLine
<1>5. CASE Call
  BY <1>0, <1>5, AnswersRest DEF Call
<1>6. CASE CommandLine
  <2>1. UNCHANGED <<input, n, replies>> /\ (caller' = "mcp" => caller = "mcp")
    BY <1>6 DEF CommandLine, NoDaemonRunning, Run, RunReturns
  <2> QED BY <1>0, <2>1, AnswersRest DEF Answers, AnswersSoFar
<1>7. CASE UNCHANGED mcpVars
  BY <1>0, <1>7, AnswersRest DEF mcpVars, Answers, AnswersSoFar
<1>8. UNCHANGED vars => UNCHANGED mcpVars
  BY DEF vars
<1> QED BY <1>1, <1>2, <1>3, <1>4, <1>5, <1>6, <1>7, <1>8 DEF Next, Serve, Daemon

-----------------------------------------------------------------------------
(* Tool calls.                                                              *)

\* The words w spell the flags with the texts of F: a flag and its text in turn,
\* those of one flag one behind the other.
Spells(w, F) ==
  /\ w \in Seq(Word) /\ F \in [Valued -> Seq(Texts)]
  /\ \E l \in Nat :
       /\ Len(w) = 2 * l
       /\ \A k \in 1 .. l : /\ w[2 * k - 1].k = "flag" /\ w[2 * k - 1].n \in Valued
                            /\ w[2 * k].k = "plain"
       /\ \A f \in Valued : \E o \in Nat :
            /\ o + Len(F[f]) <= l
            /\ \A k \in 1 .. l : w[2 * k - 1].n = f <=> k \in o + 1 .. o + Len(F[f])
            /\ \A j \in 1 .. Len(F[f]) : w[2 * (o + j)] = Plain(F[f][j])

Unspelled == [f \in Valued |-> << >>]

\* No words give no texts.
LEMMA SpellsNothing == Spells(<< >>, Unspelled)
<1>1. << >> \in Seq(Word) /\ Unspelled \in [Valued -> Seq(Texts)]
  BY DEF Unspelled
<1>2. 0 \in Nat /\ Len(<< >>) = 2 * 0
  OBVIOUS
<1>3. \A f \in Valued : Len(Unspelled[f]) = 0
  BY DEF Unspelled
<1>4. \A f \in Valued :
        /\ 0 + Len(Unspelled[f]) <= 0
        /\ \A j \in 1 .. Len(Unspelled[f]) : << >>[2 * (0 + j)] = Plain(Unspelled[f][j])
  BY <1>3
<1> QED BY <1>1, <1>2, <1>4 DEF Spells

\* What the makers of words make.
LEMMA Fields == /\ \A f : Flag(f).k = "flag" /\ Flag(f).n = f
                /\ \A t : Plain(t).k = "plain"
BY DEF Flag, Plain

\* The texts of one more flag.
LEMMA SpellsMore ==
  ASSUME NEW w, NEW F, Spells(w, F), NEW f \in Valued, F[f] = << >>, NEW ts \in Seq(Texts)
  PROVE  Spells(w \o Repeat(f, ts), [F EXCEPT ![f] = ts])
<1> DEFINE r == Repeat(f, ts)
           u == w \o r
           G == [F EXCEPT ![f] = ts]
           m == Len(ts)
<1>0. f \in LaunchFlags /\ Valued \subseteq LaunchFlags
  BY LaunchAssumption DEF LaunchValued
<1>1. w \in Seq(Word) /\ F \in [Valued -> Seq(Texts)] /\ m \in Nat
  BY DEF Spells
<1>2. PICK l \in Nat :
       /\ Len(w) = 2 * l
       /\ \A k \in 1 .. l : /\ w[2 * k - 1].k = "flag" /\ w[2 * k - 1].n \in Valued
                            /\ w[2 * k].k = "plain"
       /\ \A e \in Valued : \E o \in Nat :
            /\ o + Len(F[e]) <= l
            /\ \A k \in 1 .. l : w[2 * k - 1].n = e <=> k \in o + 1 .. o + Len(F[e])
            /\ \A j \in 1 .. Len(F[e]) : w[2 * (o + j)] = Plain(F[e][j])
  BY DEF Spells
<1>3. r \in Seq(Word)
  BY <1>0, Parts
<1>4. /\ Len(r) = 2 * m
      /\ \A j \in 1 .. m : r[2 * j - 1] = Flag(f) /\ r[2 * j] = Plain(ts[j])
  <2> HIDE DEF m
  <2>1. r = [j \in 1 .. 2 * m |-> IF j % 2 = 1 THEN Flag(f) ELSE Plain(ts[j \div 2])]
    BY DEF Repeat, m
  <2>2. Len(r) = 2 * m
    BY <1>1, <1>3, <2>1
  <2>3. ASSUME NEW j \in 1 .. m
        PROVE  r[2 * j - 1] = Flag(f) /\ r[2 * j] = Plain(ts[j])
    <3>1. 2 * j - 1 \in 1 .. 2 * m /\ 2 * j \in 1 .. 2 * m
      BY <1>1
    <3>2. (2 * j - 1) % 2 = 1 /\ (2 * j) % 2 # 1 /\ (2 * j) \div 2 = j
      BY <1>1
    <3> HIDE DEF r
    <3> QED BY <2>1, <3>1, <3>2
  <2> QED BY <2>2, <2>3
<1> HIDE DEF r, m
<1>5. /\ u \in Seq(Word) /\ Len(u) = 2 * (l + m)
      /\ \A j \in 1 .. 2 * l : u[j] = w[j]
      /\ \A j \in 1 .. 2 * m : u[2 * l + j] = r[j]
  <2>1. 2 * l \in Nat /\ 2 * m \in Nat /\ 2 * l + 2 * m = 2 * (l + m)
    BY <1>1
  <2>2. Len(w) = 2 * l /\ Len(r) = 2 * m
    BY <1>2, <1>4
  <2>3. /\ u \in Seq(Word) /\ Len(u) = Len(w) + Len(r)
        /\ \A j \in 1 .. Len(w) : u[j] = w[j]
        /\ \A j \in 1 .. Len(r) : u[Len(w) + j] = r[j]
    <3>1. w \in Seq(Word) /\ r \in Seq(Word)
      BY <1>1, <1>3
    <3> QED BY <3>1, Joined
  <2> HIDE DEF u
  <2> QED BY <2>1, <2>2, <2>3
<1> HIDE DEF u
<1>6. /\ \A k \in 1 .. l : u[2 * k - 1] = w[2 * k - 1] /\ u[2 * k] = w[2 * k]
      /\ \A j \in 1 .. m : u[2 * (l + j) - 1] = Flag(f) /\ u[2 * (l + j)] = Plain(ts[j])
  <2>1. ASSUME NEW k \in 1 .. l PROVE u[2 * k - 1] = w[2 * k - 1] /\ u[2 * k] = w[2 * k]
    <3>1. 2 * k - 1 \in 1 .. 2 * l /\ 2 * k \in 1 .. 2 * l
      OBVIOUS
    <3> QED BY <1>5, <3>1
  <2>2. ASSUME NEW j \in 1 .. m
        PROVE  u[2 * (l + j) - 1] = Flag(f) /\ u[2 * (l + j)] = Plain(ts[j])
    <3>1. /\ 2 * j - 1 \in 1 .. 2 * m /\ 2 * j \in 1 .. 2 * m
          /\ 2 * (l + j) - 1 = 2 * l + (2 * j - 1) /\ 2 * (l + j) = 2 * l + 2 * j
      BY <1>1
    <3>2. u[2 * l + (2 * j - 1)] = r[2 * j - 1] /\ u[2 * l + 2 * j] = r[2 * j]
      BY <1>5, <3>1
    <3> QED BY <1>4, <3>1, <3>2
  <2> QED BY <2>1, <2>2
<1>7. \A k \in 1 .. l + m : k \in 1 .. l \/ (k - l \in 1 .. m /\ k = l + (k - l))
  BY <1>1
<1>8. G \in [Valued -> Seq(Texts)] /\ G[f] = ts /\ \A e \in Valued \ {f} : G[e] = F[e]
  BY <1>1
<1> HIDE DEF G
<1>9. ASSUME NEW k \in 1 .. l + m
      PROVE  u[2 * k - 1].k = "flag" /\ u[2 * k - 1].n \in Valued /\ u[2 * k].k = "plain"
  <2>1. CASE k \in 1 .. l
    BY <1>2, <1>6, <2>1
  <2>2. CASE k - l \in 1 .. m /\ k = l + (k - l)
    <3>1. u[2 * k - 1] = Flag(f) /\ u[2 * k] = Plain(ts[k - l])
      BY <1>6, <2>2
    <3> QED BY <3>1, Fields
  <2> QED BY <1>7, <2>1, <2>2
<1>10. ASSUME NEW e \in Valued
       PROVE  \E o \in Nat :
                /\ o + Len(G[e]) <= l + m
                /\ \A k \in 1 .. l + m : u[2 * k - 1].n = e <=> k \in o + 1 .. o + Len(G[e])
                /\ \A j \in 1 .. Len(G[e]) : u[2 * (o + j)] = Plain(G[e][j])
  <2>1. CASE e = f
    <3>1. Len(G[e]) = m /\ G[e] = ts
      BY <1>8, <2>1 DEF m
    <3>2. ASSUME NEW k \in 1 .. l PROVE u[2 * k - 1].n # e
      <4>1. PICK o \in Nat : \A j \in 1 .. l : w[2 * j - 1].n = e
                                                 <=> j \in o + 1 .. o + Len(F[e])
        BY <1>2
      <4>2. Len(F[e]) = 0
        BY <2>1
      <4>3. w[2 * k - 1].n # e
        BY <4>1, <4>2
      <4> QED BY <1>6, <4>3
    <3>3. \A k \in l + 1 .. l + m : u[2 * k - 1].n = e
      <4> SUFFICES ASSUME NEW k \in l + 1 .. l + m PROVE u[2 * k - 1].n = e
        OBVIOUS
      <4>1. k - l \in 1 .. m /\ k = l + (k - l)
        BY <1>1
      <4>2. u[2 * k - 1] = Flag(f)
        BY <1>6, <4>1
      <4> QED BY <2>1, <4>2, Fields
    <3>4. \A k \in 1 .. l + m : u[2 * k - 1].n = e <=> k \in l + 1 .. l + m
      BY <1>1, <3>2, <3>3
    <3>5. l + Len(G[e]) <= l + m
      BY <1>1, <3>1
    <3>6. \A j \in 1 .. Len(G[e]) : u[2 * (l + j)] = Plain(G[e][j])
      BY <1>6, <3>1
    <3>7. \A k \in 1 .. l + m : u[2 * k - 1].n = e <=> k \in l + 1 .. l + Len(G[e])
      BY <3>1, <3>4
    <3> QED BY <3>5, <3>6, <3>7
  <2>2. CASE e # f
    <3>1. G[e] = F[e] /\ Len(F[e]) \in Nat
      BY <1>1, <1>8, <2>2
    <3>2. PICK o \in Nat :
            /\ o + Len(F[e]) <= l
            /\ \A k \in 1 .. l : w[2 * k - 1].n = e <=> k \in o + 1 .. o + Len(F[e])
            /\ \A j \in 1 .. Len(F[e]) : w[2 * (o + j)] = Plain(F[e][j])
      BY <1>2
    <3>3. ASSUME NEW k \in 1 .. l + m
          PROVE  u[2 * k - 1].n = e <=> k \in o + 1 .. o + Len(F[e])
      <4>1. CASE k \in 1 .. l
        BY <1>6, <3>2, <4>1
      <4>2. CASE k - l \in 1 .. m /\ k = l + (k - l)
        <5>1. u[2 * k - 1] = Flag(f)
          BY <1>6, <4>2
        <5>2. ~(k <= o + Len(F[e]))
          BY <1>1, <3>1, <3>2, <4>2
        <5>3. u[2 * k - 1].n = f
          BY <5>1, Fields
        <5> QED BY <2>2, <5>2, <5>3
      <4> QED BY <1>7, <4>1, <4>2
    <3>4. ASSUME NEW j \in 1 .. Len(F[e]) PROVE u[2 * (o + j)] = Plain(F[e][j])
      <4>1. o + j \in 1 .. l
        BY <3>1, <3>2
      <4> QED BY <1>6, <3>2, <4>1
    <3>5. o + Len(F[e]) <= l + m
      BY <1>1, <3>1, <3>2
    <3> QED BY <3>1, <3>3, <3>4, <3>5
  <2> QED BY <2>1, <2>2
<1>11. l + m \in Nat
  BY <1>1
<1>12. Spells(u, G)
  BY <1>5, <1>8, <1>9, <1>10, <1>11 DEF Spells
<1> QED BY <1>12 DEF u, G, r

\* args is a call: l flags with their texts, those of F; with X = 1, stop-entry;
\* and "--" with the words of g, if there are any.
Called(l, F, X, g) ==
  /\ \A k \in 1 .. l : /\ args[2 * k - 1].k = "flag" /\ args[2 * k - 1].n \in Valued
                       /\ args[2 * k].k = "plain"
  /\ \A f \in Valued : \E o \in Nat :
       /\ o + Len(F[f]) <= l
       /\ \A k \in 1 .. l : args[2 * k - 1].n = f <=> k \in o + 1 .. o + Len(F[f])
       /\ \A j \in 1 .. Len(F[f]) : args[2 * (o + j)] = Plain(F[f][j])
  /\ X = 1 => args[2 * l + 1].k = "flag" /\ args[2 * l + 1].n = "stop-entry"
  /\ g = << >> => Len(args) = 2 * l + X
  /\ g # << >> => /\ Len(args) = 2 * l + X + 1 + Len(g) /\ args[2 * l + X + 1].k = "end"
                  /\ \A j \in 1 .. Len(g) : args[2 * l + X + 1 + j] = g[j]

\* The words of a call.
CallWords(w, X, g) == (w \o (IF X = 1 THEN <<Flag("stop-entry")>> ELSE << >>))
                        \o (IF g = << >> THEN << >> ELSE <<End>> \o g)

\* The places of the words of a call.
LEMMA PutTogether ==
  ASSUME NEW w, NEW F, Spells(w, F), NEW X \in {0, 1}, NEW g \in Seq(Word),
         args = CallWords(w, X, g)
  PROVE  \E l \in Nat : Called(l, F, X, g)
<1> DEFINE m == Len(g)
           x == IF X = 1 THEN <<Flag("stop-entry")>> ELSE << >>
           u == w \o x
           y == <<End>> \o g
           z == IF g = << >> THEN << >> ELSE y
<1>1. w \in Seq(Word) /\ F \in [Valued -> Seq(Texts)] /\ m \in Nat /\ X \in Nat
  BY DEF Spells
<1>2. PICK l \in Nat :
       /\ Len(w) = 2 * l
       /\ \A k \in 1 .. l : /\ w[2 * k - 1].k = "flag" /\ w[2 * k - 1].n \in Valued
                            /\ w[2 * k].k = "plain"
       /\ \A f \in Valued : \E o \in Nat :
            /\ o + Len(F[f]) <= l
            /\ \A k \in 1 .. l : w[2 * k - 1].n = f <=> k \in o + 1 .. o + Len(F[f])
            /\ \A j \in 1 .. Len(F[f]) : w[2 * (o + j)] = Plain(F[f][j])
  BY DEF Spells
<1>2a. x \in Seq(Word) /\ Len(x) = X /\ (X = 1 => x[1] = Flag("stop-entry"))
  <2>1. Flag("stop-entry") \in Word
    BY Makers DEF LaunchFlags
  <2> QED BY <2>1
<1> HIDE DEF x
<1>3. /\ u \in Seq(Word) /\ Len(u) = 2 * l + X
      /\ \A j \in 1 .. 2 * l : u[j] = w[j]
      /\ \A j \in 1 .. X : u[2 * l + j] = x[j]
  <2>1. /\ u \in Seq(Word) /\ Len(u) = Len(w) + Len(x)
        /\ \A j \in 1 .. Len(w) : u[j] = w[j]
        /\ \A j \in 1 .. Len(x) : u[Len(w) + j] = x[j]
    <3>1. w \in Seq(Word) /\ x \in Seq(Word)
      BY <1>1, <1>2a
    <3> QED BY <3>1, Joined
  <2>2. Len(w) = 2 * l /\ Len(x) = X
    BY <1>2, <1>2a
  <2> HIDE DEF u
  <2> QED BY <2>1, <2>2
<1>4. /\ y \in Seq(Word) /\ Len(y) = 1 + m /\ y[1] = End
      /\ \A j \in 1 .. m : y[1 + j] = g[j]
  <2> DEFINE v == <<End>>
  <2>1. v \in Seq(Word) /\ Len(v) = 1 /\ v[1] = End
    BY Makers
  <2> HIDE DEF v
  <2>2. /\ v \o g \in Seq(Word) /\ Len(v \o g) = Len(v) + Len(g)
        /\ \A j \in 1 .. Len(v) : (v \o g)[j] = v[j]
        /\ \A j \in 1 .. Len(g) : (v \o g)[Len(v) + j] = g[j]
    <3>1. v \in Seq(Word)
      BY <2>1
    <3> QED BY <3>1, Joined
  <2>3. y = v \o g
    BY DEF v
  <2> HIDE DEF y
  <2>4. 1 \in 1 .. Len(v)
    BY <2>1
  <2> QED BY <2>1, <2>2, <2>3, <2>4
<1>5. z \in Seq(Word) /\ (g = << >> => Len(z) = 0) /\ (g # << >> => z = y)
  <2> HIDE DEF y
  <2>1. CASE g = << >>
    BY <2>1
  <2>2. CASE g # << >>
    BY <1>4, <2>2
  <2> QED BY <2>1, <2>2
<1>5a. args = u \o z
  BY DEF CallWords, x
<1> HIDE DEF u, y, z, m
<1>6. /\ Len(args) = 2 * l + X + Len(z)
      /\ \A j \in 1 .. 2 * l + X : args[j] = u[j]
      /\ \A j \in 1 .. Len(z) : args[2 * l + X + j] = z[j]
  <2>1. /\ Len(u \o z) = Len(u) + Len(z)
        /\ \A j \in 1 .. Len(u) : (u \o z)[j] = u[j]
        /\ \A j \in 1 .. Len(z) : (u \o z)[Len(u) + j] = z[j]
    <3>1. u \in Seq(Word) /\ z \in Seq(Word)
      BY <1>3, <1>5
    <3> QED BY <3>1, Joined
  <2>2. Len(u) = 2 * l + X
    BY <1>3
  <2> QED BY <1>5a, <2>1, <2>2
<1>7. \A k \in 1 .. l : args[2 * k - 1] = w[2 * k - 1] /\ args[2 * k] = w[2 * k]
  <2> SUFFICES ASSUME NEW k \in 1 .. l
               PROVE  args[2 * k - 1] = w[2 * k - 1] /\ args[2 * k] = w[2 * k]
    OBVIOUS
  <2>1. /\ 2 * k - 1 \in 1 .. 2 * l /\ 2 * k \in 1 .. 2 * l
        /\ 2 * k - 1 \in 1 .. 2 * l + X /\ 2 * k \in 1 .. 2 * l + X
    BY <1>1
  <2> QED BY <1>3, <1>6, <2>1
<1>8. ASSUME NEW f \in Valued
      PROVE  \E o \in Nat :
               /\ o + Len(F[f]) <= l
               /\ \A k \in 1 .. l : args[2 * k - 1].n = f <=> k \in o + 1 .. o + Len(F[f])
               /\ \A j \in 1 .. Len(F[f]) : args[2 * (o + j)] = Plain(F[f][j])
  <2>1. PICK o \in Nat :
            /\ o + Len(F[f]) <= l
            /\ \A k \in 1 .. l : w[2 * k - 1].n = f <=> k \in o + 1 .. o + Len(F[f])
            /\ \A j \in 1 .. Len(F[f]) : w[2 * (o + j)] = Plain(F[f][j])
    BY <1>2
  <2>2. Len(F[f]) \in Nat
    BY <1>1
  <2>3. \A j \in 1 .. Len(F[f]) : o + j \in 1 .. l
    BY <2>1, <2>2
  <2> QED BY <1>7, <2>1, <2>3
<1>9. X = 1 => args[2 * l + 1].k = "flag" /\ args[2 * l + 1].n = "stop-entry"
  <2> SUFFICES ASSUME X = 1
               PROVE  args[2 * l + 1].k = "flag" /\ args[2 * l + 1].n = "stop-entry"
    OBVIOUS
  <2>1. 2 * l + 1 \in 1 .. 2 * l + X /\ 1 \in 1 .. X
    OBVIOUS
  <2>2. args[2 * l + 1] = u[2 * l + 1]
    BY <1>6, <2>1
  <2>3. u[2 * l + 1] = x[1]
    BY <1>3, <2>1
  <2>4. args[2 * l + 1] = Flag("stop-entry")
    BY <1>2a, <2>2, <2>3
  <2> QED BY <2>4, Fields
<1>10. g = << >> => Len(args) = 2 * l + X
  BY <1>1, <1>5, <1>6
<1>11. ASSUME g # << >>
       PROVE  /\ Len(args) = 2 * l + X + 1 + Len(g) /\ args[2 * l + X + 1].k = "end"
              /\ \A j \in 1 .. Len(g) : args[2 * l + X + 1 + j] = g[j]
  <2>1. Len(z) = 1 + m /\ z[1] = End /\ \A j \in 1 .. m : z[1 + j] = g[j]
    BY <1>4, <1>5, <1>11
  <2>2. args[2 * l + X + 1] = End
    <3>1. 1 \in 1 .. Len(z)
      BY <1>1, <2>1
    <3> QED BY <1>6, <2>1, <3>1
  <2>3. ASSUME NEW j \in 1 .. m PROVE args[2 * l + X + 1 + j] = g[j]
    <3>1. 1 + j \in 1 .. Len(z) /\ 2 * l + X + (1 + j) = 2 * l + X + 1 + j
      BY <1>1, <2>1
    <3> QED BY <1>6, <2>1, <3>1
  <2>4. Len(args) = 2 * l + X + 1 + m
    BY <1>1, <1>6, <2>1
  <2>5. End.k = "end"
    BY DEF End
  <2> QED BY <2>2, <2>3, <2>4, <2>5 DEF m
<1>12. \A k \in 1 .. l : /\ args[2 * k - 1].k = "flag" /\ args[2 * k - 1].n \in Valued
                        /\ args[2 * k].k = "plain"
  BY <1>2, <1>7
<1>13. Called(l, F, X, g)
  BY <1>8, <1>9, <1>10, <1>11, <1>12 DEF Called
<1> QED BY <1>13

\* How parseArgs reads a call.
LEMMA ReadsCall ==
  ASSUME ArgsTypeOK, RefusedExactly, ParsedAsRead, parser \in {"done", "refused"},
         NEW F \in [Valued -> Seq(Texts)], NEW X \in {0, 1}, NEW g \in Seq(Word),
         NEW l \in Nat, Called(l, F, X, g)
  PROVE  /\ parser = "done" /\ pos = << >> /\ rest = g
         /\ \A f \in Valued : flags[f] = Words(F[f])
         /\ flags["stop-entry"] # << >> <=> X = 1
<1> DEFINE m == Len(g)
           e == 2 * l + X + 1
<1>0. /\ Valued \subseteq Names /\ "stop-entry" \in Names /\ "stop-entry" \notin Valued
  BY LaunchAssumption DEF LaunchValued, LaunchFlags
<1>1. m \in Nat /\ X \in Nat
  OBVIOUS
<1>2. args \in Seq(Word)
  BY DEF ArgsTypeOK
<1>3. \A f \in Valued : \E o \in Nat :
        /\ o + Len(F[f]) <= l
        /\ \A k \in 1 .. l : args[2 * k - 1].n = f <=> k \in o + 1 .. o + Len(F[f])
        /\ \A j \in 1 .. Len(F[f]) : args[2 * (o + j)] = Plain(F[f][j])
  BY DEF Called
<1>5. /\ \A k \in 1 .. l : /\ args[2 * k - 1].k = "flag" /\ args[2 * k - 1].n \in Valued
                           /\ args[2 * k].k = "plain"
      /\ X = 1 => args[2 * l + 1].k = "flag" /\ args[2 * l + 1].n = "stop-entry"
  BY DEF Called
<1>6. /\ g = << >> => Len(args) = 2 * l + X
      /\ g # << >> => /\ Len(args) = e + m /\ args[e].k = "end"
                      /\ \A j \in 1 .. m : args[e + j] = g[j]
  BY DEF Called
<1> HIDE DEF m
<1>7. /\ DOMAIN args = 1 .. Len(args) /\ Len(args) \in Nat
      /\ 2 * l + X <= Len(args) /\ e \in Nat
      /\ g # << >> => e <= Len(args)
  BY <1>1, <1>2, <1>6
<1>8. PICK V \in Readings : TRUE
  BY <1>2, SomeReading
<1>9. V \in SUBSET DOMAIN args
      /\ \A k \in DOMAIN args : k \in V <=> k > 1 /\ TakesNext(k - 1) /\ k - 1 \notin V
  BY <1>8 DEF Readings
<1>10. /\ \A k \in 1 .. l : TakesNext(2 * k - 1) /\ ~TakesNext(2 * k)
       /\ X = 1 => ~TakesNext(2 * l + 1)
  BY <1>0, <1>5 DEF TakesNext
\* The values are the words at even places.
<1>11. \A k \in 1 .. l : 2 * k - 1 \notin V
  <2> SUFFICES ASSUME NEW k \in 1 .. l, 2 * k - 1 \in V PROVE FALSE
    OBVIOUS
  <2>1. 2 * k - 1 > 1 /\ TakesNext(2 * k - 1 - 1)
    BY <1>9
  <2>2. k - 1 \in 1 .. l /\ 2 * k - 1 - 1 = 2 * (k - 1)
    BY <2>1
  <2> QED BY <1>10, <2>1, <2>2
<1>12. \A k \in 1 .. l : 2 * k \in V
  <2> SUFFICES ASSUME NEW k \in 1 .. l PROVE 2 * k \in V
    OBVIOUS
  <2>1. 2 * k \in DOMAIN args /\ 2 * k > 1 /\ 2 * k - 1 \notin V /\ TakesNext(2 * k - 1)
    BY <1>1, <1>7, <1>10, <1>11
  <2> QED BY <1>9, <2>1
<1>13. 2 * l + 1 \notin V
  <2> SUFFICES ASSUME 2 * l + 1 \in V PROVE FALSE
    OBVIOUS
  <2>1. 2 * l + 1 > 1 /\ TakesNext(2 * l + 1 - 1)
    BY <1>9
  <2>2. l \in 1 .. l /\ 2 * l + 1 - 1 = 2 * l
    BY <2>1
  <2> QED BY <1>10, <2>1, <2>2
<1>14. e \notin V
  <2>1. CASE X = 0
    BY <1>13, <2>1
  <2>2. CASE X = 1
    <3> SUFFICES ASSUME e \in V PROVE FALSE
      OBVIOUS
    <3>1. TakesNext(e - 1)
      BY <1>9
    <3>2. e - 1 = 2 * l + 1
      BY <2>2
    <3> QED BY <1>10, <2>2, <3>1, <3>2
  <2> QED BY <2>1, <2>2
<1>14a. /\ e \in Nat /\ e > 2 * l + X /\ e = 2 * l + X + 1
  BY <1>1
<1> HIDE DEF e
\* Where the flags end.
<1>15. \A k \in 1 .. Len(args) : Beyond(V, k) <=> g # << >> /\ k >= e
  <2> SUFFICES ASSUME NEW k \in 1 .. Len(args)
               PROVE  Beyond(V, k) <=> g # << >> /\ k >= e
    OBVIOUS
  <2>1. ASSUME g # << >>, k >= e PROVE Beyond(V, k)
    <3>1. e \in DOMAIN args \ V /\ args[e].k = "end"
      BY <1>6, <1>7, <1>14, <1>14a, <2>1
    <3> QED BY <2>1, <3>1 DEF Beyond
  <2>2. ASSUME NEW j \in DOMAIN args \ V, args[j].k = "end" PROVE g # << >> /\ j >= e
    <3>1. j \in Nat /\ j >= 1 /\ j <= Len(args)
      BY <1>7
    <3>2. ASSUME j <= 2 * l PROVE FALSE
      <4>1. PICK k2 \in 1 .. l : j = 2 * k2 \/ j = 2 * k2 - 1
        <5>1. j \in 1 .. 2 * l
          BY <3>1, <3>2
        <5> QED BY <5>1, Pairs
      <4>2. args[j].k \in {"flag", "plain"}
        BY <1>5, <4>1
      <4> QED BY <2>2, <4>2
    <3>3. ASSUME X = 1, j = 2 * l + 1 PROVE FALSE
      BY <1>5, <2>2, <3>3
    <3>4. j > 2 * l + X
      BY <1>1, <3>1, <3>2, <3>3
    <3> QED BY <1>6, <1>14a, <3>1, <3>4
  <2>3. ASSUME Beyond(V, k) PROVE g # << >> /\ k >= e
    <3>1. PICK j \in DOMAIN args \ V : j <= k /\ args[j].k = "end"
      BY <2>3 DEF Beyond
    <3>2. g # << >> /\ j >= e /\ j \in Nat
      BY <1>7, <2>2, <3>1
    <3> QED BY <1>14a, <3>1, <3>2
  <2> QED BY <2>1, <2>3
\* The words that the loop looks at.
<1>16. Heads(V) = {2 * k - 1 : k \in 1 .. l} \cup (2 * l + 1 .. 2 * l + X)
  <2>1. ASSUME NEW h \in Heads(V)
        PROVE  h \in {2 * k - 1 : k \in 1 .. l} \cup (2 * l + 1 .. 2 * l + X)
    <3>1. h \in 1 .. Len(args) /\ h \notin V /\ ~Beyond(V, h)
      <4>1. h \in DOMAIN args /\ h \notin V /\ ~Beyond(V, h)
        BY <2>1 DEF Heads
      <4>2. DOMAIN args = 1 .. Len(args)
        BY <1>7
      <4> QED BY <4>1, <4>2
    <3>2. h <= 2 * l + X
      <4>1. h \in Nat /\ h <= Len(args)
        BY <1>7, <3>1
      <4>2. CASE g = << >>
        <5>1. Len(args) = 2 * l + X
          BY <1>6, <4>2
        <5> QED BY <4>1, <5>1
      <4>3. CASE g # << >>
        <5>1. ~(h >= e)
          BY <1>15, <3>1, <4>3
        <5> QED BY <1>1, <1>14a, <4>1, <5>1
      <4> QED BY <4>2, <4>3
    <3>3. CASE h <= 2 * l
      <4>1. PICK k \in 1 .. l : h = 2 * k \/ h = 2 * k - 1
        <5>1. h \in 1 .. 2 * l
          BY <3>1, <3>3
        <5> QED BY <5>1, Pairs
      <4> QED BY <1>12, <3>1, <4>1
    <3> QED BY <1>1, <3>1, <3>2, <3>3
  <2>2. ASSUME NEW k \in 1 .. l PROVE 2 * k - 1 \in Heads(V)
    <3>1. 2 * k - 1 \in 1 .. Len(args) /\ ~(2 * k - 1 >= e)
      BY <1>1, <1>7, <1>14a
    <3> QED BY <1>7, <1>11, <1>15, <3>1 DEF Heads
  <2>3. ASSUME NEW h \in 2 * l + 1 .. 2 * l + X PROVE h \in Heads(V)
    <3>1. h = 2 * l + 1 /\ h \in 1 .. Len(args) /\ ~(h >= e)
      BY <1>1, <1>7, <1>14a
    <3> QED BY <1>7, <1>13, <1>15, <3>1 DEF Heads
  <2> QED BY <2>1, <2>2, <2>3
<1>17. parser = "done"
  <2>1. ASSUME NEW h \in Heads(V) PROVE ~Faulty(h)
    <3>1. CASE h \in {2 * k - 1 : k \in 1 .. l}
      <4>1. PICK k \in 1 .. l : h = 2 * k - 1
        BY <3>1
      <4>2. args[h].k = "flag" /\ args[h].n \in Names
        BY <1>0, <1>5, <4>1
      <4>3. h # Len(args)
        BY <1>1, <1>7, <4>1
      <4> QED BY <4>2, <4>3 DEF Faulty
    <3>2. CASE h \in 2 * l + 1 .. 2 * l + X
      <4>1. X = 1 /\ h = 2 * l + 1
        BY <1>1, <3>2
      <4>2. args[h].k = "flag" /\ args[h].n \in Names /\ ~TakesNext(h)
        BY <1>0, <1>5, <1>10, <4>1
      <4> QED BY <4>2 DEF Faulty
    <3> QED BY <1>16, <2>1, <3>1, <3>2
  <2> QED BY <1>8, <2>1 DEF RefusedExactly
<1>18. Taken(Heads(V)) /\ Lists(rest, Behind(V), args)
  BY <1>8, <1>17 DEF ParsedAsRead
\* The positionals: none.
<1>19. pos = << >>
  <2>1. ASSUME NEW h \in Heads(V) PROVE args[h].k = "flag"
    <3>1. CASE h \in {2 * k - 1 : k \in 1 .. l}
      BY <1>5, <3>1
    <3>2. CASE h \in 2 * l + 1 .. 2 * l + X
      <4>1. X = 1 /\ h = 2 * l + 1
        BY <1>1, <3>2
      <4> QED BY <1>5, <4>1
    <3> QED BY <1>16, <2>1, <3>1, <3>2
  <2>2. Plains(Heads(V)) = {}
    BY <2>1 DEF Plains
  <2>3. Len(pos) = 0
    BY <1>18, <2>2, FS_EmptySet DEF Taken, Lists
  <2> QED BY <2>3 DEF ArgsTypeOK
\* The words behind the "--".
<1>20. rest = g
  <2>1. rest \in Seq(Word)
    BY DEF ArgsTypeOK
  <2>2. CASE g = << >>
    <3>1. Behind(V) = {}
      <4>1. \A k \in DOMAIN args : ~ Beyond(V, k - 1)
        BY <1>7, <1>15, <2>2 DEF Beyond
      <4> QED BY <4>1 DEF Behind
    <3>2. Len(rest) = 0
      BY <1>18, <3>1, FS_EmptySet DEF Lists
    <3> QED BY <2>1, <2>2, <3>2
  <2>3. CASE g # << >>
    <3> DEFINE h == [j \in 1 .. m |-> e + j]
    <3>1. /\ \A j \in 1 .. m : h[j] \in Behind(V)
          /\ \A x \in Behind(V) : \E j \in 1 .. m : x = h[j]
      <4>1. \A k \in 1 .. Len(args) : Beyond(V, k - 1) <=> k > e
        <5> SUFFICES ASSUME NEW k \in 1 .. Len(args) PROVE Beyond(V, k - 1) <=> k > e
          OBVIOUS
        <5>1. CASE k = 1
          <6>1. ~Beyond(V, 0)
            BY <1>7 DEF Beyond
          <6> QED BY <1>14a, <5>1, <6>1
        <5>2. CASE k # 1
          <6>1. k - 1 \in 1 .. Len(args)
            BY <1>7, <5>2
          <6> QED BY <1>14a, <1>15, <2>3, <6>1
        <5> QED BY <5>1, <5>2
      <4>2. Behind(V) = {k \in 1 .. Len(args) : k > e}
        BY <1>7, <4>1 DEF Behind
      <4>3. \A j \in 1 .. m : e + j \in 1 .. Len(args) /\ e + j > e
        BY <1>1, <1>6, <1>14a, <2>3
      <4>4. \A k \in 1 .. Len(args) : k > e => k - e \in 1 .. m /\ k = e + (k - e)
        BY <1>1, <1>6, <1>14a, <2>3
      <4>5. \A j \in 1 .. m : h[j] = e + j
        OBVIOUS
      <4> HIDE DEF h
      <4>6. ASSUME NEW x \in Behind(V) PROVE \E j \in 1 .. m : x = h[j]
        <5>1. x - e \in 1 .. m /\ x = h[x - e]
          BY <4>2, <4>4, <4>5
        <5> QED BY <5>1
      <4> QED BY <4>2, <4>3, <4>5, <4>6
    <3>2. h \in [1 .. m -> Nat] /\ \A a, b \in 1 .. m : a < b => h[a] < h[b]
      BY <1>1, <1>14a
    <3>3. Lists(rest, Behind(V), args)
      BY <1>18
    <3>4. \A j \in 1 .. m : h[j] = e + j
      OBVIOUS
    <3> HIDE DEF h
    <3>5. Len(rest) = m /\ \A j \in 1 .. m : rest[j] = args[h[j]]
      <4>1. Enumerates(h, m, Behind(V))
        BY <3>1, <3>2 DEF Enumerates
      <4> QED BY <1>1, <3>3, <4>1, ListsInOrder
    <3>6. \A j \in 1 .. m : rest[j] = g[j]
      BY <1>6, <2>3, <3>4, <3>5
    <3>7. Len(rest) = Len(g) /\ \A j \in 1 .. Len(rest) : rest[j] = g[j]
      BY <3>5, <3>6 DEF m
    <3> QED BY <2>1, <3>7, SameList
  <2> QED BY <2>2, <2>3
\* The flags that take a value.
<1>21. ASSUME NEW f \in Valued PROVE flags[f] = Words(F[f])
  <2> DEFINE q == Len(F[f])
  <2>1. PICK o \in Nat :
            /\ o + q <= l
            /\ \A k \in 1 .. l : args[2 * k - 1].n = f <=> k \in o + 1 .. o + q
            /\ \A j \in 1 .. q : args[2 * (o + j)] = Plain(F[f][j])
    BY <1>3
  <2>2. F[f] \in Seq(Texts) /\ q \in Nat
    BY <1>1
  <2> HIDE DEF q
  <2> DEFINE h == [j \in 1 .. q |-> 2 * (o + j) - 1]
  <2>3. /\ \A j \in 1 .. q : h[j] \in Given(Heads(V), f)
        /\ \A x \in Given(Heads(V), f) : \E j \in 1 .. q : x = h[j]
    <3>1. ASSUME NEW k \in Given(Heads(V), f) PROVE \E j \in 1 .. q : k = h[j]
      <4>1. k \in Heads(V) /\ args[k].n = f
        BY <3>1 DEF Given
      <4>2. k \notin 2 * l + 1 .. 2 * l + X
        <5> SUFFICES ASSUME k \in 2 * l + 1 .. 2 * l + X PROVE FALSE
          OBVIOUS
        <5>1. X = 1 /\ k = 2 * l + 1
          BY <1>1
        <5> QED BY <1>0, <1>5, <4>1, <5>1
      <4>3. PICK y \in 1 .. l : k = 2 * y - 1
        BY <1>16, <4>1, <4>2
      <4>4. y \in o + 1 .. o + q
        BY <1>5, <2>1, <4>1, <4>3
      <4>5. y - o \in 1 .. q /\ h[y - o] = 2 * (o + (y - o)) - 1 /\ o + (y - o) = y
        BY <2>2, <4>4
      <4> QED BY <4>3, <4>5
    <3>2. ASSUME NEW j \in 1 .. q PROVE h[j] \in Given(Heads(V), f)
      <4>1. o + j \in 1 .. l /\ o + j \in o + 1 .. o + q
        BY <2>1, <2>2
      <4>2. 2 * (o + j) - 1 \in Heads(V)
        BY <1>16, <4>1
      <4>3. args[2 * (o + j) - 1].k = "flag" /\ args[2 * (o + j) - 1].n = f
        BY <1>5, <2>1, <4>1
      <4> QED BY <4>2, <4>3 DEF Given
    <3> QED BY <3>1, <3>2
  <2>4. h \in [1 .. q -> Nat] /\ \A a, b \in 1 .. q : a < b => h[a] < h[b]
    BY <2>2
  <2>5. Lists(flags[f], Given(Heads(V), f), Values)
    BY <1>0, <1>18 DEF Taken
  <2>6. \A j \in 1 .. q : h[j] = 2 * (o + j) - 1
    OBVIOUS
  <2> HIDE DEF h
  <2>7. Len(flags[f]) = q /\ \A j \in 1 .. q : flags[f][j] = Values[h[j]]
    <3>1. Enumerates(h, q, Given(Heads(V), f))
      BY <2>3, <2>4 DEF Enumerates
    <3> QED BY <2>2, <2>5, <3>1, ListsInOrder
  <2>8. ASSUME NEW j \in 1 .. q PROVE flags[f][j] = Plain(F[f][j])
    <3>1. o + j \in 1 .. l
      BY <2>1, <2>2
    <3>2. 2 * (o + j) - 1 \in DOMAIN args /\ 2 * (o + j) - 1 + 1 = 2 * (o + j)
      BY <1>1, <1>7, <3>1
    <3>3. Values[2 * (o + j) - 1] = args[2 * (o + j)]
      BY <1>10, <3>1, <3>2 DEF Values
    <3> QED BY <2>1, <2>6, <2>7, <3>3
  <2>9. /\ Words(F[f]) \in Seq(Word) /\ Len(Words(F[f])) = q
        /\ \A j \in 1 .. q : Words(F[f])[j] = Plain(F[f][j])
    <3>1. Words(F[f]) \in Seq(Word)
      BY <2>2, Parts
    <3>2. Words(F[f]) = [j \in 1 .. q |-> Plain(F[f][j])]
      BY <2>2 DEF Words, q
    <3> QED BY <2>2, <3>1, <3>2
  <2>10. flags[f] \in Seq(Word)
    BY <1>0 DEF ArgsTypeOK
  <2> QED BY <2>7, <2>8, <2>9, <2>10, SameList
<1>22. flags["stop-entry"] # << >> <=> X = 1
  <2>1. Given(Heads(V), "stop-entry") = 2 * l + 1 .. 2 * l + X
    <3>1. ASSUME NEW k \in Given(Heads(V), "stop-entry") PROVE k \in 2 * l + 1 .. 2 * l + X
      <4>1. k \in Heads(V) /\ args[k].n = "stop-entry"
        BY <3>1 DEF Given
      <4>2. ~ \E y \in 1 .. l : k = 2 * y - 1
        BY <1>0, <1>5, <4>1
      <4> QED BY <1>16, <4>1, <4>2
    <3>2. ASSUME NEW k \in 2 * l + 1 .. 2 * l + X PROVE k \in Given(Heads(V), "stop-entry")
      <4>1. X = 1 /\ k = 2 * l + 1
        BY <1>1
      <4> QED BY <1>5, <1>16, <3>2, <4>1 DEF Given
    <3> QED BY <3>1, <3>2
  <2>2. Cardinality(2 * l + 1 .. 2 * l + X) = X
    BY <1>1, FS_Interval
  <2>3. Len(flags["stop-entry"]) = X
    BY <1>0, <1>18, <2>1, <2>2 DEF Taken, Lists
  <2>4. flags["stop-entry"] \in Seq(Word)
    BY <1>0 DEF ArgsTypeOK
  <2> QED BY <2>3, <2>4
<1> QED BY <1>17, <1>19, <1>20, <1>21, <1>22

\* The texts of FF for the flags of D.
Filled(D, FF) == [f \in Valued |-> IF f \in D THEN FF[f] ELSE << >>]

\* The words L are x and the flags of D with their texts.
Begun(L, x, D, FF) == \E w : L = <<x>> \o w /\ Spells(w, Filled(D, FF))

\* The first word alone.
LEMMA BegunNothing ==
  ASSUME NEW x \in Word, NEW FF
  PROVE  Begun(<<x>>, x, {}, FF)
<1>1. <<x>> = <<x>> \o << >>
  OBVIOUS
<1>2. Filled({}, FF) = Unspelled
  BY DEF Filled, Unspelled
<1> QED BY <1>1, <1>2, SpellsNothing DEF Begun

\* One more flag with its texts.
LEMMA BegunMore ==
  ASSUME NEW x \in Word, NEW FF \in [Valued -> Seq(Texts)], NEW D, NEW L,
         Begun(L, x, D, FF), NEW f \in Valued \ D
  PROVE  Begun(L \o Repeat(f, FF[f]), x, D \cup {f}, FF)
<1> DEFINE r == Repeat(f, FF[f])
           p == <<x>>
           F == Filled(D, FF)
           G == [F EXCEPT ![f] = FF[f]]
<1>1. PICK w : L = p \o w /\ Spells(w, F)
  BY DEF Begun
<1>2. p \in Seq(Word) /\ w \in Seq(Word) /\ r \in Seq(Word)
  <2>1. f \in LaunchFlags /\ FF[f] \in Seq(Texts)
    BY LaunchAssumption DEF LaunchValued
  <2> QED BY <1>1, <2>1, Parts DEF Spells
<1>3. F[f] = << >> /\ G = Filled(D \cup {f}, FF)
  BY DEF Filled
<1> HIDE DEF F, G
<1>4. Spells(w \o r, [F EXCEPT ![f] = FF[f]])
  <2>1. FF[f] \in Seq(Texts) /\ f \in Valued
    OBVIOUS
  <2> QED BY <1>1, <1>3, <2>1, SpellsMore
<1> HIDE DEF p, r
<1>5. L \o r = p \o (w \o r)
  BY <1>1, <1>2, ConcatAssociative
<1>6. Spells(w \o r, Filled(D \cup {f}, FF))
  BY <1>3, <1>4 DEF G
<1> QED BY <1>5, <1>6 DEF Begun, p, r

\* The texts that a launch or trace gives to a flag; "" gives none.
Once(t) == IF t = "" THEN << >> ELSE <<t>>
Told(c, a) ==
  [f \in Valued |->
     CASE f = "pkg" -> Once(a.pkg) [] f = "test" -> Once(a.test)
       [] f = "bin-path" -> Once(a.bin_path) [] f = "build-flags" -> Once(a.build_flags)
       [] f = "break" -> a.breakpoints [] f = "break-fn" -> a.break_functions
       [] f = "capture" /\ c = "trace" -> Once(a.capture)
       [] f = "max" /\ c = "trace" -> Once(a.max_hits)
       [] OTHER -> << >>]

\* A text, or none.
LEMMA OnceTexts == \A t \in Texts : Once(t) \in Seq(Texts)
<1> SUFFICES ASSUME NEW t \in Texts PROVE Once(t) \in Seq(Texts)
  OBVIOUS
<1>1. << >> \in Seq(Texts) /\ <<t>> \in Seq(Texts)
  OBVIOUS
<1> QED BY <1>1 DEF Once

\* An option is a flag repeated once or never.
LEMMA RepeatsOnce ==
  \A f \in LaunchFlags : \A t \in Texts : Option(f, t) = Repeat(f, Once(t)) /\ Once(t) \in Seq(Texts)
<1> SUFFICES ASSUME NEW f \in LaunchFlags, NEW t \in Texts
             PROVE  Option(f, t) = Repeat(f, Once(t)) /\ Once(t) \in Seq(Texts)
  OBVIOUS
<1>1. Once(t) \in Seq(Texts)
  BY OnceTexts
<1>2. CASE t = ""
  <2>1. Option(f, t) = << >> /\ Once(t) = << >>
    BY <1>2 DEF Option, Once
  <2>2. Repeat(f, << >>) \in Seq(Word) /\ Len(Repeat(f, << >>)) = 0
    <3>1. Repeat(f, << >>) \in Seq(Word)
      BY <1>1, <2>1, Parts
    <3>2. DOMAIN Repeat(f, << >>) = 1 .. 0
      BY DEF Repeat
    <3> QED BY <3>1, <3>2
  <2> QED BY <1>1, <2>1, <2>2
<1>3. CASE t # ""
  <2> DEFINE o == Option(f, t)
             r == Repeat(f, <<t>>)
  <2>1. o \in Seq(Word) /\ Len(o) = 2 /\ o[1] = Flag(f) /\ o[2] = Plain(t)
    <3>1. o \in Seq(Word)
      BY Parts
    <3> QED BY <1>3, <3>1 DEF Option
  <2>2. Len(<<t>>) = 1 /\ <<t>>[1] = t /\ Once(t) = <<t>>
    BY <1>3 DEF Once
  <2>3. r \in Seq(Word)
    BY <1>1, <2>2, Parts
  <2>4. r = [j \in 1 .. 2 |-> IF j % 2 = 1 THEN Flag(f) ELSE Plain(<<t>>[j \div 2])]
    BY <2>2 DEF Repeat
  <2>5. Len(r) = 2 /\ r[1] = Flag(f) /\ r[2] = Plain(t)
    <3>1. 1 % 2 = 1 /\ 2 % 2 # 1 /\ 2 \div 2 = 1 /\ 1 \in 1 .. 2 /\ 2 \in 1 .. 2
      OBVIOUS
    <3> QED BY <2>2, <2>3, <2>4, <3>1
  <2> HIDE DEF o, r
  <2>6. o = r
    <3>1. \A j \in 1 .. Len(o) : o[j] = r[j]
      BY <2>1, <2>5
    <3> QED BY <2>1, <2>3, <2>5, <3>1, SameList
  <2> QED BY <1>1, <2>2, <2>6 DEF o, r
<1> QED BY <1>2, <1>3

\* The texts of each flag.
LEMMA ToldTexts ==
  ASSUME NEW c \in {"launch", "trace"}, NEW a \in LaunchArguments
  PROVE  /\ Told(c, a) \in [Valued -> Seq(Texts)]
         /\ Told(c, a)["pkg"] = Once(a.pkg) /\ Told(c, a)["test"] = Once(a.test)
         /\ Told(c, a)["bin-path"] = Once(a.bin_path)
         /\ Told(c, a)["build-flags"] = Once(a.build_flags)
         /\ Told(c, a)["break"] = a.breakpoints /\ Told(c, a)["break-fn"] = a.break_functions
         /\ Told(c, a)["capture"] = IF c = "trace" THEN Once(a.capture) ELSE << >>
         /\ Told(c, a)["max"] = IF c = "trace" THEN Once(a.max_hits) ELSE << >>
<1>1. /\ a.pkg \in Texts /\ a.test \in Texts /\ a.bin_path \in Texts
      /\ a.build_flags \in Texts /\ a.capture \in Texts /\ a.max_hits \in Texts
      /\ a.breakpoints \in Seq(Texts) /\ a.break_functions \in Seq(Texts)
  BY DEF LaunchArguments
<1>2. {"pkg", "test", "bin-path", "build-flags", "break", "break-fn", "capture", "max"}
        \subseteq Valued
  BY LaunchAssumption DEF LaunchValued, LaunchFlags
<1>3. \A t \in Texts : Once(t) \in Seq(Texts)
  BY OnceTexts
<1>4. Told(c, a) \in [Valued -> Seq(Texts)]
  BY <1>1, <1>3 DEF Told
<1> QED BY <1>2, <1>4 DEF Told

\* The words of a tool call are those of a call.
LEMMA LaunchSpells ==
  ASSUME NEW c \in {"launch", "trace"}, NEW a \in LaunchArguments
  PROVE  \E w, F : /\ Spells(w, F)
                   /\ F["pkg"] = Once(a.pkg) /\ F["test"] = Once(a.test)
                   /\ F["bin-path"] = Once(a.bin_path)
                   /\ F["build-flags"] = Once(a.build_flags)
                   /\ F["break"] = a.breakpoints /\ F["break-fn"] = a.break_functions
                   /\ c = "trace" => F["max"] = Once(a.max_hits)
                   /\ launchArgv(c, a)[1] = Plain(c)
                   /\ Tail(launchArgv(c, a))
                        = CallWords(w, IF c = "launch" /\ a.stop_entry THEN 1 ELSE 0,
                                    Words(a.args))
<1>0. /\ a.pkg \in Texts /\ a.test \in Texts /\ a.bin_path \in Texts
      /\ a.build_flags \in Texts /\ a.capture \in Texts /\ a.max_hits \in Texts
      /\ a.breakpoints \in Seq(Texts) /\ a.break_functions \in Seq(Texts)
      /\ a.args \in Seq(Texts)
  BY DEF LaunchArguments
<1> DEFINE x == Plain(c)
           FF == Told(c, a)
           X == IF c = "launch" /\ a.stop_entry THEN 1 ELSE 0
           g == Words(a.args)
           L1 == <<x>> \o Option("pkg", a.pkg)
           L2 == L1 \o Option("test", a.test)
           L3 == L2 \o Option("bin-path", a.bin_path)
           L4 == L3 \o Repeat("break", a.breakpoints)
           L5 == L4 \o Repeat("break-fn", a.break_functions)
           L6 == L5 \o Option("build-flags", a.build_flags)
           T7 == IF c = "trace" THEN Option("capture", a.capture)
                                       \o Option("max", a.max_hits)
                 ELSE << >>
           L7 == L6 \o T7
           T8 == IF c = "launch" /\ a.stop_entry THEN <<Flag("stop-entry")>> ELSE << >>
           T9 == IF a.args = << >> THEN << >> ELSE <<End>> \o g
           D6 == {"pkg", "test", "bin-path", "break", "break-fn", "build-flags"}
<1>1. x \in Word
  BY Makers, WorkloadsAssumption
<1>2. /\ FF \in [Valued -> Seq(Texts)]
      /\ FF["pkg"] = Once(a.pkg) /\ FF["test"] = Once(a.test)
      /\ FF["bin-path"] = Once(a.bin_path)
      /\ FF["build-flags"] = Once(a.build_flags)
      /\ FF["break"] = a.breakpoints /\ FF["break-fn"] = a.break_functions
      /\ FF["capture"] = IF c = "trace" THEN Once(a.capture) ELSE << >>
      /\ FF["max"] = IF c = "trace" THEN Once(a.max_hits) ELSE << >>
  BY ToldTexts
<1>3. {"pkg", "test", "bin-path", "build-flags", "break", "break-fn", "capture", "max"}
        \subseteq Valued /\ Valued \subseteq LaunchFlags
  BY LaunchAssumption DEF LaunchValued, LaunchFlags
<1>4. /\ Option("pkg", a.pkg) = Repeat("pkg", FF["pkg"])
      /\ Option("test", a.test) = Repeat("test", FF["test"])
      /\ Option("bin-path", a.bin_path) = Repeat("bin-path", FF["bin-path"])
      /\ Option("build-flags", a.build_flags) = Repeat("build-flags", FF["build-flags"])
      /\ c = "trace" => /\ Option("capture", a.capture) = Repeat("capture", FF["capture"])
                        /\ Option("max", a.max_hits) = Repeat("max", FF["max"])
  BY <1>0, <1>2, <1>3, RepeatsOnce
<1> HIDE DEF x, FF
<1>5. Begun(L6, x, D6, FF)
  <2>0. Begun(<<x>>, x, {}, FF)
    BY <1>1, BegunNothing
  <2>1. Begun(L1, x, {} \cup {"pkg"}, FF)
    <3>1. "pkg" \in Valued \ {}
      BY <1>3
    <3> QED BY <1>1, <1>2, <1>4, <2>0, <3>1, BegunMore
  <2> HIDE DEF L1
  <2>2. Begun(L2, x, {"pkg"} \cup {"test"}, FF)
    <3>1. "test" \in Valued \ {"pkg"} /\ {} \cup {"pkg"} = {"pkg"}
      BY <1>3
    <3>2. Begun(L1, x, {"pkg"}, FF)
      BY <2>1, <3>1
    <3>3. L2 = L1 \o Repeat("test", FF["test"])
      BY <1>4
    <3> HIDE DEF L2
    <3> QED BY <1>1, <1>2, <3>1, <3>2, <3>3, BegunMore
  <2> HIDE DEF L2
  <2>3. Begun(L3, x, {"pkg", "test"} \cup {"bin-path"}, FF)
    <3>1. "bin-path" \in Valued \ {"pkg", "test"} /\ {"pkg"} \cup {"test"} = {"pkg", "test"}
      BY <1>3
    <3>2. Begun(L2, x, {"pkg", "test"}, FF)
      BY <2>2, <3>1
    <3>3. L3 = L2 \o Repeat("bin-path", FF["bin-path"])
      BY <1>4
    <3> HIDE DEF L3
    <3> QED BY <1>1, <1>2, <3>1, <3>2, <3>3, BegunMore
  <2> HIDE DEF L3
  <2>4. Begun(L4, x, {"pkg", "test", "bin-path"} \cup {"break"}, FF)
    <3>1. /\ "break" \in Valued \ {"pkg", "test", "bin-path"}
          /\ {"pkg", "test"} \cup {"bin-path"} = {"pkg", "test", "bin-path"}
      BY <1>3
    <3> QED BY <1>1, <1>2, <2>3, <3>1, BegunMore
  <2> HIDE DEF L4
  <2>5. Begun(L5, x, {"pkg", "test", "bin-path", "break"} \cup {"break-fn"}, FF)
    <3>1. /\ "break-fn" \in Valued \ {"pkg", "test", "bin-path", "break"}
          /\ {"pkg", "test", "bin-path"} \cup {"break"} = {"pkg", "test", "bin-path", "break"}
      BY <1>3
    <3> QED BY <1>1, <1>2, <2>4, <3>1, BegunMore
  <2> HIDE DEF L5
  <2>6. Begun(L6, x, {"pkg", "test", "bin-path", "break", "break-fn"} \cup {"build-flags"}, FF)
    <3>1. /\ "build-flags" \in Valued \ {"pkg", "test", "bin-path", "break", "break-fn"}
          /\ {"pkg", "test", "bin-path", "break"} \cup {"break-fn"}
               = {"pkg", "test", "bin-path", "break", "break-fn"}
      BY <1>3
    <3> QED BY <1>1, <1>2, <1>4, <2>5, <3>1, BegunMore
  <2>7. D6 = {"pkg", "test", "bin-path", "break", "break-fn"} \cup {"build-flags"}
    OBVIOUS
  <2> QED BY <2>6, <2>7
<1> HIDE DEF L6
<1>6. \E D : D6 \subseteq D /\ (c = "trace" => "max" \in D) /\ Begun(L7, x, D, FF)
  <2>1. CASE c = "trace"
    <3> DEFINE u == Option("capture", a.capture)
               v == Option("max", a.max_hits)
    <3>1. "capture" \in Valued \ D6 /\ "max" \in Valued \ (D6 \cup {"capture"})
      BY <1>3
    <3>2. Begun(L6 \o u, x, D6 \cup {"capture"}, FF)
      BY <1>1, <1>2, <1>4, <1>5, <2>1, <3>1, BegunMore
    <3>3. Begun((L6 \o u) \o v, x, (D6 \cup {"capture"}) \cup {"max"}, FF)
      <4> DEFINE D7 == D6 \cup {"capture"}
      <4> HIDE DEF D7, u
      <4>1. Begun(L6 \o u, x, D7, FF) /\ "max" \in Valued \ D7
        BY <3>1, <3>2 DEF D7
      <4>2. Begun((L6 \o u) \o v, x, D7 \cup {"max"}, FF)
        BY <1>1, <1>2, <1>4, <2>1, <4>1, BegunMore
      <4> QED BY <4>2 DEF D7
    <3>4. (L6 \o u) \o v = L7
      <4>1. u \in Seq(Word) /\ v \in Seq(Word)
        BY <1>0, <1>3, Parts
      <4>2. L6 \in Seq(Word)
        <5>1. PICK w : L6 = <<x>> \o w /\ w \in Seq(Word)
          BY <1>5 DEF Begun, Spells
        <5>2. <<x>> \in Seq(Word)
          BY <1>1
        <5> QED BY <5>1, <5>2
      <4> HIDE DEF u, v
      <4>3. (L6 \o u) \o v = L6 \o (u \o v)
        BY <4>1, <4>2, ConcatAssociative
      <4> QED BY <2>1, <4>3 DEF u, v
    <3>5. D6 \subseteq (D6 \cup {"capture"}) \cup {"max"}
      OBVIOUS
    <3> QED BY <3>3, <3>4, <3>5
  <2>2. CASE c # "trace"
    <3>1. L6 \in Seq(Word)
      <4>1. PICK w : L6 = <<x>> \o w /\ w \in Seq(Word)
        BY <1>5 DEF Begun, Spells
      <4>2. <<x>> \in Seq(Word)
        BY <1>1
      <4> QED BY <4>1, <4>2
    <3>2. L7 = L6
      BY <2>2, <3>1
    <3> QED BY <1>5, <2>2, <3>2
  <2> QED BY <2>1, <2>2
<1> HIDE DEF L7
<1>7. PICK D, w : /\ D6 \subseteq D /\ (c = "trace" => "max" \in D)
                  /\ L7 = <<x>> \o w /\ Spells(w, Filled(D, FF))
  BY <1>6 DEF Begun
<1>8. g \in Seq(Word) /\ (g = << >> <=> a.args = << >>)
  <2>1. Words(a.args) \in Seq(Word) /\ DOMAIN Words(a.args) = DOMAIN a.args
    BY <1>0, Parts DEF Words
  <2>2. Len(g) = Len(a.args)
    BY <1>0, <2>1
  <2> QED BY <1>0, <2>1, <2>2
<1> HIDE DEF g
<1>9. T8 \in Seq(Word) /\ T9 \in Seq(Word)
  <2>1. Flag("stop-entry") \in Word /\ <<End>> \in Seq(Word)
    BY Makers DEF LaunchFlags
  <2> QED BY <1>8, <2>1
<1>10. launchArgv(c, a) = (L7 \o T8) \o T9
  BY DEF launchArgv, L7, L6, x, g
<1>11. CallWords(w, X, g) = (w \o T8) \o T9
  <2>1. T8 = IF X = 1 THEN <<Flag("stop-entry")>> ELSE << >>
    OBVIOUS
  <2>2. T9 = IF g = << >> THEN << >> ELSE <<End>> \o g
    BY <1>8
  <2> HIDE DEF T8, T9, X
  <2> QED BY <2>1, <2>2 DEF CallWords
<1> HIDE DEF T8, T9, X
<1>12. /\ Tail((L7 \o T8) \o T9) = (w \o T8) \o T9
       /\ ((L7 \o T8) \o T9)[1] = x
  <2> DEFINE p == <<x>>
  <2>1. p \in Seq(Word) /\ w \in Seq(Word) /\ Len(p) = 1
    BY <1>1, <1>7 DEF Spells
  <2>2. w \o T8 \in Seq(Word) /\ (w \o T8) \o T9 \in Seq(Word)
    BY <1>9, <2>1
  <2>3. (L7 \o T8) \o T9 = p \o ((w \o T8) \o T9)
    <3> HIDE DEF p
    <3>1. (p \o w) \o T8 = p \o (w \o T8)
      <4>1. p \in Seq(Word) /\ w \in Seq(Word) /\ T8 \in Seq(Word)
        BY <1>9, <2>1
      <4> QED BY <4>1, ConcatAssociative
    <3>2. ASSUME NEW s \in Seq(Word) PROVE (p \o s) \o T9 = p \o (s \o T9)
      <4>1. p \in Seq(Word) /\ T9 \in Seq(Word)
        BY <1>9, <2>1
      <4> QED BY <4>1, ConcatAssociative
    <3> QED BY <1>7, <2>2, <3>1, <3>2 DEF p
  <2>4. \A s \in Seq(Word) : Tail(p \o s) = s /\ (p \o s)[1] = x
    BY <2>1
  <2> QED BY <2>2, <2>3, <2>4
<1>13. Tail(launchArgv(c, a)) = CallWords(w, X, g) /\ launchArgv(c, a)[1] = Plain(c)
  BY <1>10, <1>11, <1>12 DEF x
<1>14. \A f \in D6 : Filled(D, FF)[f] = FF[f]
  BY <1>3, <1>7 DEF Filled
<1>15. c = "trace" => Filled(D, FF)["max"] = FF["max"]
  BY <1>3, <1>7 DEF Filled
<1> HIDE DEF D6
<1>16. \A f \in {"pkg", "test", "bin-path", "break", "break-fn", "build-flags"} :
         Filled(D, FF)[f] = FF[f]
  BY <1>14 DEF D6
<1> QED BY <1>2, <1>7, <1>13, <1>15, <1>16 DEF X, g

\* The command of a tool is no do and no down.
LEMMA FirstWord ==
  ASSUME NEW m \in Messages, m.tool \in Tools \ LocalTools
  PROVE  /\ Argv(m)[1].v \notin {"down", "do"}
         /\ m.tool = "debug_launch" => Argv(m)[1].v = "launch"
         /\ m.tool = "debug_trace" => Argv(m)[1].v = "trace"
         /\ Argv(m)[1].v \in {"launch", "trace"} => m.tool \in LaunchTools
<1>0. \A t : Plain(t).v = t
  BY DEF Plain
<1>1. CASE m.tool = "debug_launch"
  <2>1. m.a \in LaunchArguments
    BY <1>1 DEF Messages, LaunchTools
  <2>2. Argv(m)[1] = Plain("launch")
    BY <1>1, <2>1, LaunchSpells DEF Argv
  <2> QED BY <1>0, <1>1, <2>2 DEF LaunchTools
<1>2. CASE m.tool = "debug_trace"
  <2>1. m.a \in LaunchArguments
    BY <1>2 DEF Messages, LaunchTools
  <2>2. Argv(m)[1] = Plain("trace")
    BY <1>2, <2>1, LaunchSpells DEF Argv
  <2> QED BY <1>0, <1>2, <2>2 DEF LaunchTools
<1>3. CASE m.tool = "debug_eval"
  <2>1. m.a.expressions \in Seq(Texts)
    BY <1>3 DEF Messages, LaunchTools
  <2>2. Argv(m) = <<Plain("eval")>> \o Words(m.a.expressions)
    BY <1>3 DEF Argv
  <2>3. <<Plain("eval")>> \in Seq(Word) /\ Words(m.a.expressions) \in Seq(Word)
    BY <2>1, Parts, Makers, WorkloadsAssumption
  <2>4. Argv(m)[1] = Plain("eval")
    BY <2>2, <2>3
  <2> QED BY <1>0, <1>3, <2>4
<1>4. CASE m.tool \in {"debug_stop", "debug_pause", "debug_vars"}
  <2>1. \E t \in {"stop", "pause", "vars"} : Argv(m) = <<Plain(t)>>
    BY <1>4 DEF Argv
  <2> QED BY <1>0, <1>4, <2>1
<1> QED BY <1>1, <1>2, <1>3, <1>4 DEF Tools, LocalTools

\* The daemon works at the server's call.
LEMMA ArrivingKept ==
  ASSUME Arriving, UNCHANGED <<input, n, caller>>,
         caller = "mcp" => /\ ~inDo'
                           /\ pc' = "parse" => pc = "parse" /\ UNCHANGED <<cmd, args>>
  PROVE  Arriving'
BY DEF Arriving, Line

LEMMA ArrivingInductive == IInv /\ [Next]_vars => Arriving'
<1> SUFFICES ASSUME IInv, [Next]_vars PROVE Arriving' OBVIOUS
<1>0. DaemonInv /\ FrontInv /\ Arriving /\ (pc = "next" => inDo)
  BY Halves DEF IInv, ScriptSoFar
<1>1. CASE UNCHANGED vars \/ (ParseStep /\ UNCHANGED <<comVars, mcpVars>>)
  <2>1. UNCHANGED <<comVars, input, n, caller>> /\ UNCHANGED args
    BY <1>1 DEF vars, argsVars, mcpVars, ParseStep, ParseEnd, ParseAssign, ParseBare,
                ParseValued, ParsePositional, ParseRefuses, ParseEnds
  <2> QED BY <1>0, <2>1, ArrivingKept DEF comVars, Arriving
<1>2. CASE Skip \/ TooLong \/ Known \/ Unknown \/ CallLocal \/ CallReturns \/ Run \/ RunReturns
  <2>1. caller' # "mcp"
    BY <1>2 DEF Skip, TooLong, Known, Unknown, CallLocal, CallReturns, Run, RunReturns, Listening
  <2> QED BY <2>1 DEF Arriving
<1>3. CASE NoDaemonRunning
  <2>1. UNCHANGED <<argsVars, comVars, input, n, caller>>
    BY <1>3 DEF NoDaemonRunning
  <2> QED BY <1>0, <2>1, ArrivingKept DEF argsVars, comVars, Arriving
<1>4. CASE Call
  <2>1. /\ n <= Len(input) /\ Line.tool \in Tools \ LocalTools /\ Handle(Argv(Line))
        /\ UNCHANGED <<input, n>>
    BY <1>4 DEF Call, Listening
  <2>2. Argv(Line)[1].v \notin {"down", "do"}
    BY <1>0, <2>1, CommandLines, FirstWord
  <2>3. Execute(Argv(Line)) /\ inDo' = inDo /\ pc = "idle"
    BY <2>1, <2>2 DEF Handle
  <2>4. ~inDo'
    BY <1>0, <2>3 DEF DaemonInv
  <2>5. pc' = "parse" => cmd' = Argv(Line)[1].v /\ args' = Tail(Argv(Line))
    <3>1. CASE Parse(Tail(Argv(Line)))
      BY <2>3, <3>1 DEF Execute, Parse
    <3>2. CASE pc' # "parse"
      BY <3>2
    <3>3. ASSUME NEW c, NEW r, Ends(c, r) PROVE pc' # "parse"
      BY <3>3 DEF Ends
    <3>4. Eval(Tail(Argv(Line))) => pc' # "parse"
      BY <3>3 DEF Eval
    <3>5. Simple(Argv(Line)[1].v) => pc' # "parse"
      BY <3>3 DEF Simple
    <3> QED BY <2>3, <3>1, <3>4, <3>5 DEF Execute
  <2>6. Line' = Line /\ Argv(Line)' = Argv(Line)
    <3>1. Line' = Line
      BY <2>1 DEF Line
    <3> QED BY <3>1
  <2> QED BY <2>1, <2>4, <2>5, <2>6 DEF Arriving
<1>5. CASE (DoNext \/ InnerDoEnds \/ DoEnds) /\ UNCHANGED mcpVars
  <2>1. pc = "next" /\ caller # "mcp"
    BY <1>0, <1>5 DEF DoNext, InnerDoEnds, DoEnds, Arriving
  <2> QED BY <1>0, <1>5, <2>1, ArrivingKept DEF mcpVars
<1>6. CASE /\ Refuse \/ StopOld \/ StartFails \/ Started \/ SetBreakpoint
               \/ BreakpointFails \/ Launched
           /\ UNCHANGED mcpVars
  <2>1. inDo' = inDo /\ pc' # "parse"
    <3>1. ASSUME NEW c, NEW r, Ends(c, r) PROVE pc' # "parse"
      BY <3>1 DEF Ends
    <3> QED BY <1>6, <3>1 DEF Refuse, StopOld, StartFails, Started, SetBreakpoint,
               BreakpointFails, Launched
  <2> QED BY <1>0, <1>6, <2>1, ArrivingKept DEF mcpVars, Arriving
<1>7. CASE DaemonEnds /\ UNCHANGED mcpVars
  <2>1. ~inDo' /\ pc' # "parse"
    BY <1>7 DEF DaemonEnds
  <2> QED BY <1>0, <1>7, <2>1, ArrivingKept DEF mcpVars
<1> QED BY <1>1, <1>2, <1>3, <1>4, <1>5, <1>6, <1>7
       DEF Next, Serve, CommandLine, Daemon, CommandStep, LaunchStep

\* The value of a flag given at most once.
LEMMA FirstOnce ==
  ASSUME NEW f, NEW t \in Texts, flags[f] = Words(Once(t))
  PROVE  First(f) = Plain(t)
<1>1. CASE t = ""
  <2>1. Words(<< >>) = << >>
    BY DEF Words
  <2> QED BY <1>1, <2>1 DEF First, Once, Empty
<1>2. CASE t # ""
  <2>1. Words(<<t>>) = <<Plain(t)>>
    BY DEF Words
  <2>2. flags[f] = <<Plain(t)>>
    BY <1>2, <2>1 DEF Once
  <2> QED BY <2>2 DEF First
<1> QED BY <1>1, <1>2

\* The words of the call are read as its arguments.
LEMMA Arrives == IInv => ToolArgumentsArrive
<1> SUFFICES ASSUME IInv, caller = "mcp", pc = "parse", parser \in {"done", "refused"}
             PROVE  LET a == Line.a IN
                    /\ parser = "done" /\ pos = << >> /\ rest = Words(a.args)
                    /\ flags["break"] = Words(a.breakpoints)
                    /\ flags["break-fn"] = Words(a.break_functions)
                    /\ First("pkg") = Plain(a.pkg) /\ First("test") = Plain(a.test)
                    /\ First("bin-path") = Plain(a.bin_path)
                    /\ First("build-flags") = Plain(a.build_flags)
                    /\ cmd = "launch" => (flags["stop-entry"] # << >> <=> a.stop_entry)
                    /\ cmd = "trace" => First("max") = Plain(a.max_hits)
  BY DEF ToolArgumentsArrive
<1> DEFINE a == Line.a
           X == IF cmd = "launch" /\ a.stop_entry THEN 1 ELSE 0
           g == Words(a.args)
<1>1. /\ DaemonInv /\ FrontInv /\ Line.tool \in Tools \ LocalTools
      /\ cmd = Argv(Line)[1].v /\ args = Tail(Argv(Line)) /\ n <= Len(input)
  BY Halves DEF IInv, Arriving, FrontInv
<1>2. /\ ArgsTypeOK /\ RefusedExactly /\ ParsedAsRead /\ cmd \in {"launch", "trace"}
  BY <1>1 DEF DaemonInv
<1>3. Line \in Messages
  BY <1>1, CommandLines
<1>4. Line.tool \in LaunchTools /\ Argv(Line) = launchArgv(cmd, a)
  <2>1. Line.tool \in LaunchTools
    BY <1>1, <1>2, <1>3, FirstWord
  <2> QED BY <1>1, <1>3, <2>1, FirstWord DEF LaunchTools, Argv
<1>5. a \in LaunchArguments
  BY <1>3, <1>4 DEF Messages, LaunchTools
<1>6. /\ a.pkg \in Texts /\ a.test \in Texts /\ a.bin_path \in Texts
      /\ a.build_flags \in Texts /\ a.max_hits \in Texts /\ a.args \in Seq(Texts)
      /\ a.stop_entry \in BOOLEAN
  BY <1>5 DEF LaunchArguments
<1>7. PICK w, F : /\ Spells(w, F)
                  /\ F["pkg"] = Once(a.pkg) /\ F["test"] = Once(a.test)
                  /\ F["bin-path"] = Once(a.bin_path)
                  /\ F["build-flags"] = Once(a.build_flags)
                  /\ F["break"] = a.breakpoints /\ F["break-fn"] = a.break_functions
                  /\ cmd = "trace" => F["max"] = Once(a.max_hits)
                  /\ Tail(launchArgv(cmd, a)) = CallWords(w, X, g)
  <2> HIDE DEF a
  <2> QED BY <1>2, <1>5, LaunchSpells
<1>8. args = CallWords(w, X, g)
  BY <1>1, <1>4, <1>7
<1>9. F \in [Valued -> Seq(Texts)] /\ X \in {0, 1} /\ g \in Seq(Word)
  BY <1>6, <1>7, Parts DEF Spells
<1>9a. X = 1 <=> cmd = "launch" /\ a.stop_entry
  OBVIOUS
<1> HIDE DEF X, g
<1>10. PICK l \in Nat : Called(l, F, X, g)
  BY <1>7, <1>8, <1>9, PutTogether
<1>11. /\ parser = "done" /\ pos = << >> /\ rest = g
       /\ \A f \in Valued : flags[f] = Words(F[f])
       /\ flags["stop-entry"] # << >> <=> X = 1
  BY <1>2, <1>9, <1>10, ReadsCall
<1>12. {"pkg", "test", "bin-path", "build-flags", "break", "break-fn", "max"} \subseteq Valued
  BY LaunchAssumption DEF LaunchValued, LaunchFlags
<1> HIDE DEF a
<1>13. /\ flags["pkg"] = Words(Once(a.pkg)) /\ flags["test"] = Words(Once(a.test))
       /\ flags["bin-path"] = Words(Once(a.bin_path))
       /\ flags["build-flags"] = Words(Once(a.build_flags))
       /\ flags["break"] = Words(a.breakpoints) /\ flags["break-fn"] = Words(a.break_functions)
       /\ cmd = "trace" => flags["max"] = Words(Once(a.max_hits))
  BY <1>7, <1>11, <1>12
<1>14. /\ First("pkg") = Plain(a.pkg) /\ First("test") = Plain(a.test)
       /\ First("bin-path") = Plain(a.bin_path) /\ First("build-flags") = Plain(a.build_flags)
       /\ cmd = "trace" => First("max") = Plain(a.max_hits)
  BY <1>6, <1>13, FirstOnce
<1>15. cmd = "launch" => (flags["stop-entry"] # << >> <=> a.stop_entry)
  BY <1>6, <1>9a, <1>11
<1> QED BY <1>11, <1>13, <1>14, <1>15 DEF a, g

-----------------------------------------------------------------------------
(* Progress.                                                                *)

MessagesLeft == Len(input) + 1 - n
NotBegun == IF caller = "none" THEN 1 ELSE 0

\* How far a command is from its end.
Stage(p) == CASE p = "parse" -> 5 [] p = "start" -> 4 [] p = "breaks" -> 3
              [] p = "next" -> 2 [] p = "done" -> 1 [] OTHER -> 0

\* The words that parseArgs, and the locations that launch, still have before them.
Ahead == CASE pc = "parse" /\ parser = "on" -> Len(args) + 2 - i
           [] pc = "breaks" -> Len(todo)
           [] OTHER -> 0

\* What is left to do, the weightiest first: messages, command lines, a command that
\* has not begun, the words of its script, its inner dos, its stages, the next stage.
Todo == <<MessagesLeft, Len(lines), NotBegun, Len(left), deep, Stage(pc), Ahead>>

\* Less is left to do: in the order of the dictionary.
Shrinks == \E k \in 1 .. 7 : Todo'[k] < Todo[k] /\ \A h \in 1 .. k - 1 : Todo'[h] = Todo[h]

\* Every step of the server, of the user and of the daemon is towards the end, and a
\* daemon that goes away leaves no more to do.
WorkAdvance == Shrinks \/ (DaemonEnds /\ Todo' = Todo)

\* dispatch finds the end of the first part, and the command in it.
CanDispatch ==
  \E j \in 1 .. Len(left) + 1 : PartEnd(j) /\ \E k \in 0 .. j - 1 : Begins(j, k)

\* Nobody is stuck: the front ends can go on, or the one that waits can take its
\* answer, or the daemon can go on with the command.
SomebodyActs ==
  \/ pc = "idle" /\ caller = "none"
  \/ pc = "done" /\ caller # "none"
  \/ pc = "next" /\ up /\ (deep > 0 \/ left = << >> \/ Failed \/ CanDispatch)
  \/ pc = "parse" /\ up /\ parser # "off"
  \/ pc \in {"start", "breaks"} /\ up

\* The daemon works exactly while somebody waits for it.
Busy == caller = "none" <=> pc = "idle"

\* What is left shrinks when one thing does and the weightier ones stay.
LEMMA LessToDo ==
  /\ MessagesLeft' < MessagesLeft => Shrinks
  /\ MessagesLeft' = MessagesLeft =>
       /\ Len(lines)' < Len(lines) => Shrinks
       /\ Len(lines)' = Len(lines) =>
            /\ NotBegun' < NotBegun => Shrinks
            /\ NotBegun' = NotBegun =>
                 /\ Len(left)' < Len(left) => Shrinks
                 /\ Len(left)' = Len(left) =>
                      /\ deep' < deep => Shrinks
                      /\ deep' = deep =>
                           /\ Stage(pc)' < Stage(pc) => Shrinks
                           /\ Stage(pc)' = Stage(pc) => (Ahead' < Ahead => Shrinks)
<1> DEFINE a1 == MessagesLeft
           a2 == Len(lines)
           a3 == NotBegun
           a4 == Len(left)
           a6 == Stage(pc)
           a7 == Ahead
<1>0. Todo = <<a1, a2, a3, a4, deep, a6, a7>> /\ Todo' = <<a1', a2', a3', a4', deep', a6', a7'>>
  BY DEF Todo
<1> HIDE DEF a1, a2, a3, a4, a6, a7
<1>1. a1' < a1 => Shrinks
  BY <1>0 DEF Shrinks
<1>2. a1' = a1 /\ a2' < a2 => Shrinks
  BY <1>0 DEF Shrinks
<1>3. a1' = a1 /\ a2' = a2 /\ a3' < a3 => Shrinks
  BY <1>0 DEF Shrinks
<1>4. a1' = a1 /\ a2' = a2 /\ a3' = a3 /\ a4' < a4 => Shrinks
  BY <1>0 DEF Shrinks
<1>5. a1' = a1 /\ a2' = a2 /\ a3' = a3 /\ a4' = a4 /\ deep' < deep => Shrinks
  BY <1>0 DEF Shrinks
<1>6. a1' = a1 /\ a2' = a2 /\ a3' = a3 /\ a4' = a4 /\ deep' = deep /\ a6' < a6 => Shrinks
  BY <1>0 DEF Shrinks
<1>7. a1' = a1 /\ a2' = a2 /\ a3' = a3 /\ a4' = a4 /\ deep' = deep /\ a6' = a6 /\ a7' < a7
      => Shrinks
  BY <1>0 DEF Shrinks
<1> QED BY <1>1, <1>2, <1>3, <1>4, <1>5, <1>6, <1>7 DEF a1, a2, a3, a4, a6, a7

\* A line of input, a command line or a request that has not begun is dealt with.
LEMMA FrontEndsAdvance ==
  ASSUME Core, Serve \/ CommandLine
  PROVE  Shrinks
<1>0. DaemonInv /\ FrontInv BY Halves
<1>1. n \in Nat /\ Len(input) \in Nat BY <1>0 DEF FrontInv
<1>2. CASE Skip \/ TooLong \/ Known \/ Unknown \/ CallLocal
  <2>1. n <= Len(input) /\ n' \in {n + 1, Len(input) + 1} /\ input' = input
    BY <1>2 DEF Skip, TooLong, Known, Unknown, CallLocal, Listening, Reply
  <2>2. MessagesLeft' < MessagesLeft BY <1>1, <2>1 DEF MessagesLeft
  <2> QED BY <2>2, LessToDo
<1>3. CASE CallReturns
  <2>1. n' = n + 1 /\ input' = input BY <1>3 DEF CallReturns, Reply
  <2>2. MessagesLeft' < MessagesLeft BY <1>1, <2>1 DEF MessagesLeft
  <2> QED BY <2>2, LessToDo
<1>4. CASE Call \/ Run
  <2>1. caller = "none" /\ caller' \in {"mcp", "cli"} /\ UNCHANGED <<input, n, lines>>
    BY <1>4 DEF Call, Run
  <2>2. NotBegun' < NotBegun BY <2>1 DEF NotBegun
  <2>3. MessagesLeft' = MessagesLeft /\ Len(lines)' = Len(lines) BY <2>1 DEF MessagesLeft
  <2> QED BY <2>2, <2>3, LessToDo
<1>5. CASE NoDaemonRunning \/ RunReturns
  <2>1. lines # << >> /\ lines' = Tail(lines) /\ UNCHANGED <<input, n>>
    BY <1>0, <1>5 DEF NoDaemonRunning, RunReturns, FrontInv
  <2>2. lines \in Seq(Seq(Word) \ {<< >>}) BY <1>0 DEF FrontInv, Lines
  <2>3. Len(lines)' < Len(lines) BY <2>1, <2>2
  <2>4. MessagesLeft' = MessagesLeft BY <2>1 DEF MessagesLeft
  <2> QED BY <2>3, <2>4, LessToDo
<1> QED BY <1>2, <1>3, <1>4, <1>5 DEF Serve, CommandLine

\* A turn of parseArgs has fewer words before it, or is the last.
LEMMA ParsingAdvances ==
  ASSUME Core, ParseStep, UNCHANGED comVars
  PROVE  Ahead' < Ahead
<1>0. DaemonInv BY Halves
<1>1. ArgsTypeOK /\ ReadSoFar BY <1>0 DEF DaemonInv
<1>2. args' = args /\ parser = "on" /\ pc = "parse" /\ pc' = pc
  <2>1. args' = args /\ parser = "on"
    BY DEF ParseStep, ParseEnd, ParseAssign, ParseBare, ParseValued, ParsePositional,
           ParseRefuses, ParseEnds, Reading
  <2> QED BY <1>0, <2>1 DEF DaemonInv, comVars
<1>3. Len(args) \in Nat /\ i \in Nat /\ i <= Len(args) + 1
  BY <1>1, <1>2 DEF ArgsTypeOK, ReadSoFar
<1>4. Ahead = Len(args) + 2 - i BY <1>2 DEF Ahead
<1>5. CASE ParseAssign \/ ParseBare \/ ParseValued \/ ParsePositional
  <2>1. i' \in {i + 1, i + 2} /\ parser' = parser
    BY <1>5 DEF ParseAssign, ParseBare, ParseValued, ParsePositional
  <2>2. Ahead' = Len(args) + 2 - i' BY <1>2, <2>1 DEF Ahead
  <2> QED BY <1>3, <1>4, <2>1, <2>2
<1>6. CASE ParseEnd \/ ParseRefuses \/ ParseEnds
  <2>1. parser' # "on" BY <1>6 DEF ParseEnd, ParseRefuses, ParseEnds
  <2>2. Ahead' = 0 BY <1>2, <2>1 DEF Ahead
  <2> QED BY <1>3, <1>4, <2>2
<1> QED BY <1>5, <1>6 DEF ParseStep

\* The daemon goes on with its command: with its script, its words, its stages or
\* its breakpoints.
LEMMA DaemonAdvances ==
  ASSUME Core, Daemon
  PROVE  Shrinks
<1>0. DaemonInv BY Halves
<1>1. UNCHANGED mcpVars BY DEF Daemon
<1>2. MessagesLeft' = MessagesLeft /\ Len(lines)' = Len(lines) /\ NotBegun' = NotBegun
  BY <1>1 DEF mcpVars, MessagesLeft, NotBegun
<1>3. left \in Seq(Word) /\ deep \in Nat /\ todo \in Seq(Word) /\ inDo \in BOOLEAN
  BY <1>0 DEF DaemonInv
<1>4. CASE DoNext
  <2>1. PICK j \in 1 .. Len(left) + 1 : left' = SubSeq(left, j + 1, Len(left))
    BY <1>4 DEF DoNext, DispatchPart
  <2>2. left # << >> BY <1>4 DEF DoNext
  <2>3. j \in Nat \ {0} /\ Len(left) \in Nat \ {0} BY <1>3, <2>1, <2>2
  <2>4. Len(left') = (IF j + 1 <= Len(left) THEN Len(left) - j ELSE 0)
    BY <1>3, <2>1, <2>3, SubSeqProperties
  <2>5. Len(left)' < Len(left) BY <2>3, <2>4
  <2> QED BY <1>2, <2>5, LessToDo
<1>5. CASE InnerDoEnds
  <2>1. deep' = deep - 1 /\ left' = left BY <1>5 DEF InnerDoEnds
  <2>2. deep' < deep BY <1>3, <2>1
  <2> QED BY <1>2, <2>1, <2>2, LessToDo
<1>6. CASE DoEnds
  <2>1. pc = "next" /\ pc' = "done" /\ left' = << >> /\ deep' = deep BY <1>6 DEF DoEnds
  <2>2. Stage(pc)' < Stage(pc) BY <2>1 DEF Stage
  <2>3. Len(left)' = Len(left) \/ Len(left)' < Len(left) BY <1>3, <2>1
  <2> QED BY <1>2, <2>1, <2>2, <2>3, LessToDo
<1>7. CASE Refuse \/ StopOld \/ StartFails \/ Started \/ BreakpointFails \/ Launched
  <2>1. left' = left /\ deep' = deep
    BY <1>7 DEF Refuse, StopOld, StartFails, Started, BreakpointFails, Launched
  <2>2. \/ pc \in {"parse", "start", "breaks"} /\ pc' \in {"next", "done"}
        \/ pc = "parse" /\ pc' = "start"
        \/ pc = "start" /\ pc' = "breaks"
    BY <1>3, <1>7 DEF Refuse, StopOld, StartFails, Started, BreakpointFails, Launched, Ends
  <2>3. Stage(pc)' < Stage(pc) BY <2>2 DEF Stage
  <2> QED BY <1>2, <2>1, <2>3, LessToDo
<1>8. CASE SetBreakpoint
  <2>1. /\ pc = "breaks" /\ pc' = pc /\ todo # << >> /\ todo' = Tail(todo)
        /\ left' = left /\ deep' = deep
    BY <1>8 DEF SetBreakpoint
  <2>2. Ahead' < Ahead BY <1>3, <2>1 DEF Ahead
  <2>3. Stage(pc)' = Stage(pc) BY <2>1
  <2> QED BY <1>2, <2>1, <2>2, <2>3, LessToDo
<1>9. CASE ParseStep /\ UNCHANGED comVars
  <2>1. Ahead' < Ahead BY <1>9, ParsingAdvances
  <2>2. left' = left /\ deep' = deep /\ Stage(pc)' = Stage(pc) BY <1>9 DEF comVars
  <2> QED BY <1>2, <2>1, <2>2, LessToDo
<1> QED BY <1>4, <1>5, <1>6, <1>7, <1>8, <1>9 DEF Daemon, CommandStep, LaunchStep

\* The daemon goes away: its command has come to its end.
LEMMA EndAdvances ==
  ASSUME Core, DaemonEnds, UNCHANGED mcpVars
  PROVE  Shrinks \/ Todo' = Todo
<1>0. DaemonInv BY Halves
<1>1. MessagesLeft' = MessagesLeft /\ Len(lines)' = Len(lines) /\ NotBegun' = NotBegun
  BY DEF mcpVars, MessagesLeft, NotBegun
<1>2. left \in Seq(Word) /\ deep \in Nat /\ pc \in {"idle", "next", "parse", "start", "breaks", "done"}
  BY <1>0 DEF DaemonInv
<1>3. left' = << >> /\ deep' = 0 /\ pc' = (IF pc = "idle" THEN "idle" ELSE "done")
  BY DEF DaemonEnds
<1>4. CASE Len(left)' < Len(left) BY <1>1, <1>4, LessToDo
<1>5. CASE Len(left)' = Len(left) /\ deep' < deep BY <1>1, <1>5, LessToDo
<1>6. CASE Len(left)' = Len(left) /\ deep' = deep /\ pc \notin {"idle", "done"}
  <2>1. Stage(pc)' < Stage(pc) BY <1>2, <1>3, <1>6 DEF Stage
  <2> QED BY <1>1, <1>6, <2>1, LessToDo
<1>7. CASE Len(left)' = Len(left) /\ deep' = deep /\ pc \in {"idle", "done"}
  <2>1. pc' = pc BY <1>3, <1>7
  <2>2. Stage(pc)' = Stage(pc) BY <2>1
  <2>3. Ahead' = Ahead BY <1>7, <2>1 DEF Ahead
  <2> QED BY <1>1, <1>7, <2>2, <2>3 DEF Todo
<1>8. Len(left)' = Len(left) \/ Len(left)' < Len(left) BY <1>2, <1>3
<1>9. deep' = deep \/ deep' < deep BY <1>2, <1>3
<1> QED BY <1>4, <1>5, <1>6, <1>7, <1>8, <1>9

\* What is left is counted in natural numbers, so that it cannot shrink for ever.
LEMMA Counted == Core => \A k \in 1 .. 7 : Todo[k] \in Nat
<1> SUFFICES ASSUME Core PROVE \A k \in 1 .. 7 : Todo[k] \in Nat
  OBVIOUS
<1>0. DaemonInv /\ FrontInv BY Halves
<1>1. MessagesLeft \in Nat BY <1>0 DEF FrontInv, MessagesLeft
<1>2. Len(lines) \in Nat BY <1>0 DEF FrontInv, Lines
<1>3. NotBegun \in Nat BY DEF NotBegun
<1>4. Len(left) \in Nat /\ deep \in Nat BY <1>0 DEF DaemonInv
<1>5. Stage(pc) \in Nat BY <1>0 DEF DaemonInv, Stage
<1>6. Ahead \in Nat
  <2>1. CASE pc = "parse" /\ parser = "on"
    <3>1. Len(args) \in Nat /\ i \in Nat /\ i <= Len(args) + 1
      BY <1>0, <2>1 DEF DaemonInv, ArgsTypeOK, ReadSoFar
    <3>2. Ahead = Len(args) + 2 - i BY <2>1 DEF Ahead
    <3> QED BY <3>1, <3>2
  <2>2. CASE pc = "breaks"
    <3>1. Ahead = Len(todo) BY <2>2 DEF Ahead
    <3> QED BY <1>0, <3>1 DEF DaemonInv
  <2>3. CASE ~(pc = "parse" /\ parser = "on") /\ pc # "breaks"
    BY <2>3 DEF Ahead
  <2> QED BY <2>1, <2>2, <2>3
<1>7. /\ Todo[1] = MessagesLeft /\ Todo[2] = Len(lines) /\ Todo[3] = NotBegun
      /\ Todo[4] = Len(left) /\ Todo[5] = deep /\ Todo[6] = Stage(pc) /\ Todo[7] = Ahead
  BY DEF Todo
<1>8. 1 .. 7 = {1, 2, 3, 4, 5, 6, 7}
  OBVIOUS
<1> QED BY <1>1, <1>2, <1>3, <1>4, <1>5, <1>6, <1>7, <1>8

\* A script that is not at its end has a first part, and it begins with some dos.
LEMMA Dispatches ==
  ASSUME left \in Seq(Word), left # << >>
  PROVE  CanDispatch
<1> DEFINE l == Len(left)
           T == {j \in 1 .. l + 1 : j <= l => left[j] = Semicolon}
<1>1. l \in Nat OBVIOUS
<1> HIDE DEF l
<1>2. T \in SUBSET Nat /\ l + 1 \in T BY <1>1
<1>3. PICK j \in T : \A y \in T : j <= y BY <1>2, Least
<1>4. j \in 1 .. l + 1 /\ (j <= l => left[j] = Semicolon) BY <1>3
<1>5. ASSUME NEW h \in 1 .. j - 1 PROVE left[h] # Semicolon
  <2>1. h \in 1 .. l + 1 /\ h < j BY <1>1, <1>4
  <2>2. h \notin T BY <1>1, <1>3, <1>4, <2>1
  <2> QED BY <2>1, <2>2
<1>6. PartEnd(j) BY <1>4, <1>5 DEF PartEnd, l
<1> DEFINE U == {k \in 0 .. j - 1 : k + 1 < j => left[k + 1].v # "do"}
<1>7. j \in Nat \ {0} BY <1>1, <1>4
<1>7a. j - 1 \in 0 .. j - 1 /\ ~((j - 1) + 1 < j) /\ 0 .. j - 1 \subseteq Nat BY <1>7
<1>8. U \in SUBSET Nat /\ j - 1 \in U BY <1>7a
<1>9. PICK k \in U : \A y \in U : k <= y BY <1>8, Least
<1>10. k \in 0 .. j - 1 /\ (k + 1 < j => left[k + 1].v # "do") BY <1>9
<1>11. ASSUME NEW h \in 1 .. k PROVE left[h].v = "do"
  <2>0. k \in Nat /\ k <= j - 1 BY <1>7, <1>10
  <2>1. h - 1 \in 0 .. j - 1 /\ h - 1 < k /\ k \in Nat BY <1>7, <2>0
  <2>2. h - 1 \notin U BY <1>9, <1>10, <2>1
  <2>3. (h - 1) + 1 = h BY <2>1, <1>10
  <2> QED BY <2>1, <2>2, <2>3
<1>12. Begins(j, k)
  <2>1. k < j BY <1>7, <1>10
  <2> QED BY <1>10, <1>11, <2>1 DEF Begins
<1> QED BY <1>4, <1>6, <1>10, <1>12 DEF CanDispatch, l

\* A request that reaches the daemon makes it busy.
LEMMA HandleBegins ==
  ASSUME Core, NEW argv \in Seq(Word) \ {<< >>}, Handle(argv)
  PROVE  pc = "idle" /\ pc' # "idle"
<1>0. DaemonInv BY Halves
<1>1. pc = "idle" BY DEF Handle
<1>2. CASE Down BY <1>1, <1>2 DEF Down, Ends
<1>3. CASE BeginDo(Tail(argv)) BY <1>1, <1>3 DEF BeginDo
<1>4. CASE Execute(argv) BY <1>0, <1>1, <1>4, ExecuteEffect
<1> QED BY <1>1, <1>2, <1>3, <1>4 DEF Handle

\* The daemon stays busy until the answer is taken.
LEMMA BusyInductive == Core /\ Busy /\ [Next]_vars => Busy'
<1> SUFFICES ASSUME Core, Busy, [Next]_vars PROVE Busy' OBVIOUS
<1>0. DaemonInv /\ FrontInv BY Halves
<1>1. CASE Skip \/ TooLong \/ Known \/ Unknown \/ CallLocal \/ NoDaemonRunning
  <2>1. pc' = pc /\ caller' = caller
    BY <1>1 DEF Skip, TooLong, Known, Unknown, CallLocal, NoDaemonRunning, comVars
  <2> QED BY <2>1 DEF Busy
<1>2. CASE Call
  <2>1. Handle(Argv(Line)) /\ caller' = "mcp" /\ n <= Len(input)
        /\ Line.tool \in Tools \ LocalTools
    BY <1>2 DEF Call, Listening
  <2>2. Argv(Line) \in Seq(Word) \ {<< >>} BY <1>0, <2>1, CommandLines, ArgvWords
  <2> QED BY <2>1, <2>2, HandleBegins DEF Busy
<1>3. CASE Run
  <2>1. Handle(Head(lines)) /\ caller' = "cli" /\ lines # << >> BY <1>3 DEF Run
  <2>2. Head(lines) \in Seq(Word) \ {<< >>} BY <1>0, <2>1, CommandLines
  <2> QED BY <2>1, <2>2, HandleBegins DEF Busy
<1>4. CASE CallReturns \/ RunReturns
  BY <1>4 DEF CallReturns, RunReturns, Busy
<1>5. CASE CommandStep /\ UNCHANGED mcpVars
  <2>1. caller' = caller BY <1>5 DEF mcpVars
  <2>2. CASE ParseStep /\ UNCHANGED comVars BY <2>1, <2>2 DEF comVars, Busy
  <2>3. CASE \/ Refuse \/ StopOld \/ StartFails \/ Started \/ SetBreakpoint
             \/ BreakpointFails \/ Launched
    <3>1. pc # "idle" /\ pc' # "idle"
      BY <2>3 DEF Refuse, StopOld, StartFails, Started, SetBreakpoint, BreakpointFails,
                  Launched, Ends
    <3> QED BY <2>1, <3>1 DEF Busy
  <2>4. CASE InnerDoEnds \/ DoEnds
    BY <2>1, <2>4 DEF InnerDoEnds, DoEnds, Busy
  <2>5. CASE DoNext
    <3>1. pc = "next" /\ left \in Seq(Word) BY <1>0, <2>5 DEF DoNext, DaemonInv
    <3>2. PICK j \in 1 .. Len(left) + 1 :
            \E k \in 0 .. j - 1 : pc' = pc \/ (k # j - 1 /\ Execute(SubSeq(left, k + 1, j - 1)))
      BY <2>5 DEF DoNext, DispatchPart
    <3>3. PICK k \in 0 .. j - 1 : pc' = pc \/ (k # j - 1 /\ Execute(SubSeq(left, k + 1, j - 1)))
      BY <3>2
    <3>4. pc' # "idle"
      <4>1. CASE pc' = pc BY <3>1, <4>1
      <4>2. CASE k # j - 1 /\ Execute(SubSeq(left, k + 1, j - 1))
        <5>1. SubSeq(left, k + 1, j - 1) \in Seq(Word) \ {<< >>} BY <3>1, <4>2, PartWords
        <5> QED BY <1>0, <3>1, <4>2, <5>1, ExecuteEffect
      <4> QED BY <3>3, <4>1, <4>2
    <3> QED BY <2>1, <3>1, <3>4 DEF Busy
  <2> QED BY <1>5, <2>2, <2>3, <2>4, <2>5 DEF CommandStep, LaunchStep
<1>6. CASE DaemonEnds /\ UNCHANGED mcpVars
  BY <1>6 DEF DaemonEnds, mcpVars, Busy
<1>7. CASE UNCHANGED vars BY <1>7 DEF vars, comVars, mcpVars, Busy
<1> QED BY <1>1, <1>2, <1>3, <1>4, <1>5, <1>6, <1>7
       DEF Next, Serve, CommandLine, Daemon

-----------------------------------------------------------------------------
(* Theorems.                                                                *)

\* The inductive invariant of the front ends, for every set of workloads.
THEOREM Invariant == Spec => []IInv
<1>1. Init => IInv
  <2> SUFFICES ASSUME Init PROVE IInv
    OBVIOUS
  <2>1. Core
    BY Initial
  <2>2. /\ log = << >> /\ ran = << >> /\ pc = "idle" /\ inDo = FALSE /\ n = 1
        /\ replies = << >> /\ caller = "none"
    BY DEF Init, ComInit
  <2>3. ScriptSoFar /\ DoStopsAndIsLogged
    BY <2>2 DEF ScriptSoFar, DoStopsAndIsLogged
  <2>4. AnswersSoFar
    BY <2>2 DEF AnswersSoFar
  <2>5. RepliesInOrder
    <3>1. Requests = {} /\ [k \in DOMAIN replies |-> replies[k].id] = << >>
      BY <2>2 DEF Requests
    <3> QED BY <3>1, ListsNone DEF RepliesInOrder
  <2>6. Arriving
    BY <2>2 DEF Arriving
  <2> QED BY <2>1, <2>3, <2>4, <2>5, <2>6 DEF IInv
<1>2. IInv /\ [Next]_vars => IInv'
  <2>1. IInv /\ [Next]_vars => Core'
    BY Inductive DEF IInv
  <2> QED BY <2>1, ScriptInductive, AnswersInductive, ArrivingInductive
         DEF IInv, Script, Answers
<1> QED BY <1>1, <1>2, PTL DEF Spec

\* A script ends at its first failing command, and the usage log ends with its
\* commands and the do (cmdDo, dispatch).
THEOREM DoStopsAndIsLoggedCorrect == Spec => []DoStopsAndIsLogged
<1>1. IInv => DoStopsAndIsLogged BY DEF IInv
<1> QED BY <1>1, Invariant, PTL

\* Every request is answered once and in the order it came, also when its command
\* fails or its daemon goes away (Serve).
THEOREM RepliesInOrderCorrect == Spec => []RepliesInOrder
<1>1. IInv => RepliesInOrder BY DEF IInv
<1> QED BY <1>1, Invariant, PTL

\* parseArgs returns what a reader of the command line would (parseArgs).
THEOREM ParsedAsReadCorrect == Spec => []ParsedAsRead
<1>1. IInv => ParsedAsRead BY DEF IInv, Core
<1> QED BY <1>1, Invariant, PTL

\* The arguments of debug_launch and debug_trace, whatever they are, are the flags
\* and the program's arguments that the daemon reads (launchArgv, parseArgs).
THEOREM ToolArgumentsArriveCorrect == Spec => []ToolArgumentsArrive
BY Arrives, Invariant, PTL

\* The work gets less with every step, whatever the front ends were given: a script
\* goes on, parseArgs reads on, a launch comes to its next breakpoint and a request to
\* its answer (Serve, handle, cmdDo, parseArgs, cmdLaunch).
THEOREM WorkAdvanceCorrect == Spec => [][WorkAdvance]_vars
<1>1. Core /\ [Next]_vars => [WorkAdvance]_vars
  <2> SUFFICES ASSUME Core, Next PROVE WorkAdvance OBVIOUS
  <2>1. CASE Serve \/ CommandLine BY <2>1, FrontEndsAdvance DEF WorkAdvance
  <2>2. CASE Daemon BY <2>2, DaemonAdvances DEF WorkAdvance
  <2>3. CASE DaemonEnds /\ UNCHANGED mcpVars BY <2>3, EndAdvances DEF WorkAdvance
  <2> QED BY <2>1, <2>2, <2>3 DEF Next
<1> QED BY <1>1, CoreInvariant, PTL DEF Spec

\* It is counted in natural numbers: it cannot get less for ever.
THEOREM WorkIsCounted == Spec => [](\A k \in 1 .. 7 : Todo[k] \in Nat)
BY Counted, CoreInvariant, PTL

\* Nobody is stuck while there is work: in no state do the front ends wait for a daemon
\* that has nothing to do, or the daemon for a front end that does not wait (handle,
\* dispatch, execute, Serve).
THEOREM SomebodyActsCorrect == Spec => []SomebodyActs
<1>1. Init => Busy BY DEF Init, ComInit, Busy
<1>2. Core /\ Busy /\ [Next]_vars => Busy' BY BusyInductive
<1>3. Core /\ Busy => SomebodyActs
  <2> SUFFICES ASSUME Core, Busy PROVE SomebodyActs OBVIOUS
  <2>1. DaemonInv BY Halves
  <2>2. left # << >> => CanDispatch BY <2>1, Dispatches DEF DaemonInv
  <2> QED BY <2>1, <2>2 DEF DaemonInv, Busy, SomebodyActs
<1> QED BY <1>1, <1>2, <1>3, CoreInvariant, PTL DEF Spec
=============================================================================
