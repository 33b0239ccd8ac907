----------------------------- MODULE ProcProofs -----------------------------
(***************************************************************************)
(* Theorems about Proc, for every ring size, pipe size and number of lines. *)
(***************************************************************************)
EXTENDS Proc, SequenceTheorems, TLAPS

\* The k lines that follow line f.
After(f, k) == [i \in 1 .. k |-> f + i]

\* What appending the next line to such a run, and dropping its first, give.
LEMMA RunGrows ==
  ASSUME NEW f \in Nat, NEW k \in Nat
  PROVE  /\ After(f, k) \in Seq(Nat)
         /\ Len(After(f, k)) = k
         /\ Append(After(f, k), f + k + 1) = After(f, k + 1)
<1>1. After(f, k) \in [1 .. k -> Nat]
  BY DEF After
<1>2. After(f, k) \in Seq(Nat) /\ Len(After(f, k)) = k
  BY <1>1
<1>3. Append(After(f, k), f + k + 1) = After(f, k + 1)
  BY <1>2 DEF After
<1> QED BY <1>2, <1>3

\* A run without its first m lines.
LEMMA RunDrops ==
  ASSUME NEW f \in Nat, NEW k \in Nat, NEW m \in 0 .. k
  PROVE  SubSeq(After(f, k), m + 1, k) = After(f + m, k - m)
<1>1. After(f, k) \in Seq(Nat) /\ Len(After(f, k)) = k
  BY RunGrows
<1>2. SubSeq(After(f, k), m + 1, k) \in Seq(Nat)
  BY <1>1
<1>3. Len(SubSeq(After(f, k), m + 1, k)) = k - m
  BY <1>1
<1>4. \A i \in 1 .. (k - m) : SubSeq(After(f, k), m + 1, k)[i] = f + m + i
  BY <1>1 DEF After
<1>5. After(f + m, k - m) \in Seq(Nat) /\ Len(After(f + m, k - m)) = k - m
  <2>1. f + m \in Nat /\ k - m \in Nat
    OBVIOUS
  <2> QED BY <2>1, RunGrows
<1>6. \A i \in 1 .. (k - m) : After(f + m, k - m)[i] = f + m + i
  BY DEF After
<1> QED BY <1>2, <1>3, <1>4, <1>5, <1>6, SeqEqual

\* The abstract log's runs of lines are the same thing.
LEMMA LinesAreRuns ==
  ASSUME NEW a \in Nat, NEW b \in Nat
  PROVE  Log!Lines(a + 1, b) = After(a, b - a)
BY DEF Log!Lines, After

\* How many lines are forgotten, and how many are kept.
LEMMA ForgottenType ==
  ASSUME NEW n \in Nat
  PROVE  /\ Log!Forgotten(n) \in 0 .. n
         /\ n - Log!Forgotten(n) <= RingSize
         /\ n - Log!Forgotten(n) < RingSize => Log!Forgotten(n + 1) = Log!Forgotten(n)
         /\ n - Log!Forgotten(n) = RingSize => Log!Forgotten(n + 1) = Log!Forgotten(n) + 1
BY RingSizeAssumption DEF Log!Forgotten, Log!Larger

-----------------------------------------------------------------------------
RingTypeOK == /\ output \in Seq(Nat) /\ seen \in Nat
              /\ captured \in Nat /\ told \in Nat /\ report \in Seq(Nat)

\* RingExact in terms of runs.
LEMMA RingExactRuns ==
  ASSUME RingTypeOK, RingExact, NEW f, f = Log!Forgotten(captured)
  PROVE  /\ captured \in Nat /\ told \in Nat /\ told <= captured
         /\ f \in Nat /\ captured - f \in Nat /\ captured - f <= RingSize
         /\ output = After(f, captured - f)
         /\ seen = Log!Larger(told - f, 0)
<1>1. captured \in Nat /\ told \in Nat
  BY DEF RingTypeOK
<1>2. f \in 0 .. captured /\ captured - f <= RingSize
  BY <1>1, ForgottenType
<1>3. Log!Lines(Log!Forgotten(captured) + 1, captured)
        = After(Log!Forgotten(captured), captured - Log!Forgotten(captured))
  BY <1>1, <1>2, LinesAreRuns
<1> QED BY <1>1, <1>2, <1>3 DEF RingExact

\* appendOutput: one line in, and at most one line out at the front.
LEMMA AppendStep ==
  ASSUME RingTypeOK, RingExact, NEW k, appendOutput(k)
  PROVE  RingTypeOK' /\ RingExact' /\ (Log!Write \/ UNCHANGED ringVars)
<1>1. CASE k # "text"
  BY <1>1 DEF appendOutput, ringVars, RingTypeOK, RingExact
<1>2. CASE k = "text"
  <2> DEFINE f == Log!Forgotten(captured)
             n == captured - f
             all == Append(output, captured + 1)
  <2>1. /\ captured \in Nat /\ told \in Nat /\ told <= captured
        /\ f \in Nat /\ n \in Nat /\ n <= RingSize
        /\ output = After(f, n)
        /\ seen = Log!Larger(told - f, 0)
    <3> HIDE DEF all
    <3> QED BY RingExactRuns
  <2>2. /\ all = After(f, n + 1)
        /\ all \in Seq(Nat) /\ Len(all) = n + 1
    <3>1. captured + 1 = f + n + 1
      BY <2>1
    <3>2. n + 1 \in Nat
      BY <2>1
    <3>3. all = Append(After(f, n), f + n + 1)
      BY <2>1, <3>1
    <3> HIDE DEF f, n, all
    <3>4. all = After(f, n + 1)
      BY <2>1, <3>3, RunGrows
    <3>5. After(f, n + 1) \in Seq(Nat) /\ Len(After(f, n + 1)) = n + 1
      BY <2>1, <3>2, RunGrows
    <3> QED BY <3>4, <3>5
  <2>3. captured' = captured + 1 /\ UNCHANGED <<told, report>>
    BY <1>2 DEF appendOutput
  <2>4. CASE n = RingSize
    <3>1. Log!Forgotten(captured') = f + 1 /\ captured' - (f + 1) = n
      BY <2>1, <2>3, <2>4, ForgottenType
    <3>2. output' = SubSeq(all, 2, n + 1) /\ seen' = SeenAfterDrop(1)
      <4>1. Len(all) > RingSize /\ Len(all) - RingSize = 1
        BY <2>1, <2>2, <2>4, RingSizeAssumption
      <4>2. /\ output' = SubSeq(all, (Len(all) - RingSize) + 1, Len(all))
            /\ seen' = SeenAfterDrop(Len(all) - RingSize)
        BY <1>2, <4>1 DEF appendOutput
      <4> HIDE DEF all, n
      <4> QED BY <2>2, <4>1, <4>2, SMTT(30)
    <3>3. output' = After(f + 1, n)
      <4>1. 1 \in 0 .. (n + 1) /\ n + 1 \in Nat /\ (n + 1) - 1 = n
        BY <2>1
      <4> HIDE DEF f, n, all
      <4> QED BY <2>1, <2>2, <3>2, <4>1, RunDrops, SMTT(30)
    <3>4. seen' = Log!Larger(told - (f + 1), 0)
      BY <2>1, <3>2, SMTT(30) DEF SeenAfterDrop, Log!Larger
    <3>5. RingTypeOK'
      <4>1. output' \in Seq(Nat)
        <5>1. f + 1 \in Nat /\ n \in Nat
          BY <2>1
        <5> HIDE DEF f, n
        <5> QED BY <3>3, <5>1, RunGrows
      <4>2. seen' \in Nat
        BY <2>1, <3>4 DEF Log!Larger
      <4> QED BY <2>3, <4>1, <4>2 DEF RingTypeOK
    <3>6. RingExact'
      <4>1. /\ told' <= captured'
            /\ output' = After(Log!Forgotten(captured'), captured' - Log!Forgotten(captured'))
            /\ seen' = Log!Larger(told' - Log!Forgotten(captured'), 0)
        BY <2>1, <2>3, <3>1, <3>3, <3>4
      <4>2. captured' \in Nat
        BY <2>1, <2>3
      <4>3. Log!Lines(Log!Forgotten(captured') + 1, captured')
              = After(Log!Forgotten(captured'), captured' - Log!Forgotten(captured'))
        BY <4>2, ForgottenType, LinesAreRuns
      <4> QED BY <4>1, <4>3 DEF RingExact
    <3> QED BY <2>3, <3>5, <3>6 DEF Log!Write
  <2>5. CASE n < RingSize
    <3>1. Log!Forgotten(captured') = f /\ captured' - f = n + 1
      BY <2>1, <2>3, <2>5, ForgottenType
    <3>2. output' = all /\ seen' = seen
      <4>1. ~(Len(all) > RingSize)
        BY <2>1, <2>2, <2>5, RingSizeAssumption
      <4> QED BY <1>2, <4>1 DEF appendOutput
    <3>3. RingTypeOK'
      BY <2>2, <2>3, <3>2 DEF RingTypeOK
    <3>4. RingExact'
      <4>1. /\ told' <= captured'
            /\ output' = After(Log!Forgotten(captured'), captured' - Log!Forgotten(captured'))
            /\ seen' = Log!Larger(told' - Log!Forgotten(captured'), 0)
        BY <2>1, <2>2, <2>3, <3>1, <3>2, SMTT(30)
      <4>2. captured' \in Nat
        BY <2>1, <2>3
      <4>3. Log!Lines(Log!Forgotten(captured') + 1, captured')
              = After(Log!Forgotten(captured'), captured' - Log!Forgotten(captured'))
        BY <4>2, ForgottenType, LinesAreRuns
      <4> QED BY <4>1, <4>3 DEF RingExact
    <3> QED BY <2>3, <3>3, <3>4 DEF Log!Write
  <2> QED BY <2>1, <2>4, <2>5, RingSizeAssumption
<1> QED BY <1>1, <1>2

\* A report covers everything, and seen moves to the end of the ring.
LEMMA TakeStep ==
  ASSUME RingTypeOK, RingExact, TakeNew \/ TakeAll
  PROVE  /\ RingTypeOK' /\ RingExact'
         /\ TakeNew => Log!ReportNew
         /\ TakeAll => Log!ReportAll
<1> DEFINE f == Log!Forgotten(captured)
           n == captured - f
<1>1. /\ captured \in Nat /\ told \in Nat /\ told <= captured
      /\ f \in Nat /\ n \in Nat
      /\ output = After(f, n)
      /\ seen = Log!Larger(told - f, 0)
  BY RingExactRuns
<1>2. output \in Seq(Nat) /\ Len(output) = n
  <2> HIDE DEF f, n
  <2> QED BY <1>1, RunGrows
<1>3. /\ captured' = captured /\ output' = output
      /\ told' = captured /\ seen' = n
  BY <1>2 DEF TakeNew, TakeAll
<1>4. seen \in 0 .. n /\ f + seen = Log!Larger(told, f)
  BY <1>1 DEF Log!Larger
<1>5. RingTypeOK' /\ RingExact'
  <2>1. report' \in Seq(Nat)
    <3>1. CASE TakeAll
      BY <1>2, <3>1 DEF TakeAll
    <3>2. CASE TakeNew
      <4>1. report' = SubSeq(output, seen + 1, Len(output))
        BY <3>2 DEF TakeNew
      <4> HIDE DEF n
      <4> QED BY <1>1, <1>2, <1>4, <4>1, SMTT(30)
    <3> QED BY <3>1, <3>2
  <2>2. seen' = Log!Larger(told' - Log!Forgotten(captured'), 0)
    BY <1>1, <1>3 DEF Log!Larger
  <2> QED BY <1>1, <1>2, <1>3, <2>1, <2>2 DEF RingTypeOK, RingExact
<1>6. ASSUME TakeNew PROVE Log!ReportNew
  <2>1. report' = SubSeq(After(f, n), seen + 1, n)
    BY <1>1, <1>2, <1>6 DEF TakeNew
  <2>2. report' = After(f + seen, n - seen)
    <3> HIDE DEF f, n
    <3> QED BY <1>1, <1>4, <2>1, RunDrops
  <2>3. f + seen \in Nat /\ n - seen = captured - (f + seen)
    BY <1>1, <1>4
  <2>4. report' = Log!Lines(f + seen + 1, captured)
    <3> HIDE DEF f, n
    <3> QED BY <1>1, <2>2, <2>3, LinesAreRuns
  <2> QED BY <1>3, <1>4, <2>4 DEF Log!ReportNew
<1>7. ASSUME TakeAll PROVE Log!ReportAll
  <2>1. report' = Log!Lines(f + 1, captured)
    <3>1. report' = After(f, n)
      BY <1>1, <1>7 DEF TakeAll
    <3>2. captured - f = n
      OBVIOUS
    <3> HIDE DEF f, n
    <3> QED BY <1>1, <3>1, <3>2, LinesAreRuns
  <2> QED BY <1>3, <2>1 DEF Log!ReportAll
<1> QED BY <1>5, <1>6, <1>7

-----------------------------------------------------------------------------
\* The part of the type invariant that the ring does not touch.
ProcessTypeOK == /\ dlv \in {"starting", "serving", "exited"}
                 /\ pipe \in Seq(LineKinds) /\ lines \in 0 .. MaxLines
                 /\ reader \in {"pre", "post", "done"}
                 /\ addrCh \in BOOLEAN /\ errCh \in BOOLEAN
                 /\ spawn \in SpawnStates

\* The inductive invariant.  RingExact and NoOrphan are inductive once the
\* types are known.
IInv == ProcessTypeOK /\ RingTypeOK /\ RingExact /\ NoOrphan

LEMMA IInvInit == Init => IInv
<1> SUFFICES ASSUME Init PROVE IInv
  OBVIOUS
<1>1. ProcessTypeOK /\ RingTypeOK /\ NoOrphan
  <2>1. pipe \in Seq(LineKinds) /\ output \in Seq(Nat) /\ report \in Seq(Nat)
    BY EmptySeq DEF Init
  <2>2. addrCh \in BOOLEAN /\ errCh \in BOOLEAN
    BY DEF Init
  <2>3. lines \in 0 .. MaxLines /\ seen \in Nat /\ captured \in Nat /\ told \in Nat
    BY MaxLinesAssumption DEF Init
  <2>4. dlv = "starting" /\ reader = "pre" /\ spawn = "waiting"
    BY DEF Init
  <2> QED BY <2>1, <2>2, <2>3, <2>4
          DEF ProcessTypeOK, RingTypeOK, NoOrphan, SpawnStates
<1>2. RingExact
  <2>1. Log!Forgotten(0) = 0
    BY RingSizeAssumption DEF Log!Forgotten, Log!Larger
  <2>2. After(0, 0) = << >>
    BY DEF After
  <2>3. Log!Lines(Log!Forgotten(captured) + 1, captured) = << >>
    BY <2>1, <2>2, LinesAreRuns DEF Init
  <2> QED BY <2>1, <2>3 DEF Init, RingExact, Log!Larger
<1> QED BY <1>1, <1>2 DEF IInv

\* The steps that touch the ring, as seen from the abstract log.
LEMMA RingStep ==
  ASSUME RingTypeOK, RingExact, [Next]_vars
  PROVE  RingTypeOK' /\ RingExact' /\ [Log!Next]_(Log!lvars)
<1>1. CASE UNCHANGED ringVars
  BY <1>1 DEF ringVars, RingTypeOK, RingExact, Log!lvars
<1>2. ASSUME NEW k, appendOutput(k)
      PROVE  RingTypeOK' /\ RingExact' /\ [Log!Next]_(Log!lvars)
  BY <1>2, AppendStep DEF Log!Next, Log!lvars, ringVars
<1>3. CASE TakeNew \/ TakeAll
  BY <1>3, TakeStep DEF Log!Next
<1>4. CASE ScanLine
  BY <1>1, <1>2, <1>4 DEF ScanLine
<1>5. CASE DialFails \/ NewOutput \/ AllOutput
  BY <1>3, <1>5 DEF DialFails, NewOutput, AllOutput
<1>6. CASE \/ \E k \in LineKinds : WriteLine(k)
           \/ DlvExits \/ ScanEOF \/ SpawnAddr \/ SpawnError \/ Reaped
           \/ SpawnTimeout \/ DialOk \/ Close \/ UNCHANGED vars
  <2>1. UNCHANGED ringVars
    BY <1>6 DEF WriteLine, DlvExits, ScanEOF, SpawnAddr, SpawnError, Reaped,
                SpawnTimeout, DialOk, Close, vars, ringVars
  <2> QED BY <1>1, <2>1
<1> QED BY <1>4, <1>5, <1>6 DEF Next

LEMMA ProcessStep ==
  ASSUME ProcessTypeOK, [Next]_vars
  PROVE  ProcessTypeOK'
<1> USE DEF ProcessTypeOK, procVars, chanVars, SpawnStates
<1>1. ASSUME NEW k \in LineKinds, WriteLine(k) PROVE ProcessTypeOK'
  <2>1. pipe' \in Seq(LineKinds)
    BY <1>1 DEF WriteLine
  <2>2. lines' \in 0 .. MaxLines
    BY <1>1, MaxLinesAssumption DEF WriteLine
  <2> QED BY <1>1, <2>1, <2>2 DEF WriteLine
<1>2. CASE DlvExits
  BY <1>2 DEF DlvExits
<1>3. CASE ScanLine
  <2>1. pipe' \in Seq(LineKinds)
    BY <1>3 DEF ScanLine
  <2> QED BY <1>3, <2>1 DEF ScanLine
<1>4. CASE ScanEOF
  BY <1>4 DEF ScanEOF
<1>5. CASE SpawnAddr \/ SpawnError \/ Reaped \/ SpawnTimeout
  BY <1>5 DEF SpawnAddr, SpawnError, Reaped, SpawnTimeout
<1>6. CASE DialOk \/ DialFails \/ Close
  BY <1>6 DEF DialOk, DialFails, Close
<1>7. CASE NewOutput \/ AllOutput
  BY <1>7 DEF NewOutput, AllOutput
<1>8. CASE UNCHANGED vars
  BY <1>8 DEF vars
<1> QED BY <1>1, <1>2, <1>3, <1>4, <1>5, <1>6, <1>7, <1>8 DEF Next

\* dlv never comes back, and each way into "failed" or "closed" ends it.
LEMMA OrphanStep ==
  ASSUME NoOrphan, [Next]_vars
  PROVE  NoOrphan'
BY DEF NoOrphan, Next, vars, procVars, WriteLine, DlvExits, ScanLine, ScanEOF,
       SpawnAddr, SpawnError, Reaped, SpawnTimeout, DialOk, DialFails, Close,
       NewOutput, AllOutput

LEMMA IInvStep == IInv /\ [Next]_vars => IInv'
BY RingStep, ProcessStep, OrphanStep DEF IInv

LEMMA IInvInvariant == Spec => []IInv
BY IInvInit, IInvStep, PTL DEF Spec

\* Every reachable state has the right types, for every size of ring and pipe.
THEOREM TypeCorrect == Spec => []TypeOK
<1>1. IInv => TypeOK
  BY DEF IInv, ProcessTypeOK, RingTypeOK, TypeOK
<1> QED BY <1>1, IInvInvariant, PTL

\* appendOutput's shifting and clamping of Proc.seen is exact: the ring holds
\* the newest lines in order and seen marks the first that is still untold.
THEOREM RingCorrect == Spec => []RingExact
<1>1. IInv => RingExact
  BY DEF IInv
<1> QED BY <1>1, IInvInvariant, PTL

\* A failed or closed newSession leaves no dlv behind.
THEOREM NoOrphanCorrect == Spec => []NoOrphan
<1>1. IInv => NoOrphan
  BY DEF IInv
<1> QED BY <1>1, IInvInvariant, PTL

\* The scanning goroutine, the ring and the two ways of reading it implement
\* the numbered log: no line is reported twice by NewOutput, none out of order,
\* and only lines that have left the ring are skipped.
THEOREM ImplementsLogCorrect == Spec => ImplementsLog
<1>1. Init => Log!Init
  BY DEF Init, Log!Init
<1>2. IInv /\ [Next]_vars => [Log!Next]_(Log!lvars)
  BY RingStep DEF IInv
<1> QED BY <1>1, <1>2, IInvInvariant, PTL DEF Spec, ImplementsLog, Log!Spec

-----------------------------------------------------------------------------
(* The handshake.  SpawnReturns is a matter of fairness; these are the facts it   *)
(* rests on.                                                                 *)

\* The address line has been written and not been scanned yet.
AddressInPipe == \E k \in DOMAIN pipe : pipe[k] = "addr"

\* The scanning goroutine sends exactly one answer, the address or the error, and
\* none that Spawn waits for is ever lost: either it is still scanning, and then the
\* address of a dlv that serves is in the pipe, or the answer is in its channel.
AnswerWaits ==
  /\ ~(addrCh /\ errCh)
  /\ reader = "pre" => ~addrCh /\ ~errCh /\ (dlv = "serving" => AddressInPipe)
  /\ reader # "pre" /\ spawn = "waiting" => addrCh \/ errCh
  /\ errCh => reader = "done"

\* Spawn waits for the end of dlv only when nobody reads its stdout any more.
ReapsUnread == spawn = "reaping" => reader = "done"

LEMMA AddressStays ==
  ASSUME pipe \in Seq(LineKinds), AddressInPipe,
         NEW k, pipe' = Append(pipe, k) \/ (Head(pipe) # "addr" /\ pipe' = Tail(pipe))
  PROVE  AddressInPipe'
<1>1. PICK h \in 1 .. Len(pipe) : pipe[h] = "addr"
  BY DEF AddressInPipe
<1>2. Len(pipe) \in Nat /\ pipe # << >>
  BY <1>1
<1>3. CASE pipe' = Append(pipe, k)
  <2>1. h \in DOMAIN pipe' /\ pipe'[h] = "addr"
    BY <1>1, <1>2, <1>3
  <2> QED BY <2>1 DEF AddressInPipe
<1>4. CASE Head(pipe) # "addr" /\ pipe' = Tail(pipe)
  <2>1. h # 1
    BY <1>1, <1>2, <1>4
  <2>2. h - 1 \in DOMAIN pipe' /\ pipe'[h - 1] = "addr"
    BY <1>1, <1>2, <1>4, <2>1
  <2> QED BY <2>2 DEF AddressInPipe
<1> QED BY <1>3, <1>4

LEMMA AddressWritten ==
  ASSUME pipe \in Seq(LineKinds), pipe' = Append(pipe, "addr")
  PROVE  AddressInPipe'
<1>1. Len(pipe) + 1 \in DOMAIN pipe' /\ pipe'[Len(pipe) + 1] = "addr"
  BY DEF LineKinds
<1> QED BY <1>1 DEF AddressInPipe

LEMMA HandshakeStep ==
  ASSUME ProcessTypeOK, AnswerWaits, ReapsUnread, [Next]_vars
  PROVE  AnswerWaits' /\ ReapsUnread'
<1> USE DEF AnswerWaits, ReapsUnread, procVars, chanVars
<1>0. pipe \in Seq(LineKinds)
  BY DEF ProcessTypeOK
<1>1. ASSUME NEW k \in LineKinds, WriteLine(k) PROVE AnswerWaits' /\ ReapsUnread'
  <2>1. pipe' = Append(pipe, k) /\ UNCHANGED <<reader, addrCh, errCh, spawn>>
    BY <1>1 DEF WriteLine
  <2>2. CASE k = "addr"
    <3>1. AddressInPipe'
      BY <1>0, <2>1, <2>2, AddressWritten
    <3> QED BY <2>1, <3>1
  <2>3. CASE k # "addr"
    <3>1. dlv' = dlv
      BY <1>1, <2>3 DEF WriteLine
    <3>2. AddressInPipe => AddressInPipe'
      BY <1>0, <2>1, AddressStays
    <3> QED BY <2>1, <3>1, <3>2
  <2> QED BY <2>2, <2>3
<1>2. CASE ScanLine
  <2>1. reader # "done" /\ pipe' = Tail(pipe) /\ UNCHANGED <<dlv, spawn>>
    BY <1>2 DEF ScanLine
  <2>2. CASE Head(pipe) = "long"
    <3>1. reader' = "done" /\ addrCh' = addrCh /\ errCh' = (errCh \/ reader = "pre")
      BY <1>2, <2>2 DEF ScanLine
    <3>2. reader \in {"pre", "post"} /\ addrCh \in BOOLEAN /\ errCh \in BOOLEAN
      BY <2>1 DEF ProcessTypeOK
    <3> QED BY <2>1, <3>1, <3>2
  <2>3. CASE Head(pipe) = "addr" /\ reader = "pre"
    BY <1>2, <2>1, <2>3 DEF ScanLine
  <2>4. CASE Head(pipe) \notin {"addr", "long"} /\ reader = "pre"
    <3>1. UNCHANGED <<reader, addrCh, errCh>>
      BY <1>2, <2>4 DEF ScanLine
    <3>2. AddressInPipe => AddressInPipe'
      BY <1>0, <2>1, <2>4, AddressStays
    <3> QED BY <2>1, <3>1, <3>2
  <2>5. CASE Head(pipe) # "long" /\ reader = "post"
    <3>1. UNCHANGED <<reader, addrCh, errCh>>
      BY <1>2, <2>5 DEF ScanLine
    <3> QED BY <2>1, <2>5, <3>1
  <2> QED BY <1>2, <2>2, <2>3, <2>4, <2>5 DEF ScanLine
<1>3. CASE ScanEOF
  BY <1>3 DEF ScanEOF
<1>4. CASE SpawnAddr \/ SpawnError
  BY <1>4 DEF SpawnAddr, SpawnError
<1>5. CASE \/ DlvExits \/ Reaped \/ SpawnTimeout \/ DialOk \/ DialFails \/ Close
           \/ NewOutput \/ AllOutput \/ UNCHANGED vars
  <2>1. /\ UNCHANGED <<pipe, reader, addrCh, errCh>>
        /\ dlv' \in {dlv, "exited"} /\ (spawn' = spawn \/ spawn' \notin {"waiting", "reaping"})
    BY <1>5 DEF DlvExits, Reaped, SpawnTimeout, DialOk, DialFails, Close, NewOutput,
                AllOutput, vars
  <2> QED BY <2>1 DEF AddressInPipe
<1> QED BY <1>1, <1>2, <1>3, <1>4, <1>5 DEF Next

\* Spawn (dlv/spawn.go): its select waits for the 120 s timer alone only while dlv has
\* not written its address or the goroutine has not come to it.
THEOREM AnswerWaitsCorrect == Spec => [](AnswerWaits /\ ReapsUnread)
<1>1. Init => AnswerWaits /\ ReapsUnread
  BY DEF Init, AnswerWaits, ReapsUnread
<1>2. IInv /\ (AnswerWaits /\ ReapsUnread) /\ [Next]_vars => (AnswerWaits /\ ReapsUnread)'
  BY HandshakeStep DEF IInv
<1> QED BY <1>1, <1>2, IInvInvariant, PTL DEF Spec
=============================================================================
