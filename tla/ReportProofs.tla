---------------------------- MODULE ReportProofs ----------------------------
(***************************************************************************)
(* Theorems about Report, for all names, values and bounds.                *)
(***************************************************************************)
EXTENDS Report, FiniteSetTheorems, FunctionTheorems, SequenceTheorems,
        WellFoundedInduction, TLAPS

-----------------------------------------------------------------------------
(* The map that a report leaves behind.                                     *)

\* A name that a frame has is the name of its innermost variable.
LEMMA InnermostIn ==
  ASSUME NEW vs \in Scopes, NEW nm, \E k \in DOMAIN vs : vs[k].name = nm
  PROVE  Innermost(vs, nm) \in DOMAIN vs /\ vs[Innermost(vs, nm)].name = nm
<1> DEFINE n == Len(vs)
           S == {n - k : k \in {j \in DOMAIN vs : vs[j].name = nm}}
<1>1. n \in Nat /\ DOMAIN vs = 1 .. n
  BY ReportAssumption DEF Scopes
<1>2. S \in SUBSET Nat /\ S # {}
  BY <1>1
<1>3. PICK d \in S : \A e \in S : ~ (<<e, d>> \in OpToRel(<, Nat))
  BY <1>2, NatLessThanWellFounded, WFMin
<1>4. \A e \in S : d <= e
  <2> SUFFICES ASSUME NEW e \in S PROVE d <= e
    OBVIOUS
  <2> HIDE DEF S
  <2>1. d \in Nat /\ e \in Nat /\ ~ (<<e, d>> \in OpToRel(<, Nat))
    BY <1>2, <1>3
  <2>2. e < d => <<e, d>> \in OpToRel(<, Nat)
    BY <2>1 DEF OpToRel
  <2>3. ~ (e < d)
    BY <2>1, <2>2, Zenon
  <2>4. d \in Nat /\ e \in Nat
    BY <2>1
  <2> QED BY <2>3, <2>4
<1>5. PICK m \in DOMAIN vs : vs[m].name = nm /\ d = n - m
  BY <1>3
<1>6. \A j \in DOMAIN vs : vs[j].name = nm => j <= m
  <2>1. ASSUME NEW j \in DOMAIN vs, vs[j].name = nm PROVE n - m <= n - j
    BY <1>4, <1>5, <2>1
  <2> QED BY <1>1, <2>1
<1> QED BY <1>5, <1>6 DEF Innermost

\* Without shadowing it is the only one.
LEMMA InnermostOnly ==
  ASSUME NEW vs \in Scopes, Distinct(vs), NEW k \in DOMAIN vs
  PROVE  Innermost(vs, vs[k].name) = k
<1>1. Innermost(vs, vs[k].name) \in DOMAIN vs
      /\ vs[Innermost(vs, vs[k].name)].name = vs[k].name
  BY InnermostIn
<1> QED BY <1>1 DEF Distinct

\* What a variable looks like is not mistaken for no entry.
LEMMA LooksLike ==
  ASSUME NEW vs \in Scopes, NEW k \in DOMAIN vs
  PROVE  vs[k].name \in Names /\ Shown[vs[k].val] \in Looks
         /\ Shown[vs[k].val] # Absent
BY ReportAssumption DEF Scopes, Variable, Looks

LEMMA EntriesType ==
  ASSUME NEW vs \in Scopes
  PROVE  Entries(vs) \in [Names -> Looks \cup {Absent}]
BY InnermostIn, LooksLike DEF Entries

LEMMA EntryOf ==
  ASSUME NEW vs \in Scopes, Distinct(vs), NEW k \in DOMAIN vs
  PROVE  Entries(vs)[vs[k].name] = Shown[vs[k].val]
BY InnermostOnly, LooksLike DEF Entries

\* An empty frame leaves no entries.
LEMMA NoEntries == << >> \in Scopes /\ Entries(<< >>) = Nothing
<1>1. << >> \in [1 .. 0 -> Variable]
  OBVIOUS
<1>2. << >> \in Scopes
  BY <1>1, ReportAssumption DEF Scopes
<1> QED BY <1>2 DEF Entries, Nothing

LEMMA NotedType ==
  ASSUME NEW vs \in Scopes, NEW ks \in SUBSET DOMAIN vs,
         known \in [Names -> Looks \cup {Absent}]
  PROVE  Noted(vs, ks) \in [Names -> Looks \cup {Absent}]
<1>1. ASSUME NEW nm \in Names, \E k \in ks : vs[k].name = nm
      PROVE  Shown[vs[Innermost(vs, nm)].val] \in Looks
  BY <1>1, InnermostIn, LooksLike
<1> QED BY <1>1 DEF Noted

-----------------------------------------------------------------------------
(* The invariant.                                                           *)

\* After a stop whose changes were all listed the notebook agrees with the map.
LEMMA StopNoted ==
  ASSUME NEW vs \in Scopes, TypeOK, Notebook, Distinct(vs),
         reliable \/ lastLocals = Nothing,
         NEW nm \in Names, Entries(vs)[nm] # Absent
  PROVE  Noted(vs, Changes(vs))[nm] = Entries(vs)[nm]
<1>1. PICK k \in DOMAIN vs : vs[k].name = nm
  BY DEF Entries
<1>2. CASE \E j \in Changes(vs) : vs[j].name = nm
  BY <1>1, <1>2 DEF Noted, Entries
<1>3. CASE ~ \E j \in Changes(vs) : vs[j].name = nm
  <2>1. lastLocals[nm] = Shown[vs[k].val]
    BY <1>1, <1>3 DEF Changes
  <2>2. Entries(vs)[nm] = Shown[vs[k].val] /\ Shown[vs[k].val] # Absent
    BY <1>1, EntryOf, LooksLike
  <2>3. reliable
    BY <2>1, <2>2 DEF Nothing
  <2>4. known[nm] = lastLocals[nm]
    BY <2>1, <2>2, <2>3 DEF Notebook
  <2> QED BY <1>3, <2>1, <2>2, <2>4 DEF Noted
<1> QED BY <1>2, <1>3

\* Reading all variables of the last stop brings the notebook up to date.
LEMMA ReadNoted ==
  ASSUME atStop \in Scopes, Baseline, NEW nm \in Names, lastLocals[nm] # Absent
  PROVE  Noted(atStop, DOMAIN atStop)[nm] = lastLocals[nm]
BY DEF Baseline, Entries, Noted

LEMMA InitInv == Init => IInv
<1> SUFFICES ASSUME Init PROVE IInv
  OBVIOUS
<1>1. Nothing \in [Names -> Looks \cup {Absent}]
  BY DEF Nothing
<1>2. Distinct(<< >>)
  BY DEF Distinct
<1>3. TypeOK
  BY <1>1, NoEntries DEF Init, TypeOK
<1>4. Baseline /\ Notebook
  BY <1>1, <1>2, NoEntries DEF Init, Baseline, Notebook, Nothing
<1> QED BY <1>3, <1>4 DEF IInv

LEMMA StopInv ==
  ASSUME IInv, NEW vs \in Scopes, Stop(vs)
  PROVE  IInv'
<1>1. Listed(Changes(vs)) \in SUBSET DOMAIN vs
  BY DEF Listed, Changes
<1>2. DOMAIN vs \in SUBSET (1 .. MaxLocals)
  BY ReportAssumption DEF Scopes
<1>3. lastLocals' \in [Names -> Looks \cup {Absent}]
  BY EntriesType DEF Stop
<1>4. known' \in [Names -> Looks \cup {Absent}]
  BY <1>1, NotedType DEF Stop, IInv, TypeOK
<1>5. TypeOK'
  BY <1>1, <1>2, <1>3, <1>4 DEF Stop, IInv, TypeOK
<1>6. Baseline'
  BY DEF Stop, Baseline, Entries, Innermost
<1>7. ASSUME reliable' PROVE Distinct(vs) /\ (reliable \/ lastLocals = Nothing)
                             /\ Listed(Changes(vs)) = Changes(vs)
  BY <1>7 DEF Stop
<1>8. ASSUME reliable', NEW nm \in Names, lastLocals'[nm] # Absent
      PROVE  known'[nm] = lastLocals'[nm]
  BY <1>7, <1>8, StopNoted DEF Stop, IInv
<1>9. Notebook'
  BY <1>7, <1>8 DEF Stop, Notebook, Distinct
<1> QED BY <1>5, <1>6, <1>9 DEF IInv

\* What vars and state do to the variables of the invariant.
LEMMA ReadInv ==
  ASSUME IInv, NEW vs \in Scopes, NEW same \in BOOLEAN, same => vs = locals,
         Read(vs, same), lines' = DOMAIN vs,
         UNCHANGED <<locals, lastLocals, watchExprs, atStop, asked>>
  PROVE  IInv'
<1>1. DOMAIN vs \in SUBSET (1 .. MaxLocals)
  BY ReportAssumption DEF Scopes
<1>2. known' \in [Names -> Looks \cup {Absent}]
  BY NotedType DEF Read, IInv, TypeOK
<1>3. reliable' \in BOOLEAN
  BY DEF Read, IInv, TypeOK
<1>4. TypeOK'
  BY <1>1, <1>2, <1>3 DEF IInv, TypeOK
<1>5. Baseline'
  BY DEF IInv, Baseline
<1>6. ASSUME reliable' PROVE Distinct(atStop) /\ locals = atStop
  BY <1>6 DEF Read, IInv, Notebook
<1>7. ASSUME reliable', NEW nm \in Names, lastLocals[nm] # Absent
      PROVE  known'[nm] = lastLocals[nm]
  <2>1. CASE same
    <3>1. vs = atStop
      BY <1>6, <1>7, <2>1
    <3> QED BY <1>7, <2>1, <3>1, ReadNoted DEF Read, IInv, TypeOK
  <2>2. CASE ~same
    BY <1>7, <2>2 DEF Read, IInv, Notebook
  <2> QED BY <2>1, <2>2
<1>8. Notebook'
  BY <1>6, <1>7 DEF Notebook, Distinct
<1> QED BY <1>4, <1>5, <1>8 DEF IInv

LEMMA SetInv ==
  ASSUME IInv, NEW k \in 1 .. MaxLocals, NEW v \in Values, Set(k, v)
  PROVE  IInv'
<1>1. PICK m \in 0 .. MaxLocals : locals \in [1 .. m -> Variable]
  BY DEF IInv, TypeOK, Scopes
<1>2. locals' \in [1 .. m -> Variable]
  BY <1>1 DEF Set, Variable
<1>3. locals' \in Scopes
  BY <1>2 DEF Scopes
<1>4. TypeOK'
  BY <1>3 DEF Set, IInv, TypeOK
<1>5. Baseline' /\ Notebook'
  BY DEF Set, IInv, Baseline, Notebook, Entries, Innermost
<1> QED BY <1>4, <1>5 DEF IInv

LEMMA ForgetInv ==
  ASSUME IInv, Launch \/ Restart
  PROVE  IInv'
<1>1. Nothing \in [Names -> Looks \cup {Absent}] /\ Distinct(<< >>)
  BY DEF Nothing, Distinct
<1>2. TypeOK'
  <2>1. CASE Launch
    BY <1>1, <2>1, NoEntries DEF Launch, TypeOK
  <2>2. CASE Restart
    BY <1>1, <2>2, NoEntries DEF Restart, IInv, TypeOK
  <2> QED BY <2>1, <2>2
<1>3. Baseline'
  BY NoEntries DEF Launch, Restart, Baseline, Entries, Innermost
<1>4. Notebook'
  BY <1>1 DEF Launch, Restart, Notebook, Nothing, Distinct
<1> QED BY <1>2, <1>3, <1>4 DEF IInv

LEMMA WatchInv ==
  ASSUME IInv, NEW e \in Exprs, WatchAdd(e) \/ WatchRm(e)
  PROVE  IInv'
<1>1. watchExprs' \in Seq(Exprs)
  <2>1. CASE WatchAdd(e)
    BY <2>1 DEF WatchAdd, IInv, TypeOK
  <2>2. CASE WatchRm(e)
    <3>1. PICK k \in DOMAIN watchExprs :
            watchExprs' = SubSeq(watchExprs, 1, k - 1)
                            \o SubSeq(watchExprs, k + 1, Len(watchExprs))
      BY <2>2 DEF WatchRm
    <3>2. watchExprs \in Seq(Exprs) /\ k \in 1 .. Len(watchExprs)
      BY DEF IInv, TypeOK
    <3>3. SubSeq(watchExprs, 1, k - 1) \in Seq(Exprs)
      BY <3>2
    <3>4. SubSeq(watchExprs, k + 1, Len(watchExprs)) \in Seq(Exprs)
      BY <3>2
    <3> QED BY <3>1, <3>3, <3>4
  <2> QED BY <2>1, <2>2
<1>2. asked' \in [Exprs -> Int]
  BY DEF WatchAdd, WatchRm, IInv, TypeOK
<1>3. TypeOK'
  BY <1>1, <1>2 DEF WatchAdd, WatchRm, IInv, TypeOK
<1>4. Baseline' /\ Notebook'
  BY DEF WatchAdd, WatchRm, IInv, Baseline, Notebook
<1> QED BY <1>3, <1>4 DEF IInv

LEMMA NextInv == IInv /\ [Next]_vars => IInv'
<1> SUFFICES ASSUME IInv, [Next]_vars PROVE IInv'
  OBVIOUS
<1>1. ASSUME NEW vs \in Scopes, Stop(vs) PROVE IInv'
  BY <1>1, StopInv
<1>2. ASSUME NEW vs \in Scopes, NEW same \in BOOLEAN, Vars(vs, same) \/ State(vs, same)
      PROVE  IInv'
  BY <1>2, ReadInv DEF Vars, State
<1>3. ASSUME NEW k \in 1 .. MaxLocals, NEW v \in Values, Set(k, v) PROVE IInv'
  BY <1>3, SetInv
<1>4. ASSUME Launch \/ Restart PROVE IInv'
  BY <1>4, ForgetInv
<1>5. ASSUME NEW e \in Exprs, WatchAdd(e) \/ WatchRm(e) PROVE IInv'
  BY <1>5, WatchInv
<1>6. ASSUME UNCHANGED vars PROVE IInv'
  BY <1>6 DEF vars, IInv, TypeOK, Baseline, Notebook
<1> QED BY <1>1, <1>2, <1>3, <1>4, <1>5, <1>6 DEF Next

\* lastLocals has the last stop's variables, and a reader from whom nothing was
\* hidden has all of lastLocals: the inductive invariant.
THEOREM Invariant == Spec => []IInv
<1> QED BY InitInv, NextInv, PTL DEF Spec

-----------------------------------------------------------------------------
\* A reader who reads only what changed knows how the last stop looks.
THEOREM ReaderKnowsCorrect == Spec => []ReaderKnows
<1>1. IInv => ReaderKnows
  <2> SUFFICES ASSUME IInv, reliable, NEW k \in DOMAIN atStop
               PROVE  known[atStop[k].name] = Shown[atStop[k].val]
    BY DEF ReaderKnows
  <2>1. atStop \in Scopes /\ Distinct(atStop)
    BY DEF IInv, TypeOK, Notebook
  <2>2. lastLocals[atStop[k].name] = Shown[atStop[k].val]
    BY <2>1, EntryOf DEF IInv, Baseline
  <2> QED BY <2>1, <2>2, LooksLike DEF IInv, Notebook
<1> QED BY <1>1, Invariant, PTL

\* Nothing is listed at a stop that looks like the last one.
LEMMA SameIsQuiet ==
  ASSUME IInv, Stop(locals'), locals' # << >>, locals' \in Scopes, Distinct(locals'),
         Looked(locals') = Looked(atStop)
  PROVE  lines' = {}
<1>1. atStop \in Scopes /\ DOMAIN locals' = DOMAIN atStop
  BY DEF IInv, TypeOK, Looked
<1>2. ASSUME NEW k \in DOMAIN atStop
      PROVE  /\ locals'[k].name = atStop[k].name
             /\ Shown[locals'[k].val] = Shown[atStop[k].val]
  <2>1. Looked(locals')[k] = Looked(atStop)[k]
    OBVIOUS
  <2> QED BY <1>1, <2>1 DEF Looked
<1>3. Distinct(atStop)
  BY <1>1, <1>2 DEF Distinct
<1>4. ASSUME NEW k \in DOMAIN locals'
      PROVE  lastLocals[locals'[k].name] = Shown[locals'[k].val]
  BY <1>1, <1>2, <1>3, EntryOf DEF IInv, Baseline
<1>5. Changes(locals') = {}
  BY <1>4 DEF Changes
<1> QED BY <1>5 DEF Stop, Listed

\* Whatever was inspected in between, a stop at which nothing changed lists none.
THEOREM QuietWhenSameCorrect == Spec => QuietWhenSame
<1>1. IInv /\ IInv' /\ [Next]_vars
        => [Stop(locals') /\ locals' # << >> /\ Distinct(locals')
              /\ Looked(locals') = Looked(atStop) => lines' = {}]_vars
  BY SameIsQuiet DEF IInv, TypeOK
<1> QED BY <1>1, Invariant, PTL DEF Spec, QuietWhenSame

-----------------------------------------------------------------------------
(* Watch expressions: how often one occurs in the list.                     *)

Occurrences(s, e) == {k \in DOMAIN s : s[k] = e}

LEMMA OccurrencesFinite ==
  ASSUME NEW s \in Seq(Exprs), NEW e
  PROVE  IsFiniteSet(Occurrences(s, e))
<1>1. Len(s) \in Nat /\ Occurrences(s, e) \in SUBSET (1 .. Len(s))
  BY DEF Occurrences
<1>2. IsFiniteSet(1 .. Len(s))
  BY <1>1, FS_Interval
<1> QED BY <1>1, <1>2, FS_Subset

\* One more at the end.
LEMMA OccurrencesAppend ==
  ASSUME NEW s \in Seq(Exprs), NEW e \in Exprs, NEW f \in Exprs
  PROVE  Cardinality(Occurrences(Append(s, e), f))
           = IF f = e THEN Cardinality(Occurrences(s, f)) + 1
                      ELSE Cardinality(Occurrences(s, f))
<1> DEFINE t == Append(s, e)
           n == Len(s)
<1>1. /\ n \in Nat /\ DOMAIN s = 1 .. n /\ DOMAIN t = 1 .. n + 1
      /\ t[n + 1] = e /\ \A k \in 1 .. n : t[k] = s[k]
  OBVIOUS
<1> HIDE DEF t, n
<1>2. CASE f = e
  <2>1. Occurrences(t, f) = Occurrences(s, f) \cup {n + 1}
    BY <1>1, <1>2 DEF Occurrences
  <2>2. n + 1 \notin Occurrences(s, f)
    BY <1>1 DEF Occurrences
  <2>3. Cardinality(Occurrences(t, f)) = Cardinality(Occurrences(s, f)) + 1
    BY <2>1, <2>2, OccurrencesFinite, FS_AddElement
  <2> QED BY <1>2, <2>3 DEF t
<1>3. CASE f # e
  <2>1. Occurrences(t, f) = Occurrences(s, f)
    BY <1>1, <1>3 DEF Occurrences
  <2> QED BY <1>3, <2>1 DEF t
<1> QED BY <1>2, <1>3

\* A list without its k-th element.
Cut(s, k) == SubSeq(s, 1, k - 1) \o SubSeq(s, k + 1, Len(s))

LEMMA CutProperties ==
  ASSUME NEW s \in Seq(Exprs), NEW k \in DOMAIN s
  PROVE  /\ DOMAIN Cut(s, k) = 1 .. Len(s) - 1
         /\ \A j \in 1 .. Len(s) - 1 :
              Cut(s, k)[j] = IF j < k THEN s[j] ELSE s[j + 1]
<1> DEFINE n == Len(s)
           front == SubSeq(s, 1, k - 1)
           back == SubSeq(s, k + 1, n)
<1>1. n \in Nat /\ k \in 1 .. n /\ \A i \in 1 .. n : s[i] \in Exprs
  OBVIOUS
<1> HIDE DEF n
<1>2. /\ front \in Seq(Exprs) /\ Len(front) = k - 1
      /\ \A i \in 1 .. k - 1 : front[i] = s[i]
  <2>1. \A i \in 1 .. k - 1 : s[i] \in Exprs
    BY <1>1
  <2>2. /\ front \in Seq(Exprs)
        /\ Len(front) = IF 1 <= k - 1 THEN k - 1 - 1 + 1 ELSE 0
        /\ \A i \in 1 .. k - 1 - 1 + 1 : front[i] = s[1 + i - 1]
    BY <1>1, <2>1, SubSeqProperties
  <2> HIDE DEF front
  <2> QED BY <1>1, <2>2
<1>3. /\ back \in Seq(Exprs) /\ Len(back) = n - k
      /\ \A i \in 1 .. n - k : back[i] = s[k + i]
  <2>1. \A i \in k + 1 .. n : s[i] \in Exprs
    BY <1>1
  <2>2. /\ back \in Seq(Exprs)
        /\ Len(back) = IF k + 1 <= n THEN n - (k + 1) + 1 ELSE 0
        /\ \A i \in 1 .. n - (k + 1) + 1 : back[i] = s[k + 1 + i - 1]
    BY <1>1, <2>1, SubSeqProperties
  <2> HIDE DEF back
  <2> QED BY <1>1, <2>2
<1> HIDE DEF front, back
<1>4. /\ front \o back \in Seq(Exprs) /\ Len(front \o back) = n - 1
      /\ \A i \in 1 .. n - 1 : (front \o back)[i] = IF i <= k - 1 THEN front[i]
                                                  ELSE back[i - (k - 1)]
  <2>1. /\ front \o back \in Seq(Exprs)
        /\ Len(front \o back) = Len(front) + Len(back)
        /\ \A i \in 1 .. Len(front) + Len(back) :
             (front \o back)[i] = IF i <= Len(front) THEN front[i]
                                                   ELSE back[i - Len(front)]
    BY <1>2, <1>3, ConcatProperties
  <2>2. Len(front) = k - 1 /\ Len(front) + Len(back) = n - 1
    BY <1>1, <1>2, <1>3
  <2> QED BY <2>1, <2>2
<1>5. DOMAIN (front \o back) = 1 .. n - 1
  BY <1>4
<1>6. \A j \in 1 .. n - 1 : (front \o back)[j] = IF j < k THEN s[j] ELSE s[j + 1]
  <2> SUFFICES ASSUME NEW j \in 1 .. n - 1
               PROVE  (front \o back)[j] = IF j < k THEN s[j] ELSE s[j + 1]
    OBVIOUS
  <2>1. CASE j < k
    <3>1. (front \o back)[j] = front[j] /\ j \in 1 .. k - 1
      BY <1>1, <1>4, <2>1
    <3> QED BY <1>2, <2>1, <3>1
  <2>2. CASE ~(j < k)
    <3>1. (front \o back)[j] = back[j - (k - 1)]
      <4>1. ~(j <= k - 1)
        BY <1>1, <2>2
      <4> QED BY <1>4, <4>1
    <3>2. j - (k - 1) \in 1 .. n - k /\ k + (j - (k - 1)) = j + 1
      BY <1>1, <2>2
    <3>3. back[j - (k - 1)] = s[k + (j - (k - 1))]
      BY <1>3, <3>2
    <3> QED BY <2>2, <3>1, <3>2, <3>3
  <2> QED BY <2>1, <2>2
<1>7. Cut(s, k) = front \o back
  BY DEF front, back, n, Cut
<1>8. n = Len(s)
  BY DEF n
<1> QED BY <1>5, <1>6, <1>7, <1>8

\* The element at k is cut out: the later ones move down by one place.
LEMMA OccurrencesCut ==
  ASSUME NEW s \in Seq(Exprs), NEW k \in DOMAIN s, NEW f \in Exprs
  PROVE  Cardinality(Occurrences(Cut(s, k), f))
           = IF f = s[k] THEN Cardinality(Occurrences(s, f)) - 1
                         ELSE Cardinality(Occurrences(s, f))
<1> DEFINE t == Cut(s, k)
           n == Len(s)
<1>1. n \in Nat /\ DOMAIN s = 1 .. n /\ k \in 1 .. n
  OBVIOUS
<1>2. /\ DOMAIN t = 1 .. n - 1
      /\ \A j \in 1 .. n - 1 : t[j] = IF j < k THEN s[j] ELSE s[j + 1]
  BY CutProperties
<1> HIDE DEF t, n
<1> DEFINE S == Occurrences(s, f) \ {k}
           T == Occurrences(t, f)
           F == [j \in S |-> IF j < k THEN j ELSE j - 1]
<1>3. F \in [S -> T]
  BY <1>1, <1>2 DEF Occurrences
<1>4. \A i, j \in S : F[i] = F[j] => i = j
  BY <1>1 DEF Occurrences
<1>5. \A j \in T : \E i \in S : F[i] = j
  <2> SUFFICES ASSUME NEW j \in T PROVE \E i \in S : F[i] = j
    OBVIOUS
  <2>1. CASE j < k
    <3>1. j \in S /\ F[j] = j
      BY <1>1, <1>2, <2>1 DEF Occurrences
    <3> QED BY <3>1
  <2>2. CASE ~(j < k)
    <3>1. j + 1 \in S /\ F[j + 1] = j
      BY <1>1, <1>2, <2>2 DEF Occurrences
    <3> QED BY <3>1
  <2> QED BY <2>1, <2>2
<1> HIDE DEF F, S, T
<1>6. ExistsBijection(S, T)
  <2>1. F \in Bijection(S, T)
    BY <1>3, <1>4, <1>5, Fun_IsBij
  <2> QED BY <2>1, Fun_ExistsBij
<1>7. /\ IsFiniteSet(S)
      /\ Cardinality(S) = IF k \in Occurrences(s, f)
                          THEN Cardinality(Occurrences(s, f)) - 1
                          ELSE Cardinality(Occurrences(s, f))
  BY OccurrencesFinite, FS_RemoveElement DEF S
<1>8. k \in Occurrences(s, f) <=> f = s[k]
  BY DEF Occurrences
<1>9. Cardinality(T) = Cardinality(S)
  BY <1>6, <1>7, FS_Bijection
<1> QED BY <1>7, <1>8, <1>9 DEF T, t

\* watch and unwatch: the list has an expression as often as it was added and not
\* removed, whichever of its occurrences the code cuts out.
LEMMA WatchesStep ==
  ASSUME TypeOK, WatchesKept, NEW e \in Exprs, WatchAdd(e) \/ WatchRm(e)
  PROVE  WatchesKept'
<1> SUFFICES ASSUME NEW f \in Exprs
             PROVE  Cardinality(Occurrences(watchExprs', f)) = asked'[f]
  BY DEF WatchesKept, Occurrences
<1>1. watchExprs \in Seq(Exprs) /\ asked \in [Exprs -> Int]
      /\ Cardinality(Occurrences(watchExprs, f)) = asked[f]
  BY DEF TypeOK, WatchesKept, Occurrences
<1>2. CASE WatchAdd(e)
  <2>1. watchExprs' = Append(watchExprs, e) /\ asked' = [asked EXCEPT ![e] = @ + 1]
    BY <1>2 DEF WatchAdd
  <2> QED BY <1>1, <2>1, OccurrencesAppend
<1>3. CASE WatchRm(e)
  <2>1. PICK k \in DOMAIN watchExprs :
          watchExprs[k] = e /\ watchExprs' = Cut(watchExprs, k)
    BY <1>3 DEF WatchRm, Cut
  <2>2. asked' = [asked EXCEPT ![e] = @ - 1]
    BY <1>3 DEF WatchRm
  <2> QED BY <1>1, <2>1, <2>2, OccurrencesCut
<1> QED BY <1>2, <1>3

\* An expression is watched as often as it was added and not removed, over stops,
\* inspections and restarts (cmdWatchExpr).
THEOREM WatchesKeptCorrect == Spec => []WatchesKept
<1>1. Init => WatchesKept
  <2> SUFFICES ASSUME Init, NEW e \in Exprs
               PROVE  Cardinality({k \in DOMAIN watchExprs : watchExprs[k] = e}) = asked[e]
    BY DEF WatchesKept
  <2>1. {k \in DOMAIN watchExprs : watchExprs[k] = e} = {} /\ asked[e] = 0
    BY DEF Init
  <2> QED BY <2>1, FS_EmptySet
<1>2. TypeOK /\ WatchesKept /\ [Next]_vars => WatchesKept'
  <2> SUFFICES ASSUME TypeOK, WatchesKept, [Next]_vars PROVE WatchesKept'
    OBVIOUS
  <2>1. ASSUME NEW e \in Exprs, WatchAdd(e) \/ WatchRm(e) PROVE WatchesKept'
    BY <2>1, WatchesStep
  <2>2. CASE Launch
    <3>1. \A e \in Exprs : {k \in DOMAIN watchExprs' : watchExprs'[k] = e} = {} /\ asked'[e] = 0
      BY <2>2 DEF Launch
    <3> QED BY <3>1, FS_EmptySet DEF WatchesKept
  <2>3. CASE UNCHANGED <<watchExprs, asked>>
    BY <2>3 DEF WatchesKept
  <2> QED BY <2>1, <2>2, <2>3 DEF Next, Stop, Vars, State, Set, Restart, vars
<1>3. IInv => TypeOK
  BY DEF IInv
<1> QED BY <1>1, <1>2, <1>3, Invariant, PTL DEF Spec
=============================================================================
