----------------------------- MODULE ArgsProofs -----------------------------
(***************************************************************************)
(* Proofs about parseArgs: whatever the flags and the words, there is one  *)
(* way to read a command line, and the loop reads it that way.             *)
(***************************************************************************)
EXTENDS Args, FiniteSetTheorems, FunctionTheorems, SequenceTheorems, WellFoundedInduction,
        TLAPS

-----------------------------------------------------------------------------
(* Words.                                                                   *)

LEMMA ValuesAreWords == Empty \in Word /\ \A t \in Texts : Plain(t) \in Word
<1>1. "" \in Spellings /\ "" \in Texts
  BY NamesAssumption, TextsAssumption
<1>2. \A t \in Texts : Plain(t) \in Word
  BY <1>1 DEF Plain, Word
<1> QED BY <1>1, <1>2 DEF Empty

\* One sequence behind another.
LEMMA Joined ==
  ASSUME NEW W, NEW s \in Seq(W), NEW t \in Seq(W)
  PROVE  /\ s \o t \in Seq(W) /\ Len(s \o t) = Len(s) + Len(t)
         /\ \A j \in 1 .. Len(s) : (s \o t)[j] = s[j]
         /\ \A j \in 1 .. Len(t) : (s \o t)[Len(s) + j] = t[j]
<1> DEFINE a == Len(s)
           b == Len(t)
           u == s \o t
<1>1. a \in Nat /\ b \in Nat
  OBVIOUS
<1>2. /\ u \in Seq(W) /\ Len(u) = a + b
      /\ \A j \in 1 .. a + b : u[j] = IF j <= a THEN s[j] ELSE t[j - a]
  BY ConcatProperties
<1> HIDE DEF u, a, b
<1>3. ASSUME NEW j \in 1 .. a PROVE u[j] = s[j]
  BY <1>1, <1>2
<1>4. ASSUME NEW j \in 1 .. b PROVE u[a + j] = t[j]
  <2>1. a + j \in 1 .. a + b
    BY <1>1
  <2>2. ~(a + j <= a) /\ a + j - a = j
    BY <1>1
  <2>3. \A k \in 1 .. a + b : u[k] = IF k <= a THEN s[k] ELSE t[k - a]
    BY <1>2
  <2>4. u[a + j] = IF a + j <= a THEN s[a + j] ELSE t[a + j - a]
    BY <1>1, <2>1, <2>3
  <2> QED BY <2>2, <2>4
<1> QED BY <1>2, <1>3, <1>4 DEF u, a, b

\* A list is its elements.
LEMMA SameList ==
  ASSUME NEW W, NEW s \in Seq(W), NEW t \in Seq(W), Len(s) = Len(t),
         \A j \in 1 .. Len(s) : s[j] = t[j]
  PROVE  s = t
OBVIOUS

\* The first 2 * l numbers are pairs.
LEMMA Pairs == \A l \in Nat : \A h \in 1 .. 2 * l : \E k \in 1 .. l : h = 2 * k \/ h = 2 * k - 1
<1> SUFFICES ASSUME NEW l \in Nat, NEW h \in 1 .. 2 * l
             PROVE  \E k \in 1 .. l : h = 2 * k \/ h = 2 * k - 1
  OBVIOUS
<1> DEFINE k == (h + 1) \div 2
<1>1. k \in 1 .. l /\ (h = 2 * k \/ h = 2 * k - 1)
  OBVIOUS
<1> QED BY <1>1

-----------------------------------------------------------------------------
(* Lists.                                                                   *)

\* The places of the numbers of a finite set.
LEMMA RankBounds ==
  ASSUME NEW S \in SUBSET Nat, IsFiniteSet(S), NEW k \in S
  PROVE  Rank(k, S) \in 1 .. Cardinality(S)
<1> DEFINE T == {h \in S : h <= k}
<1>1. T \in SUBSET S /\ k \in T
  OBVIOUS
<1>2. IsFiniteSet(T) /\ Cardinality(T) <= Cardinality(S)
  BY <1>1, FS_Subset
<1>3. Cardinality(T) \in Nat /\ Cardinality(S) \in Nat
  BY <1>2, FS_CardinalityType
<1>4. Cardinality(T) # 0
  BY <1>1, <1>2, FS_EmptySet
<1> QED BY <1>2, <1>3, <1>4 DEF Rank

\* One more number, behind the others.
LEMMA ListsGrow ==
  ASSUME NEW W, NEW s \in Seq(W), NEW w \in W, NEW g,
         NEW S \in SUBSET Nat, IsFiniteSet(S), NEW k \in Nat,
         \A h \in S : h < k, Lists(s, S, g), w = g[k]
  PROVE  Lists(Append(s, w), S \cup {k}, g)
<1> DEFINE n == Cardinality(S)
<1>1. n \in Nat /\ Len(s) = n /\ Len(Append(s, w)) = n + 1
  BY FS_CardinalityType DEF Lists
<1>2. Cardinality(S \cup {k}) = n + 1
  <2>1. k \notin S
    OBVIOUS
  <2> QED BY <2>1, FS_AddElement
<1>3. ASSUME NEW h \in S PROVE Append(s, w)[Rank(h, S \cup {k})] = g[h]
  <2>1. {j \in S \cup {k} : j <= h} = {j \in S : j <= h}
    OBVIOUS
  <2>2. Rank(h, S \cup {k}) = Rank(h, S)
    BY <2>1 DEF Rank
  <2>3. Rank(h, S) \in 1 .. n /\ s[Rank(h, S)] = g[h]
    BY RankBounds DEF Lists
  <2> HIDE DEF n
  <2> QED BY <1>1, <2>2, <2>3
<1>4. Append(s, w)[Rank(k, S \cup {k})] = g[k]
  <2>1. {j \in S \cup {k} : j <= k} = S \cup {k}
    <3>1. \A j \in S : j \in Nat /\ j < k
      OBVIOUS
    <3>2. \A j \in S \cup {k} : j <= k
      BY <3>1
    <3> QED BY <3>2
  <2>2. Rank(k, S \cup {k}) = n + 1
    BY <1>2, <2>1 DEF Rank
  <2> HIDE DEF n
  <2> QED BY <1>1, <2>2
<1> HIDE DEF n
<1>5. \A h \in S \cup {k} : Append(s, w)[Rank(h, S \cup {k})] = g[h]
  BY <1>3, <1>4
<1> QED BY <1>1, <1>2, <1>5 DEF Lists

\* Nothing to list.
LEMMA ListsNone == \A g : Lists(<< >>, {}, g)
BY FS_EmptySet DEF Lists

\* h is the numbers of S in their order.
Enumerates(h, m, S) ==
  /\ h \in [1 .. m -> Nat] /\ \A a, b \in 1 .. m : a < b => h[a] < h[b]
  /\ \A j \in 1 .. m : h[j] \in S
  /\ \A x \in S : \E j \in 1 .. m : x = h[j]

\* What a list says of its places, told them in their order.
LEMMA ListsInOrder ==
  ASSUME NEW m \in Nat, NEW h, NEW S, Enumerates(h, m, S),
         NEW s, NEW g, Lists(s, S, g)
  PROVE  Len(s) = m /\ \A j \in 1 .. m : s[j] = g[h[j]]
<1>0. /\ h \in [1 .. m -> Nat] /\ \A a, b \in 1 .. m : a < b => h[a] < h[b]
      /\ \A j \in 1 .. m : h[j] \in S
      /\ \A x \in S : \E j \in 1 .. m : x = h[j]
  BY DEF Enumerates
<1>1. ASSUME NEW k \in 0 .. m
      PROVE  Cardinality({h[j] : j \in 1 .. k}) = k
  <2> DEFINE T == {h[j] : j \in 1 .. k}
             F == [j \in 1 .. k |-> h[j]]
  <2>1. F \in [1 .. k -> T]
    OBVIOUS
  <2>2. \A y \in T : \E j \in 1 .. k : F[j] = y
    OBVIOUS
  <2>3. \A a, b \in 1 .. k : F[a] = F[b] => a = b
    <3>1. \A a, b \in 1 .. m : a < b => h[a] # h[b]
      BY <1>0
    <3>2. \A a, b \in 1 .. k : a \in 1 .. m /\ b \in 1 .. m /\ F[a] = h[a] /\ F[b] = h[b]
      OBVIOUS
    <3>3. \A a, b \in 1 .. k : a < b \/ b < a \/ a = b
      OBVIOUS
    <3> HIDE DEF F
    <3> QED BY <3>1, <3>2, <3>3
  <2> HIDE DEF F, T
  <2>4. ExistsBijection(1 .. k, T)
    <3>1. F \in Bijection(1 .. k, T)
      BY <2>1, <2>2, <2>3, Fun_IsBij
    <3> QED BY <3>1, Fun_ExistsBij
  <2>5. Cardinality(T) = k
    BY <2>4, FS_CountingElements
  <2> QED BY <2>5 DEF T
<1>2. Len(s) = m
  <2>1. S = {h[j] : j \in 1 .. m}
    BY <1>0
  <2>2. Cardinality({h[j] : j \in 1 .. m}) = m
    <3>1. m \in 0 .. m
      OBVIOUS
    <3> QED BY <1>1, <3>1
  <2>3. Cardinality(S) = m
    BY <2>1, <2>2
  <2> QED BY <2>3 DEF Lists
<1>3. ASSUME NEW k \in 1 .. m PROVE s[k] = g[h[k]]
  <2>1. {x \in S : x <= h[k]} = {h[j] : j \in 1 .. k}
    <3>1. \A j \in 1 .. m : h[j] <= h[k] <=> j \in 1 .. k
      <4> SUFFICES ASSUME NEW j \in 1 .. m PROVE h[j] <= h[k] <=> j <= k
        OBVIOUS
      <4>1. h[j] \in Nat /\ h[k] \in Nat
        BY <1>0
      <4>2. j < k => h[j] < h[k]
        BY <1>0
      <4>3. k < j => h[k] < h[j]
        BY <1>0
      <4> QED BY <4>1, <4>2, <4>3
    <3>2. 1 .. k \subseteq 1 .. m
      OBVIOUS
    <3> QED BY <1>0, <3>1, <3>2
  <2>2. Cardinality({x \in S : x <= h[k]}) = k
    BY <1>1, <2>1
  <2>2a. Rank(h[k], S) = k
    BY <2>2 DEF Rank
  <2>3. h[k] \in S
    BY <1>0
  <2> QED BY <2>2a, <2>3 DEF Lists
<1> QED BY <1>2, <1>3

\* What is behind a place.
LEMMA ListsTail ==
  ASSUME NEW W, NEW s \in Seq(W), NEW k \in 1 .. Len(s)
  PROVE  Lists(SubSeq(s, k + 1, Len(s)), k + 1 .. Len(s), s)
<1> DEFINE n == Len(s)
           t == SubSeq(s, k + 1, n)
<1>1. n \in Nat /\ k \in 1 .. n /\ \A j \in 1 .. n : s[j] \in W
  OBVIOUS
<1>2. /\ Len(t) = IF k + 1 <= n THEN n - (k + 1) + 1 ELSE 0
      /\ \A j \in 1 .. n - (k + 1) + 1 : t[j] = s[k + 1 + j - 1]
  <2>1. \A j \in k + 1 .. n : s[j] \in W
    BY <1>1
  <2> HIDE DEF n
  <2> QED BY <1>1, <2>1, SubSeqProperties
<1> HIDE DEF t, n
<1>3. Cardinality(k + 1 .. n) = n - k
  BY <1>1, FS_Interval
<1>4. Len(t) = n - k
  BY <1>1, <1>2
<1>5. ASSUME NEW h \in k + 1 .. n PROVE t[Rank(h, k + 1 .. n)] = s[h]
  <2>1. {j \in k + 1 .. n : j <= h} = k + 1 .. h
    BY <1>1
  <2>2. Cardinality(k + 1 .. h) = h - k
    BY <1>1, FS_Interval
  <2>3. h - k \in 1 .. n - (k + 1) + 1 /\ k + 1 + (h - k) - 1 = h
    BY <1>1
  <2>4. t[h - k] = s[h]
    BY <1>2, <2>3
  <2> QED BY <2>1, <2>2, <2>4 DEF Rank
<1>6. Lists(t, k + 1 .. n, s)
  BY <1>3, <1>4, <1>5 DEF Lists
<1> QED BY <1>6 DEF t, n

-----------------------------------------------------------------------------
(* There is one reading.                                                    *)

\* A set of numbers has a least one.
LEMMA Least ==
  ASSUME NEW T \in SUBSET Nat, T # {}
  PROVE  \E x \in T : \A y \in T : x <= y
<1>1. IsWellFoundedOn(OpToRel(<, Nat), Nat)
  BY NatLessThanWellFounded
<1>2. PICK x \in T : \A y \in T : ~ (<<y, x>> \in OpToRel(<, Nat))
  BY <1>1, WFMin
<1>3. \A y \in T : ~ (y < x)
  BY <1>2 DEF OpToRel
<1>4. \A y \in T : x <= y
  BY <1>3
<1> QED BY <1>4

\* The reading of the first m words.
ReadingOf(V, m) ==
  \A k \in 1 .. m : k \in V <=> k > 1 /\ TakesNext(k - 1) /\ k - 1 \notin V

LEMMA SomeReading ==
  ASSUME args \in Seq(Word)
  PROVE  \E V \in Readings : TRUE
<1> DEFINE T == {m \in Nat : ~ \E V \in SUBSET (1 .. m) : ReadingOf(V, m)}
<1>1. Len(args) \in Nat /\ DOMAIN args = 1 .. Len(args)
  OBVIOUS
<1>2. T = {}
  <2> SUFFICES ASSUME T # {} PROVE FALSE
    OBVIOUS
  <2>1. PICK m \in T : \A y \in T : m <= y
    BY Least
  <2>2. m \in Nat /\ ~ \E V \in SUBSET (1 .. m) : ReadingOf(V, m)
    BY <2>1
  <2>3. m # 0
    <3>1. {} \in SUBSET (1 .. 0) /\ ReadingOf({}, 0)
      BY DEF ReadingOf
    <3> QED BY <2>2, <3>1
  <2>4. m - 1 \in Nat /\ m - 1 \notin T
    BY <2>1, <2>2, <2>3
  <2>5. PICK V \in SUBSET (1 .. m - 1) : ReadingOf(V, m - 1)
    BY <2>4
  <2>6. m \notin V
    BY <2>2, <2>5
  <2>7. CASE m > 1 /\ TakesNext(m - 1) /\ m - 1 \notin V
    <3>1. V \cup {m} \in SUBSET (1 .. m)
      BY <2>2, <2>3
    <3>2. ReadingOf(V \cup {m}, m)
      <4> SUFFICES ASSUME NEW k \in 1 .. m
                   PROVE  k \in V \cup {m}
                            <=> k > 1 /\ TakesNext(k - 1) /\ k - 1 \notin V \cup {m}
        BY DEF ReadingOf
      <4>1. k - 1 # m
        BY <2>2
      <4>2. k # m => k \in 1 .. m - 1
        BY <2>2
      <4> QED BY <2>5, <2>7, <4>1, <4>2 DEF ReadingOf
    <3> QED BY <2>2, <3>1, <3>2
  <2>8. CASE ~(m > 1 /\ TakesNext(m - 1) /\ m - 1 \notin V)
    <3>1. V \in SUBSET (1 .. m)
      BY <2>2
    <3>2. ReadingOf(V, m)
      <4> SUFFICES ASSUME NEW k \in 1 .. m
                   PROVE  k \in V <=> k > 1 /\ TakesNext(k - 1) /\ k - 1 \notin V
        BY DEF ReadingOf
      <4>1. k # m => k \in 1 .. m - 1
        BY <2>2
      <4> QED BY <2>5, <2>6, <2>8, <4>1 DEF ReadingOf
    <3> QED BY <2>2, <3>1, <3>2
  <2> QED BY <2>7, <2>8
<1>3. PICK V \in SUBSET (1 .. Len(args)) : ReadingOf(V, Len(args))
  BY <1>1, <1>2
<1>4. V \in Readings
  BY <1>1, <1>3 DEF Readings, ReadingOf
<1> QED BY <1>4

LEMMA OneReading ==
  ASSUME args \in Seq(Word), NEW V \in Readings, NEW U \in Readings
  PROVE  V = U
<1> DEFINE T == {k \in DOMAIN args : ~(k \in V <=> k \in U)}
<1>1. DOMAIN args = 1 .. Len(args) /\ Len(args) \in Nat
  OBVIOUS
<1>2. V \in SUBSET DOMAIN args /\ U \in SUBSET DOMAIN args
      /\ (\A k \in DOMAIN args : k \in V <=> k > 1 /\ TakesNext(k - 1) /\ k - 1 \notin V)
      /\ (\A k \in DOMAIN args : k \in U <=> k > 1 /\ TakesNext(k - 1) /\ k - 1 \notin U)
  BY DEF Readings
<1>3. T = {}
  <2> SUFFICES ASSUME T # {} PROVE FALSE
    OBVIOUS
  <2>1. PICK m \in T : \A y \in T : m <= y
    <3>1. T \in SUBSET Nat
      BY <1>1
    <3> QED BY <3>1, Least
  <2>2. m \in DOMAIN args /\ m > 1 /\ ~(m - 1 \in V <=> m - 1 \in U)
    BY <1>2, <2>1
  <2>3. m - 1 \in T
    BY <1>1, <2>2
  <2> QED BY <1>1, <2>1, <2>2, <2>3
<1> QED BY <1>2, <1>3

-----------------------------------------------------------------------------
(* parseArgs.                                                               *)

\* Before the loop meets a "--" it has looked at every word that is no value.
LEMMA Looked ==
  ASSUME ArgsTypeOK, ReadSoFar, parser = "on", NEW V \in Readings
  PROVE  \A k \in 1 .. i - 1 : k \notin V => ~Beyond(V, k)
<1> SUFFICES ASSUME NEW k \in 1 .. i - 1, Beyond(V, k) PROVE FALSE
  OBVIOUS
<1>1. PICK j \in DOMAIN args \ V : j <= k /\ args[j].k = "end"
  BY DEF Beyond
<1>2. j \in 1 .. i - 1 /\ j \notin V
  BY <1>1 DEF ArgsTypeOK
<1> QED BY <1>1, <1>2 DEF ReadSoFar

\* A turn that takes a word, with its value if it has one, adds it to the flags
\* or to the positionals.
LEMMA TakenGrows ==
  ASSUME ArgsTypeOK, i \in DOMAIN args, NEW K \in SUBSET (1 .. i - 1), Taken(K),
         ParseAssign \/ ParseBare \/ ParsePositional \/ ParseValued
  PROVE  /\ \A f \in Names : Lists(flags'[f], Given(K \cup {i}, f), Values)
         /\ Lists(pos', Plains(K \cup {i}), args)
<1>1. /\ args \in Seq(Word) /\ i \in Nat \ {0} /\ pos \in Seq(Word)
      /\ flags \in [Names -> Seq(Word)] /\ args[i] \in Word /\ args' = args
  BY DEF ArgsTypeOK, ParseAssign, ParseBare, ParsePositional, ParseValued
<1>3. IsFiniteSet(K) /\ K \in SUBSET Nat /\ \A h \in K : h < i
  <2>1. IsFiniteSet(1 .. i - 1)
    BY <1>1, FS_Interval
  <2>2. IsFiniteSet(K)
    BY <2>1, FS_Subset
  <2> QED BY <1>1, <2>2
<1>4. CASE ParsePositional
  <2>1. args[i].k \in {"plain", "test"} /\ pos' = Append(pos, args[i]) /\ flags' = flags
    BY <1>4 DEF ParsePositional
  <2>2. \A f : Given(K \cup {i}, f) = Given(K, f)
    BY <2>1 DEF Given
  <2>3. Plains(K \cup {i}) = Plains(K) \cup {i}
    BY <2>1 DEF Plains
  <2>4. Plains(K) \in SUBSET Nat /\ IsFiniteSet(Plains(K)) /\ \A h \in Plains(K) : h < i
    <3>1. Plains(K) \in SUBSET K
      BY DEF Plains
    <3> QED BY <1>3, <3>1, FS_Subset
  <2>5. Lists(pos, Plains(K), args)
    BY DEF Taken
  <2>6. Lists(Append(pos, args[i]), Plains(K) \cup {i}, args)
    BY <1>1, <2>4, <2>5, ListsGrow
  <2> QED BY <2>1, <2>2, <2>3, <2>6 DEF Taken
<1>5. CASE ParseAssign \/ ParseBare \/ ParseValued
  <2>1. /\ args[i].k \in {"flag", "assign"} /\ args[i].n \in Names /\ pos' = pos
        /\ flags' = [flags EXCEPT ![args[i].n] = Append(@, Values[i])]
        /\ Values[i] \in Word
    <3>1. CASE ParseAssign
      <4>1. Values[i] = Plain(args[i].v) /\ args[i].v \in Texts
        BY <1>1, <3>1 DEF ParseAssign, Values, TakesNext, Word
      <4> QED BY <3>1, <4>1, ValuesAreWords DEF ParseAssign, Give
    <3>2. CASE ParseBare
      <4>1. Values[i] = Empty
        BY <3>2 DEF ParseBare, Values, TakesNext
      <4> QED BY <3>2, <4>1, ValuesAreWords DEF ParseBare, Give
    <3>3. CASE ParseValued
      <4>1. Values[i] = args[i + 1] /\ i + 1 \in DOMAIN args
        BY <1>1, <3>3 DEF ParseValued, Values, TakesNext
      <4>2. args[i].n \in Names
        BY <3>3, NamesAssumption DEF ParseValued
      <4> QED BY <1>1, <3>3, <4>1, <4>2 DEF ParseValued, Give
    <3> QED BY <1>5, <3>1, <3>2, <3>3
  <2>2. Plains(K \cup {i}) = Plains(K)
    BY <2>1 DEF Plains
  <2>3. Lists(pos', Plains(K \cup {i}), args)
    BY <2>1, <2>2 DEF Taken
  <2>4. ASSUME NEW f \in Names
        PROVE  Lists(flags'[f], Given(K \cup {i}, f), Values)
    <3>1. Lists(flags[f], Given(K, f), Values) /\ flags[f] \in Seq(Word)
      BY <1>1 DEF Taken
    <3>2. CASE f = args[i].n
      <4>1. Given(K \cup {i}, f) = Given(K, f) \cup {i}
        BY <2>1, <3>2 DEF Given
      <4>2. /\ Given(K, f) \in SUBSET Nat /\ IsFiniteSet(Given(K, f))
            /\ \A h \in Given(K, f) : h < i
        <5>1. Given(K, f) \in SUBSET K
          BY DEF Given
        <5> QED BY <1>3, <5>1, FS_Subset
      <4>3. Lists(Append(flags[f], Values[i]), Given(K, f) \cup {i}, Values)
        BY <1>1, <2>1, <3>1, <4>2, ListsGrow
      <4>4. flags'[f] = Append(flags[f], Values[i])
        BY <1>1, <2>1, <3>2
      <4> QED BY <4>1, <4>3, <4>4
    <3>3. CASE f # args[i].n
      <4>1. Given(K \cup {i}, f) = Given(K, f)
        BY <3>3 DEF Given
      <4>2. flags'[f] = flags[f]
        BY <1>1, <2>1, <3>3
      <4> QED BY <3>1, <4>1, <4>2
    <3> QED BY <3>2, <3>3
  <2> QED BY <2>3, <2>4
<1> QED BY <1>4, <1>5

\* The loop ends: at a "--", or because there are no more words.
LEMMA ParseEndsAsRead ==
  ASSUME ArgsTypeOK, ReadSoFar, ParseEnd \/ ParseEnds
  PROVE  ParsedAsRead'
<1>1. /\ parser = "on" /\ args' = args /\ i' = i /\ flags' = flags /\ pos' = pos
      /\ args \in Seq(Word) /\ i \in Nat \ {0} /\ i <= Len(args) + 1
      /\ Len(args) \in Nat /\ DOMAIN args = 1 .. Len(args) /\ rest = << >>
  BY DEF ParseEnd, ParseEnds, Reading, ArgsTypeOK, ReadSoFar
<1>2. PICK V \in Readings : TRUE
  BY <1>1, SomeReading
<1>3. Readings = {V}
  BY <1>1, <1>2, OneReading
<1>4. /\ Readings' = Readings /\ Heads(V)' = Heads(V) /\ Behind(V)' = Behind(V)
      /\ \A K : Taken(K)' <=> Taken(K)
  <2>1. Values' = Values
    BY <1>1 DEF Values, TakesNext
  <2>2. \A K : Taken(K)' <=> Taken(K)
    BY <1>1, <2>1 DEF Taken, Given, Plains
  <2> QED BY <1>1, <2>2 DEF Readings, TakesNext, Heads, Behind, Beyond
<1>5. /\ Taken((1 .. i - 1) \ V) /\ i \notin V /\ V \subseteq DOMAIN args
      /\ \A k \in 1 .. i - 1 : k \notin V => args[k].k # "end"
  BY <1>1 DEF ReadSoFar, Readings
<1>6. (1 .. i - 1) \ V \subseteq Heads(V)
  BY <1>1, Looked DEF Heads
<1>7. CASE ParseEnd
  <2>1. i \in DOMAIN args /\ args[i].k = "end" /\ rest' = SubSeq(args, i + 1, Len(args))
    BY <1>1, <1>7 DEF ParseEnd, Reading
  <2>2. \A k \in DOMAIN args : i <= k => Beyond(V, k)
    BY <1>5, <2>1 DEF Beyond
  <2>3. Heads(V) = (1 .. i - 1) \ V
    <3>1. \A k \in Heads(V) : k \in 1 .. i - 1
      BY <1>1, <2>2 DEF Heads
    <3> QED BY <1>6, <3>1 DEF Heads
  <2>4. Behind(V) = i + 1 .. Len(args)
    <3>1. \A k \in i + 1 .. Len(args) : k \in DOMAIN args /\ Beyond(V, k - 1)
      BY <1>1, <1>5, <2>1 DEF Beyond
    <3>2. ASSUME NEW k \in Behind(V) PROVE k \in i + 1 .. Len(args)
      <4>1. PICK j \in DOMAIN args \ V : j <= k - 1 /\ args[j].k = "end"
        BY DEF Behind, Beyond
      <4>2. j \notin 1 .. i - 1
        BY <1>5, <4>1
      <4> QED BY <1>1, <4>1, <4>2 DEF Behind
    <3> QED BY <3>1, <3>2 DEF Behind
  <2>5. Lists(rest', Behind(V), args)
    BY <1>1, <2>1, <2>4, ListsTail
  <2>6. Taken(Heads(V))
    BY <1>5, <2>3
  <2> QED BY <1>1, <1>3, <1>4, <2>5, <2>6 DEF ParsedAsRead
<1>8. CASE ParseEnds
  <2>1. i = Len(args) + 1 /\ rest' = << >>
    BY <1>1, <1>8 DEF ParseEnds
  <2>2. Heads(V) = (1 .. i - 1) \ V
    BY <1>1, <1>6, <2>1 DEF Heads
  <2>3. Behind(V) = {}
    BY <1>1, <1>5, <2>1 DEF Behind, Beyond
  <2>4. Lists(rest', Behind(V), args)
    BY <2>1, <2>3, ListsNone
  <2>5. Taken(Heads(V))
    BY <1>5, <2>2
  <2> QED BY <1>1, <1>3, <1>4, <2>4, <2>5 DEF ParsedAsRead
<1> QED BY <1>7, <1>8

\* A turn of the loop keeps the account of what was read, and ends the loop
\* with a refusal exactly if there is a fault.
LEMMA ParseStepReads ==
  ASSUME ArgsTypeOK, ReadSoFar, ParseStep
  PROVE  ArgsTypeOK' /\ ReadSoFar' /\ RefusedExactly' /\ ParsedAsRead'
<1> USE DEF ArgsTypeOK
<1>1. args' = args /\ parser = "on"
  BY DEF ParseStep, ParseEnd, ParseAssign, ParseBare, ParseValued, ParsePositional,
         ParseRefuses, ParseEnds, Reading
<1>2. Readings' = Readings BY <1>1 DEF Readings, TakesNext
<1>3. \A V \in Readings : i \notin V /\ V \subseteq DOMAIN args
  BY <1>1 DEF ReadSoFar, Readings
<1>4. i \in Nat \ {0} /\ i <= Len(args) + 1 /\ Len(args) \in Nat
      /\ DOMAIN args = 1 .. Len(args)
  BY <1>1 DEF ReadSoFar
<1>seen. \A V \in Readings : \A k \in 1 .. i - 1 :
           k \notin V => args[k].k # "end" /\ ~Faulty(k)
  BY <1>1 DEF ReadSoFar
<1>5. ASSUME NEW V \in Readings, i \in DOMAIN args
      PROVE  i + 1 \in DOMAIN args => (i + 1 \in V <=> TakesNext(i))
  <2> SUFFICES ASSUME i + 1 \in DOMAIN args PROVE i + 1 \in V <=> TakesNext(i)
    OBVIOUS
  <2>1. i + 1 > 1 /\ (i + 1) - 1 = i /\ i \notin V BY <1>3, <1>4
  <2>2. i + 1 \in V <=> i + 1 > 1 /\ TakesNext((i + 1) - 1) /\ (i + 1) - 1 \notin V
    BY DEF Readings
  <2> QED BY <2>1, <2>2
<1>6. \A k \in DOMAIN args : args[k] \in Word BY <1>1
<1>7. CASE ParseEnd
  <2>1. Reading /\ args[i].k = "end" /\ parser' = "done" BY <1>7 DEF ParseEnd
  <2>2. i \in DOMAIN args BY <2>1, <1>4 DEF Reading
  <2>3. ArgsTypeOK'
    <3>1. SubSeq(args, i + 1, Len(args)) \in Seq(Word) BY <1>4
    <3> QED BY <1>7, <3>1 DEF ParseEnd
  <2>4. \A V \in Readings : \A k \in Heads(V) : k < i
    <3> SUFFICES ASSUME NEW V \in Readings, NEW k \in Heads(V), ~(k < i) PROVE FALSE
      OBVIOUS
    <3>1. k \in DOMAIN args /\ i <= k BY <1>4 DEF Heads
    <3>2. Beyond(V, k) BY <2>1, <2>2, <3>1, <1>3 DEF Beyond
    <3> QED BY <3>2 DEF Heads
  <2>5. \A V \in Readings : \A k \in Heads(V) : ~Faulty(k)
    BY <2>4, <1>seen, <1>4 DEF Heads
  <2>6. RefusedExactly'
    BY <2>5, <2>1, <1>1, <1>2 DEF RefusedExactly, Heads, Beyond, Faulty, TakesNext
  <2> QED BY <1>7, <2>1, <2>3, <2>6, ParseEndsAsRead DEF ReadSoFar
<1>8. CASE ParseEnds
  <2>1. ArgsTypeOK' BY <1>8 DEF ParseEnds
  <2>2. parser' = "done" /\ i > Len(args) BY <1>8 DEF ParseEnds
  <2>3. \A V \in Readings : \A k \in Heads(V) : ~Faulty(k)
    BY <2>2, <1>seen, <1>4 DEF Heads
  <2>4. RefusedExactly'
    BY <2>3, <2>2, <1>1, <1>2 DEF RefusedExactly, Heads, Beyond, Faulty, TakesNext
  <2> QED BY <1>8, <2>1, <2>2, <2>4, ParseEndsAsRead DEF ReadSoFar
<1>9. CASE ParseRefuses
  <2>1. ArgsTypeOK' BY <1>9 DEF ParseRefuses
  <2>2. parser' = "refused" /\ i \in DOMAIN args /\ args[i].k # "end" /\ Faulty(i)
    BY <1>9, <1>4 DEF ParseRefuses, Reading, Faulty, TakesNext
  <2>3. \A V \in Readings : i \in Heads(V)
    <3> SUFFICES ASSUME NEW V \in Readings, Beyond(V, i) PROVE FALSE
      BY <1>3, <2>2 DEF Heads
    <3>1. PICK j \in DOMAIN args \ V : j <= i /\ args[j].k = "end" BY DEF Beyond
    <3>2. j \in 1 .. i - 1 BY <3>1, <2>2, <1>4
    <3> QED BY <3>1, <3>2, <1>1 DEF ReadSoFar
  <2>4. \A V \in Readings : \E k \in Heads(V) : Faulty(k) BY <2>2, <2>3
  <2>5. RefusedExactly'
    BY <2>4, <2>2, <1>1, <1>2 DEF RefusedExactly, Heads, Beyond, Faulty, TakesNext
  <2> QED BY <2>1, <2>2, <2>5 DEF ReadSoFar, ParsedAsRead
<1>10. ASSUME ParseAssign \/ ParseBare \/ ParsePositional \/ ParseValued
       PROVE  ArgsTypeOK' /\ ReadSoFar' /\ RefusedExactly' /\ ParsedAsRead'
  <2>1. i \in DOMAIN args /\ args[i] \in Word /\ parser' = "on"
    BY <1>10, <1>1, <1>4
       DEF ParseAssign, ParseBare, ParsePositional, ParseValued, Reading
  <2>2. args[i].k # "end" /\ ~Faulty(i)
    <3>1. CASE ParseAssign BY <3>1 DEF ParseAssign, Faulty, TakesNext
    <3>2. CASE ParseBare BY <3>2 DEF ParseBare, Faulty, TakesNext
    <3>3. CASE ParsePositional BY <3>3 DEF ParsePositional, Faulty, TakesNext
    <3>4. CASE ParseValued
      <4>1. args[i].k = "flag" /\ args[i].n \in Valued /\ i < Len(args)
        BY <3>4 DEF ParseValued
      <4>2. args[i].n \in Names
        <5>1. Valued \subseteq Names BY NamesAssumption
        <5> QED BY <4>1, <5>1
      <4>3. i # Len(args)
        <5>1. \A a, b \in Nat : a < b => a # b OBVIOUS
        <5> QED BY <5>1, <4>1, <1>4
      <4> QED BY <4>1, <4>2, <4>3 DEF Faulty, TakesNext
    <3> QED BY <1>10, <3>1, <3>2, <3>3, <3>4
  <2>3. \/ i' = i + 1 /\ ~TakesNext(i)
        \/ i' = i + 2 /\ TakesNext(i) /\ i + 1 \in DOMAIN args
    BY <1>10, <1>4
       DEF ParseAssign, ParseBare, ParsePositional, ParseValued, Reading, TakesNext
  <2>4. ArgsTypeOK'
    <3>1. ASSUME NEW f \in Names, NEW w \in Word, Give(f, w)
          PROVE  flags' \in [Names -> Seq(Word)]
      BY <3>1 DEF Give
    <3>2. Append(pos, args[i]) \in Seq(Word) BY <2>1
    <3>3. CASE ParseAssign
      <4>1. Plain(args[i].v) \in Word BY <2>1, ValuesAreWords DEF Word
      <4> QED BY <3>1, <3>3, <4>1, <1>1, <2>3, <1>4 DEF ParseAssign
    <3>4. CASE ParseBare BY <3>1, <3>4, ValuesAreWords, <1>1, <2>3, <1>4 DEF ParseBare
    <3>5. CASE ParsePositional BY <3>2, <3>5, <1>1, <2>3, <1>4 DEF ParsePositional
    <3>6. CASE ParseValued
      <4>1. args[i + 1] \in Word BY <3>6, <1>4, <1>6 DEF ParseValued, Reading
      <4>2. args[i].n \in Valued /\ Give(args[i].n, args[i + 1]) /\ i' = i + 2
            /\ UNCHANGED <<args, pos, rest, parser>>
        BY <3>6 DEF ParseValued
      <4>3. args[i].n \in Names BY <4>2, NamesAssumption
      <4>4. flags' \in [Names -> Seq(Word)] BY <3>1, <4>1, <4>2, <4>3
      <4> QED BY <4>2, <4>4, <1>1, <1>4
    <3> QED BY <1>10, <3>3, <3>4, <3>5, <3>6
  <2>5. i' <= Len(args) + 1 BY <2>1, <2>3, <1>4
  <2>6. ASSUME NEW V \in Readings
        PROVE  i' \notin V /\ \A k \in 1 .. i' - 1 : k \notin V => args[k].k # "end" /\ ~Faulty(k)
    <3>1. CASE i' = i + 1 /\ ~TakesNext(i)
      <4>1. i + 1 \notin V BY <3>1, <1>3, <1>5, <2>1
      <4>2. \A k \in 1 .. i : k \notin V => args[k].k # "end" /\ ~Faulty(k)
        BY <2>2, <1>seen, <1>4
      <4> QED BY <3>1, <4>1, <4>2, <1>4
    <3>2. CASE i' = i + 2 /\ TakesNext(i) /\ i + 1 \in DOMAIN args
      <4>1. i + 1 \in V BY <3>2, <1>5, <2>1
      <4>2. i + 2 \notin V
        <5> SUFFICES ASSUME i + 2 \in V PROVE FALSE OBVIOUS
        <5>1. i + 2 \in DOMAIN args /\ (i + 2) - 1 = i + 1 BY <1>3, <1>4
        <5> QED BY <5>1, <4>1 DEF Readings
      <4>3. \A k \in 1 .. i + 1 : k \notin V => args[k].k # "end" /\ ~Faulty(k)
        BY <2>2, <4>1, <1>seen, <1>4
      <4> QED BY <3>2, <4>2, <4>3, <1>4
    <3> QED BY <2>3, <3>1, <3>2
  <2>7. ASSUME NEW V \in Readings
        PROVE  /\ \A f \in Names : Lists(flags'[f], Given((1 .. i' - 1) \ V, f), Values)
               /\ Lists(pos', Plains((1 .. i' - 1) \ V), args)
    <3>1. Taken((1 .. i - 1) \ V)
      BY <1>1 DEF ReadSoFar
    <3>2. (1 .. i' - 1) \ V = ((1 .. i - 1) \ V) \cup {i}
      <4>1. CASE i' = i + 1
        BY <1>3, <1>4, <4>1
      <4>2. CASE i' = i + 2 /\ TakesNext(i) /\ i + 1 \in DOMAIN args
        <5>1. i + 1 \in V /\ i \notin V
          BY <1>3, <1>5, <2>1, <4>2
        <5> QED BY <1>4, <4>2, <5>1
      <4> QED BY <2>3, <4>1, <4>2
    <3> QED BY <1>10, <2>1, <3>1, <3>2, TakenGrows
  <2>8. Values' = Values /\ rest' = << >>
    <3>1. rest = << >>
      BY <1>1 DEF ReadSoFar
    <3>2. Values' = Values
      BY <1>1 DEF Values, TakesNext
    <3> QED BY <1>10, <3>1, <3>2 DEF ParseAssign, ParseBare, ParsePositional, ParseValued
  <2>9. \A V \in Readings : Taken((1 .. i - 1) \ V)'
    BY <1>1, <2>7, <2>8 DEF Taken, Given, Plains
  <2>10. ReadSoFar'
    BY <1>1, <1>2, <2>5, <2>6, <2>8, <2>9 DEF ReadSoFar, Faulty, TakesNext
  <2> QED BY <2>1, <2>4, <2>10 DEF RefusedExactly, ParsedAsRead
<1> QED BY <1>7, <1>8, <1>9, <1>10 DEF ParseStep

\* The call of parseArgs has read nothing.
LEMMA ParseBegins ==
  ASSUME NEW ws \in Seq(Word), Parse(ws)
  PROVE  /\ ArgsTypeOK' /\ ReadSoFar' /\ RefusedExactly' /\ ParsedAsRead'
         /\ parser' = "on"
<1>1. /\ args' = ws /\ i' = 1 /\ parser' = "on" /\ rest' = << >> /\ pos' = << >>
      /\ flags' = NoFlags
  BY DEF Parse
<1>2. ArgsTypeOK'
  <2>1. NoFlags \in [Names -> Seq(Word)] BY DEF NoFlags
  <2> QED BY <2>1 DEF Parse, ArgsTypeOK
<1>3. ReadSoFar'
  <2>1. \A V \in Readings' : 1 \notin V BY DEF Readings
  <2>2. \A V : (1 .. i' - 1) \ V = {}
    BY <1>1
  <2>3. \A V : Taken((1 .. i - 1) \ V)'
    BY <1>1, <2>2, ListsNone DEF Taken, Given, Plains, NoFlags
  <2> QED BY <1>1, <2>1, <2>3 DEF ReadSoFar
<1> QED BY <1>1, <1>2, <1>3 DEF RefusedExactly, ParsedAsRead

\* Everything else leaves parseArgs alone.
LEMMA ParseRests ==
  ASSUME ArgsTypeOK, ReadSoFar, RefusedExactly, ParsedAsRead, UNCHANGED argsVars
  PROVE  ArgsTypeOK' /\ ReadSoFar' /\ RefusedExactly' /\ ParsedAsRead'
<1>1. /\ args' = args /\ i' = i /\ flags' = flags /\ pos' = pos /\ rest' = rest
      /\ parser' = parser
  BY DEF argsVars
<1>2. ArgsTypeOK' BY <1>1 DEF ArgsTypeOK
<1>3. Values' = Values
  BY <1>1 DEF Values, TakesNext
<1>4. ReadSoFar'
  BY <1>1, <1>3 DEF ReadSoFar, Readings, Faulty, TakesNext, Taken, Given, Plains
<1>5. RefusedExactly'
  BY <1>1 DEF RefusedExactly, Readings, Heads, Beyond, Faulty, TakesNext
<1>6. ParsedAsRead'
  <2>1. Readings' = Readings
    BY <1>1 DEF Readings, TakesNext
  <2>2. \A V : Heads(V)' = Heads(V) /\ Behind(V)' = Behind(V)
    BY <1>1 DEF Heads, Behind, Beyond
  <2>3. ASSUME NEW V PROVE Taken(Heads(V))' <=> Taken(Heads(V))
    BY <1>1, <1>3, <2>2 DEF Taken, Given, Plains
  <2> QED BY <1>1, <2>1, <2>2, <2>3 DEF ParsedAsRead
<1> QED BY <1>2, <1>4, <1>5, <1>6
=============================================================================
