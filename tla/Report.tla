------------------------------- MODULE Report -------------------------------
(***************************************************************************)
(* What a stop report says of variables (internal/daemon/render.go): the   *)
(* locals that changed since the last stop, compared by name in the form   *)
(* they are shown in, and the watch expressions; with the commands in      *)
(* between that show, set or forget them (commands.go).                    *)
(*                                                                         *)
(* A reader keeps a notebook: the last form seen of every name, from the   *)
(* reports of stops and from vars and state at the same place.             *)
(***************************************************************************)
EXTENDS Integers, Sequences, FiniteSets

CONSTANTS Names,        \* names of arguments and locals
          Values,       \* their values
          Shown,        \* inlineVar: how a value looks, cut to 90 characters
          MaxLocals,    \* bound: variables of a frame
          MaxLines,     \* the changes that a report lists
          Exprs,        \* expressions to watch
          MaxWatch      \* bound: expressions watched

\* A name that lastLocals, or the notebook, has no entry for.
Absent == "absent"

Looks == {Shown[v] : v \in Values}

ASSUME ReportAssumption == /\ MaxLocals \in Nat /\ MaxLines \in Nat /\ MaxWatch \in Nat
                           /\ Shown \in [Values -> STRING] /\ Absent \notin Looks

VARIABLES locals,       \* what currentVars reads at the place of the last stop
          lastLocals,   \* Session.lastLocals
          watchExprs,   \* Session.watchExprs
          lines,        \* the variables shown last, as indices of what was read
          atStop,       \* history: locals when the last stop was reported
          known,        \* history: the notebook
          reliable,     \* history: nothing was hidden from the reader, see below
          asked         \* history: how often each expression is being watched

vars == <<locals, lastLocals, watchExprs, lines, atStop, known, reliable, asked>>

Variable == [name : Names, val : Values]

\* The arguments and locals of a frame.  A call to Delve that fails reads none.
Scopes == UNION {[1 .. k -> Variable] : k \in 0 .. MaxLocals}

TypeOK ==
  /\ locals \in Scopes /\ atStop \in Scopes
  /\ lastLocals \in [Names -> Looks \cup {Absent}]
  /\ known \in [Names -> Looks \cup {Absent}]
  /\ watchExprs \in Seq(Exprs)
  /\ lines \in SUBSET (1 .. MaxLocals)
  /\ reliable \in BOOLEAN /\ asked \in [Exprs -> Int]

Nothing == [nm \in Names |-> Absent]

\* newSession: no locals, no watch expressions.
Init ==
  /\ locals = << >> /\ atStop = << >> /\ lastLocals = Nothing
  /\ watchExprs = << >> /\ lines = {}
  /\ known = Nothing /\ reliable = TRUE /\ asked = [e \in Exprs |-> 0]

\* launch: a new session, which the reader learns about from nothing.
Launch ==
  /\ locals' = << >> /\ atStop' = << >> /\ lastLocals' = Nothing
  /\ watchExprs' = << >> /\ lines' = {}
  /\ known' = Nothing /\ reliable' = TRUE /\ asked' = [e \in Exprs |-> 0]

-----------------------------------------------------------------------------
(* renderDeltaLocals.                                                       *)

Distinct(vs) == \A j, k \in DOMAIN vs : vs[j].name = vs[k].name => j = k

\* The last of the variables of a frame that have the name.
Innermost(vs, nm) ==
  CHOOSE k \in DOMAIN vs : /\ vs[k].name = nm
                           /\ \A j \in DOMAIN vs : vs[j].name = nm => j <= k

\* The map next: of two variables with one name the later one stays.
Entries(vs) ==
  [nm \in Names |-> IF \E k \in DOMAIN vs : vs[k].name = nm
                    THEN Shown[vs[Innermost(vs, nm)].val] ELSE Absent]

\* A name that is new, or looks different.
Changes(vs) == {k \in DOMAIN vs : lastLocals[vs[k].name] # Shown[vs[k].val]}

\* With too many changes only their number is printed.
Listed(ks) == IF Cardinality(ks) <= MaxLines THEN ks ELSE {}

\* The notebook after reading the lines ks.
Noted(vs, ks) ==
  [nm \in Names |-> IF \E k \in ks : vs[k].name = nm
                    THEN Shown[vs[Innermost(vs, nm)].val] ELSE known[nm]]

\* A stop is reported: the changes; every watch expression is evaluated as well.
Stop(vs) ==
  /\ locals' = vs /\ atStop' = vs
  /\ lastLocals' = Entries(vs)
  /\ lines' = Listed(Changes(vs))
  /\ known' = Noted(vs, Listed(Changes(vs)))
  /\ reliable' = /\ reliable \/ lastLocals = Nothing
                 /\ Distinct(vs) /\ Listed(Changes(vs)) = Changes(vs)
  /\ UNCHANGED <<watchExprs, asked>>

-----------------------------------------------------------------------------
(* Commands between two stops.                                              *)

\* The reader compares what is shown with the last stop, if it is of the same
\* place; after a set the variables are no longer those of the stop.
Read(vs, same) ==
  /\ known' = IF same THEN Noted(vs, DOMAIN vs) ELSE known
  /\ reliable' = (reliable \/ (same /\ Distinct(vs) /\ vs = atStop))

\* vars, of the selected goroutine and frame.
Vars(vs, same) ==
  /\ same => vs = locals
  /\ lines' = DOMAIN vs /\ Read(vs, same)
  /\ UNCHANGED <<locals, lastLocals, watchExprs, atStop, asked>>

\* Variant for mutation: the report of state is taken for a stop.
StateConsumes(vs, same) ==
  /\ same => vs = locals
  /\ lines' = DOMAIN vs /\ Read(vs, same)
  /\ lastLocals' = Entries(vs)
  /\ UNCHANGED <<locals, watchExprs, atStop, asked>>

\* Variant for mutation: lastLocals is not put back.
StateForgets(vs, same) ==
  /\ same => vs = locals
  /\ lines' = DOMAIN vs /\ Read(vs, same)
  /\ lastLocals' = Nothing
  /\ UNCHANGED <<locals, watchExprs, atStop, asked>>

\* state: a report against no locals, then all variables; lastLocals is saved
\* and put back.
State(vs, same) ==
  /\ same => vs = locals
  /\ lines' = DOMAIN vs /\ Read(vs, same)
  /\ UNCHANGED <<locals, lastLocals, watchExprs, atStop, asked>>

\* set: Delve writes the variable; lastLocals keeps the value of the stop.
Set(k, v) ==
  /\ k \in DOMAIN locals /\ locals[k].val # v
  /\ locals' = [locals EXCEPT ![k].val = v] /\ reliable' = FALSE
  /\ UNCHANGED <<lastLocals, watchExprs, lines, atStop, known, asked>>

\* restart: the next stop is compared with nothing; watch expressions stay.
Restart ==
  /\ locals' = << >> /\ atStop' = << >> /\ lastLocals' = Nothing
  /\ UNCHANGED <<watchExprs, lines, known, reliable, asked>>

WatchAdd(e) ==
  /\ Len(watchExprs) < MaxWatch
  /\ watchExprs' = Append(watchExprs, e) /\ asked' = [asked EXCEPT ![e] = @ + 1]
  /\ UNCHANGED <<locals, lastLocals, lines, atStop, known, reliable>>

\* Variant for mutation: every occurrence is removed.
WatchRmAll(e) ==
  /\ \E k \in DOMAIN watchExprs : watchExprs[k] = e
  /\ watchExprs' = SelectSeq(watchExprs, LAMBDA f : f # e)
  /\ asked' = [asked EXCEPT ![e] = @ - 1]
  /\ UNCHANGED <<locals, lastLocals, lines, atStop, known, reliable>>

\* The first occurrence is cut out.
WatchRm(e) ==
  /\ \E k \in DOMAIN watchExprs :
       /\ watchExprs[k] = e /\ \A j \in 1 .. k - 1 : watchExprs[j] # e
       /\ watchExprs' = SubSeq(watchExprs, 1, k - 1)
                          \o SubSeq(watchExprs, k + 1, Len(watchExprs))
  /\ asked' = [asked EXCEPT ![e] = @ - 1]
  /\ UNCHANGED <<locals, lastLocals, lines, atStop, known, reliable>>

-----------------------------------------------------------------------------
Next ==
  \/ \E vs \in Scopes : Stop(vs) \/ \E same \in BOOLEAN : Vars(vs, same) \/ State(vs, same)
  \/ \E k \in 1 .. MaxLocals, v \in Values : Set(k, v)
  \/ Launch \/ Restart
  \/ \E e \in Exprs : WatchAdd(e) \/ WatchRm(e)

Spec == Init /\ [][Next]_vars

-----------------------------------------------------------------------------
(* Properties.                                                              *)

\* The deltas of the stop reports add up: a reader who has only read what
\* changed knows how every variable of the last stop looks, as long as no report
\* shadowed a name or was too long and no set came in between; after a long
\* report or a set, vars brings the reader up to date again.
ReaderKnows ==
  reliable => \A k \in DOMAIN atStop : known[atStop[k].name] = Shown[atStop[k].val]

\* What the reader relies on: lastLocals has the last stop's variables, and the
\* notebook has all of lastLocals.
Baseline == lastLocals = Entries(atStop)
Notebook ==
  reliable => /\ Distinct(atStop) /\ locals = atStop
              /\ \A nm \in Names : lastLocals[nm] # Absent => known[nm] = lastLocals[nm]

IInv == TypeOK /\ Baseline /\ Notebook

Looked(vs) == [k \in DOMAIN vs |-> <<vs[k].name, Shown[vs[k].val]>>]

\* A stop at which every variable looks as it did at the last one lists none,
\* whatever was inspected in between.
QuietWhenSame ==
  [][Stop(locals') /\ locals' # << >> /\ Distinct(locals')
       /\ Looked(locals') = Looked(atStop) => lines' = {}]_vars

\* An expression is shown as often as it was added and not removed, over stops,
\* inspections and restarts; adding it twice and removing it once leaves one.
WatchesKept ==
  \A e \in Exprs : Cardinality({k \in DOMAIN watchExprs : watchExprs[k] = e}) = asked[e]
=============================================================================
