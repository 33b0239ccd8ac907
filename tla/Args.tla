-------------------------------- MODULE Args --------------------------------
(***************************************************************************)
(* parseArgs of internal/daemon/commands.go: argv is split into flags,     *)
(* positionals and what follows "--".  One step is one turn of its loop.   *)
(*                                                                         *)
(* A word is a record: its kind k, the name n of the flag it spells and    *)
(* its text v.  Only what parseArgs tells apart is kept of the text.       *)
(***************************************************************************)
EXTENDS Integers, Sequences, FiniteSets

CONSTANTS Names,      \* flags of the command's spec
          Valued,     \* those that take a value
          Spellings,  \* what may stand after "--", flags or not; "" for no flag
          Texts       \* texts of words; "" is the empty one

ASSUME NamesAssumption == Valued \subseteq Names /\ Names \cup {""} \subseteq Spellings
ASSUME TextsAssumption == "" \in Texts

VARIABLES args,     \* the words to parse
          i,        \* index of the next word
          flags,    \* the values given to each flag, in order; none: << >>
          pos,      \* positionals
          rest,     \* what follows "--"
          parser    \* "off", "on", then "done" or "refused"

argsVars == <<args, i, flags, pos, rest, parser>>

Plain(t)     == [k |-> "plain", n |-> "", v |-> t]
Flag(n)      == [k |-> "flag", n |-> n, v |-> ""]      \* --n
Assign(n, t) == [k |-> "assign", n |-> n, v |-> t]     \* --n=t
End          == [k |-> "end", n |-> "", v |-> ""]      \* --
Test(t)      == [k |-> "test", n |-> "", v |-> t]      \* -test.t, for -t

Word == [k : {"plain", "flag", "assign", "end", "test"}, n : Spellings, v : Texts]

\* No value was given, or the empty one.
Empty == Plain("")

NoFlags == [n \in Names |-> << >>]

ArgsTypeOK ==
  /\ args \in Seq(Word) /\ i \in Nat \ {0}
  /\ flags \in [Names -> Seq(Word)] /\ pos \in Seq(Word) /\ rest \in Seq(Word)
  /\ parser \in {"off", "on", "done", "refused"}

ArgsInit == /\ args = << >> /\ i = 1 /\ flags = NoFlags
            /\ pos = << >> /\ rest = << >> /\ parser = "off"

\* The call of parseArgs.
Parse(ws) == /\ args' = ws /\ i' = 1 /\ flags' = NoFlags
             /\ pos' = << >> /\ rest' = << >> /\ parser' = "on"

Reading == parser = "on" /\ i <= Len(args)

Give(n, w) == flags' = [flags EXCEPT ![n] = Append(@, w)]

ParseEnd ==
  /\ Reading /\ args[i].k = "end"
  /\ rest' = SubSeq(args, i + 1, Len(args)) /\ parser' = "done"
  /\ UNCHANGED <<args, i, flags, pos>>

ParseAssign ==
  /\ Reading /\ args[i].k = "assign" /\ args[i].n \in Names
  /\ Give(args[i].n, Plain(args[i].v)) /\ i' = i + 1
  /\ UNCHANGED <<args, pos, rest, parser>>

ParseBare ==
  /\ Reading /\ args[i].k = "flag" /\ args[i].n \in Names \ Valued
  /\ Give(args[i].n, Empty) /\ i' = i + 1
  /\ UNCHANGED <<args, pos, rest, parser>>

\* Variant for mutation: a word that looks like a flag is not taken as a value.
ParseValuedUnlessFlag ==
  /\ Reading /\ args[i].k = "flag" /\ args[i].n \in Valued /\ i < Len(args)
  /\ IF args[i + 1].k = "flag"
     THEN Give(args[i].n, Empty) /\ i' = i + 1
     ELSE Give(args[i].n, args[i + 1]) /\ i' = i + 2
  /\ UNCHANGED <<args, pos, rest, parser>>

\* The next word is the value, whatever it looks like.
ParseValued ==
  /\ Reading /\ args[i].k = "flag" /\ args[i].n \in Valued /\ i < Len(args)
  /\ Give(args[i].n, args[i + 1]) /\ i' = i + 2
  /\ UNCHANGED <<args, pos, rest, parser>>

ParsePositional ==
  /\ Reading /\ args[i].k \in {"plain", "test"}
  /\ pos' = Append(pos, args[i]) /\ i' = i + 1
  /\ UNCHANGED <<args, flags, rest, parser>>

\* "unknown flag", or "needs a value".
ParseRefuses ==
  /\ Reading /\ args[i].k \in {"flag", "assign"}
  /\ \/ args[i].n \notin Names
     \/ args[i].k = "flag" /\ args[i].n \in Valued /\ i = Len(args)
  /\ parser' = "refused"
  /\ UNCHANGED <<args, i, flags, pos, rest>>

ParseEnds ==
  /\ parser = "on" /\ i > Len(args)
  /\ parser' = "done"
  /\ UNCHANGED <<args, i, flags, pos, rest>>

ParseStep == \/ ParseEnd \/ ParseAssign \/ ParseBare \/ ParseValued
             \/ ParsePositional \/ ParseRefuses \/ ParseEnds

-----------------------------------------------------------------------------
(* How the result reads without running the loop.                           *)

TakesNext(k) == args[k].k = "flag" /\ args[k].n \in Valued

\* The words that are values: a word is one exactly if the word before it takes
\* a value and is not itself one.  There is one such set.
Readings ==
  {V \in SUBSET DOMAIN args :
     \A k \in DOMAIN args : k \in V <=> k > 1 /\ TakesNext(k - 1) /\ k - 1 \notin V}

\* Word k is a "--" that ends the flags, or comes after one.
Beyond(V, k) == \E j \in DOMAIN args \ V : j <= k /\ args[j].k = "end"

\* The words that the loop looks at.
Heads(V) == {k \in DOMAIN args \ V : ~Beyond(V, k)}

Faulty(k) == \/ args[k].k \in {"flag", "assign"} /\ args[k].n \notin Names
             \/ TakesNext(k) /\ k = Len(args)

\* parseArgs refuses a command line exactly if one of the words that it has to
\* look at names no flag or lacks its value; words taken as values and words
\* after "--" are no reason, whatever they look like.
RefusedExactly ==
  parser \in {"done", "refused"} =>
    \A V \in Readings : parser = "refused" <=> \E k \in Heads(V) : Faulty(k)

\* The place of number k among the numbers of S.
Rank(k, S) == Cardinality({h \in S : h <= k})

\* Sequence s lists g[k] for the numbers k of S, in their order.
Lists(s, S, g) == /\ Len(s) = Cardinality(S)
                  /\ \A k \in S : s[Rank(k, S)] = g[k]

Given(K, f) == {k \in K : args[k].k \in {"flag", "assign"} /\ args[k].n = f}
Plains(K) == {k \in K : args[k].k \in {"plain", "test"}}

\* The value of the flag that word k spells.
Values == [k \in DOMAIN args |->
             IF TakesNext(k) THEN args[k + 1]
             ELSE IF args[k].k = "assign" THEN Plain(args[k].v) ELSE Empty]

\* The flags and the positionals are those that the words of K spell.
Taken(K) == /\ \A f \in Names : Lists(flags[f], Given(K, f), Values)
            /\ Lists(pos, Plains(K), args)

\* What stands behind the first "--" that is no value.
Behind(V) == {k \in DOMAIN args : Beyond(V, k - 1)}

\* Flags, positionals and program arguments are the words that a reader of the
\* command line takes them for, whatever words stand where a value is expected;
\* there is one reading.
ParsedAsRead ==
  parser = "done" =>
    \E V \in Readings : /\ Readings = {V}
                        /\ Taken(Heads(V)) /\ Lists(rest, Behind(V), args)

\* While the loop runs it has met no fault and no "--", stands at no value, and
\* has what the words before it spell.
ReadSoFar ==
  parser = "on" =>
    /\ i <= Len(args) + 1 /\ rest = << >>
    /\ \A V \in Readings :
         /\ i \notin V /\ Taken((1 .. i - 1) \ V)
         /\ \A k \in 1 .. i - 1 : k \notin V => args[k].k # "end" /\ ~Faulty(k)
=============================================================================
