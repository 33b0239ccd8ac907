------------------------------- MODULE MCMcp --------------------------------
(* Mcp for TLC: command lines up to four words, scripts, and MCP sessions. *)
EXTENDS Mcp, SequencesExt

\* The flags of launch and trace, no flag, and one that there is not.
MCSpellings == LaunchFlags \cup {"", "nope"}

\* Words of a command line; pkg and break take a value, stop-entry does not.
Vocabulary == {Plain("x"), Plain("-v"), Flag("pkg"), Assign("pkg", ""), Flag("break"),
               Flag("stop-entry"), Flag("nope"), End}

UpToThree == UNION {[1 .. k -> Vocabulary] : k \in 0 .. 3}

LaunchX == <<Plain("launch"), Flag("pkg"), Plain("x")>>
Word1(t) == <<Plain(t)>>
Separated(parts) == FoldLeft(LAMBDA s, p : s \o <<Semicolon>> \o p, << >>, parts)

CommandLines == {<<Plain(c)>> \o ws : c \in {"launch", "trace"}, ws \in UpToThree}

\* Target flags, numbers and test arguments.
Launches ==
  {<<Plain("trace"), Flag("test"), Plain("x"), Assign("max", t), Flag("break"), Plain("x"),
     End, Plain("-v")>> : t \in {"", "1", "x"}}
    \cup {LaunchX \o <<Assign("bin-path", t)>> : t \in {"", "x"}}

Scripts == {<<Plain("do")>> \o Separated(ps) :
              ps \in [1 .. 2 -> {Word1("vars"), Word1("stop"), Word1("down"), LaunchX,
                                 << >>, Word1("launch"), Word1("do"),
                                 <<Plain("do"), Plain("do"), Plain("launch")>>}]}

Nothing == [pkg |-> "", test |-> "", bin_path |-> "", breakpoints |-> << >>,
            break_functions |-> << >>, build_flags |-> "", capture |-> "",
            max_hits |-> "", stop_entry |-> FALSE, args |-> << >>]

ToolArguments ==
  {[Nothing EXCEPT !.pkg = p, !.test = t, !.breakpoints = b, !.break_functions = f,
                   !.stop_entry = e, !.args = g, !.max_hits = m] :
     p \in {"", "x"}, t \in {"", "x"}, b \in {<<"x">>}, f \in {<< >>, <<"x", "1">>},
     e \in BOOLEAN, g \in {<< >>, <<"-v", "x">>}, m \in {"", "1"}}

Calls == {Message("call", 1, t, a) : t \in {"debug_launch", "debug_trace"}, a \in ToolArguments}

Small == {Message("garbage", 0, "", Nothing), Message("method", 2, "", Nothing),
          Message("method", 0, "", Nothing), Message("nomethod", 3, "", Nothing),
          Message("call", 4, "debug_nothing", Nothing),
          Message("call", 0, "debug_stop", Nothing),
          Message("call", 5, "debug_vars", Nothing),
          Message("call", 6, "debug_where", Nothing),
          Message("overlong", 0, "", Nothing)}

Evaluations == {Message("call", 7, "debug_eval", [expressions |-> es]) :
                  es \in {<<"x">>, <<"x", "len(x)">>}}

EvalWorkloads == {<< <<m>>, << >> >> : m \in Evaluations}

MCWorkloads ==
  {<< << >>, <<l>> >> : l \in CommandLines \cup Launches \cup Scripts}
    \cup {<< <<m>>, << >> >> : m \in Calls}
    \cup {<< ms, ls >> : ms \in [1 .. 3 -> Small],
                         ls \in {<< >>, <<Word1("usage"), Word1("down"), Word1("stop")>>}}
    \cup EvalWorkloads
=============================================================================
