\* Two expressions in one debug_eval call, one of them with a parenthesis.
CONSTANTS
  Names <- LaunchFlags
  Valued <- LaunchValued
  Spellings <- MCSpellings
  Texts = {"", "x", "-v", "1", "len(x)", ";", "launch", "trace", "do", "vars", "stop",
           "down", "usage", "eval", "pause"}
  Numerals = {"1"}
  TestArgs = {"-v"}
  Special = {"len(x)"}
  Workloads <- EvalWorkloads
SPECIFICATION Spec
INVARIANTS EachEvaluated
CHECK_DEADLOCK FALSE
