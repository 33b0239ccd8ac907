\* Command lines of up to four words, scripts of two commands, tool calls with
\* every mix of arguments, MCP sessions of three messages beside a user.
CONSTANTS
  Names <- LaunchFlags
  Valued <- LaunchValued
  Spellings <- MCSpellings
  Texts = {"", "x", "-v", "1", "len(x)", ";", "launch", "trace", "do", "vars", "stop",
           "down", "usage", "eval", "pause"}
  Numerals = {"1"}
  TestArgs = {"-v"}
  Special = {"len(x)"}
  Workloads <- MCWorkloads
SPECIFICATION FairSpec
INVARIANTS TypeOK IInv RefusedExactly ParsedAsRead UsageErrorsKeepSession SessionsAreWhole
           DoStopsAndIsLogged ToolArgumentsArrive RepliesInOrder
PROPERTIES BreakpointsFirst AllAnswered
CHECK_DEADLOCK FALSE
