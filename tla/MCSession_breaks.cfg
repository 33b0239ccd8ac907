\* Breakpoints, logpoints and watchpoints over stops, exits and restarts.
CONSTANTS
  Commands = {"launch", "break", "log", "watch", "rm", "toggle", "continue", "restart"}
  Goroutines = {}
  MaxFrame = 0
  Stamps = {1}
  Locs = {l1, l2}
  MaxId = 2
  MaxHalts = 1
  MaxLost = 1
  MaxLogs = 2
  TraceMax = 1
SPECIFICATION Spec
INVARIANTS LogsComplete LogpointsExact ExitedHonest
