\* The selection, the delta baseline and the log lines over stops, panics, traces and
\* inspection.
CONSTANTS
  Commands = {"launch", "trace", "log", "continue", "pause", "restart", "select", "state"}
  Goroutines = {1}
  MaxFrame = 1
  Stamps = {1, 2}
  Locs = {l1}
  MaxId = 1
  MaxHalts = 1
  MaxLost = 1
  MaxLogs = 1
  TraceMax = 1
SPECIFICATION Spec
INVARIANTS SelectionFresh DeltaBaseline ReportInv
