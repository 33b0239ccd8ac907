\* Every way to resume and to interrupt, over exits, restarts and traces, with
\* up to two Commands abandoned.
CONSTANTS
  Commands = {"launch", "trace", "continue", "step", "until", "pause", "restart"}
  Goroutines = {}
  MaxFrame = 0
  Stamps = {1}
  Locs = {l1}
  MaxId = 1
  MaxHalts = 1
  MaxLost = 2
  MaxLogs = 0
  TraceMax = 2
SPECIFICATION FairSpec
INVARIANTS TypeOK IInv OnlyAbandonedRuns ReportIsCurrent
PROPERTIES CallsReturn
