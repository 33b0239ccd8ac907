\* pause after the program has exited.
CONSTANTS
  Commands = {"launch", "continue", "pause"}
  Goroutines = {}
  MaxFrame = 0
  Stamps = {1}
  Locs = {l1}
  MaxId = 1
  MaxHalts = 1
  MaxLost = 1
  MaxLogs = 0
  TraceMax = 1
SPECIFICATION Spec
INVARIANTS DaemonSurvives
