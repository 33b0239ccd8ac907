\* One client at a time, over kills.
CONSTANTS
  Clients = {c1}
  MaxDaemons = 3
  Requests = {"launch", "cmd", "stop", "pause"}
  Faults = {"kill"}
SPECIFICATION Spec
INVARIANTS OneSession SessionReachable
