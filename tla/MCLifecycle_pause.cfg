\* A pause sent while a resume is blocked.
CONSTANTS
  Clients = {c1, c2}
  MaxDaemons = 1
  Requests = {"cmd", "pause"}
  Faults = {}
SPECIFICATION BlockedSpec
PROPERTIES PauseGetsThrough
