\* Two clients, two daemons; the idle goroutine, kills and panics.
CONSTANTS
  Clients = {c1, c2}
  MaxDaemons = 2
  Requests = {"launch", "pause", "down"}
  Faults = {"idle", "kill", "panic"}
SPECIFICATION Spec
INVARIANTS TypeOK IInv DeadSocketMeansKill OneHolder
SYMMETRY ClientSymmetry
PROPERTIES ImplementsCalls NoDlvLeft
