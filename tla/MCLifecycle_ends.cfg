\* Every request ends, although daemons go idle, are killed and start too slowly.
CONSTANTS
  Clients = {c1, c2}
  MaxDaemons = 2
  Requests = {"launch"}
  Faults = {"idle", "kill", "slow"}
SPECIFICATION FairSpec
PROPERTIES RequestsEnd
