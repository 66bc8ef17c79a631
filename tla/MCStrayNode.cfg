\* One server, which may be killed.
SPECIFICATION Spec
CONSTANTS
  Runs = {r1}
  MaxServers = 1
  MayBeKilled = TRUE
INVARIANT NoStrayNode
CHECK_DEADLOCK FALSE
