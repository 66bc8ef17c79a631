\* Three servers in turn, any of which may be killed, two runs; a Ctrl-C may reach the node.
SPECIFICATION Spec
CONSTANTS
  Runs = {r1, r2}
  MaxServers = 3
  MayBeKilled = TRUE
INVARIANTS
  TypeOK
  NoStrayUnlessKilled
PROPERTIES
  ConnectedClientsGetAVerdict
  ShutdownCompletes
\* All the servers may have been started and ended.
CHECK_DEADLOCK FALSE
