SPECIFICATION Spec
CONSTANTS
  Backlog = 2
  SockCap = 3
  MaxSteps = 1
  MaxServers = 2
  MaxConns = 4
  Forks = FALSE

PROPERTIES StartedServerIsPickedUp
CHECK_DEADLOCK FALSE
