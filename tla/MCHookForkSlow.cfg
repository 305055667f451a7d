SPECIFICATION Spec
CONSTANTS
  Backlog = 2
  SockCap = 3
  MaxSteps = 4
  MaxServers = 1
  MaxConns = 2
  Forks = TRUE
PROPERTIES SlowWatcherIsDisconnected
CHECK_DEADLOCK FALSE
