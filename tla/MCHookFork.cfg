SPECIFICATION Spec
CONSTANTS
  Backlog = 2
  SockCap = 3
  MaxSteps = 3
  MaxServers = 2
  MaxConns = 3
  Forks = TRUE
INVARIANTS StepsHaveAPeer OpenServerIsReachable
\* The training run ends with its last server closed.
CHECK_DEADLOCK FALSE
