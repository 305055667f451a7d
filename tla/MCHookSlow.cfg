SPECIFICATION Spec
CONSTANTS
  Backlog = 2
  SockCap = 3
  MaxSteps = 5
  MaxServers = 1
  MaxConns = 4
  Forks = FALSE
INVARIANTS NoGapWithinConnection LossNeedsBacklogOverrun
PROPERTIES NewestStepArrives SlowWatcherIsDisconnected
\* The training run ends with its server closed.
CHECK_DEADLOCK FALSE
