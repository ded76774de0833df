CONSTANTS
  MaxReq = 2
  MaxConn = 2
  QueueSize = 1
  Endpoints <- MCEndpoints
  Fds <- MCTwoFds
SPECIFICATION Spec
INVARIANT
  FlagMeansTransfer
CHECK_DEADLOCK FALSE
