CONSTANTS
  MaxReq = 2
  MaxConn = 2
  QueueSize = 1
  Endpoints <- MCEndpoints
  Fds <- MCTwoFds
SPECIFICATION Spec
INVARIANT
  NothingLeaked
CHECK_DEADLOCK FALSE
