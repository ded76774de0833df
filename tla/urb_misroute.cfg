CONSTANTS
  MaxReq = 2
  MaxConn = 2
  QueueSize = 1
  Endpoints <- MCEndpoints
  Fds <- MCTwoFds
SPECIFICATION Spec
INVARIANT
  ReplyToOwner
CHECK_DEADLOCK FALSE
