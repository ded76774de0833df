CONSTANTS
  MaxReq = 2
  MaxConn = 2
  QueueSize = 1
  Endpoints <- MCEndpoints
  Fds <- MCTwoFds
SPECIFICATION FairSpec
INVARIANTS
  OwnerServed
PROPERTIES
  FinDrains
  FinFreesServer
CHECK_DEADLOCK FALSE
