CONSTANTS
  MaxReq = 2
  MaxConn = 1
  QueueSize = 1
  Endpoints <- MCEndpoints
  Fds <- MCOneFd
SPECIFICATION FairSpec
PROPERTY
  ResetFreesServer
CHECK_DEADLOCK FALSE
