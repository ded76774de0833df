CONSTANTS
  MaxReq = 3
  MaxConn = 2
  QueueSize = 2
  Endpoints <- MCInterrupt
  Fds <- MCOneFd
SPECIFICATION Spec
INVARIANTS
  TypeOK
  AtMostOneReply
  TransfersAllocated
  InFlightBounded
  SubmitOrder
PROPERTIES
  ImplementsService
  ImplementsConnection
CHECK_DEADLOCK FALSE
