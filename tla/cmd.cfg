CONSTANTS
  MaxReq = 3
  MaxConn = 2
  BodyUnits = 2
  QueueSize = 1
  Fds <- MCFds
SPECIFICATION FairSpec
INVARIANTS
  TypeOK
PROPERTIES
  CloseDrains
  WaitingDrains
  BusyDrains
  ImplementsService
  ImplementsConnection
  CloseFreesServer
  NothingWaits
  BusyIsSeen
CHECK_DEADLOCK FALSE
