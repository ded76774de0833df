\* The class and daemon tasks under every plugging and unplugging.
CONSTANT MsgQueueSize <- MCMsgQueueSize
SPECIFICATION FairSpec
INVARIANTS
  TypeOK
  AssertsHold
  HandleOpen
  NoMutualWait
  WaiterServed
PROPERTIES
  UnplugRecovers
  UnplugDrains
