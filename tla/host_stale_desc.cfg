\* Descriptors outlive the device they describe.
CONSTANT MsgQueueSize <- MCMsgQueueSize
SPECIFICATION Spec
INVARIANT AvailableMeansDevice
