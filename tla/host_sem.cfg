\* The class task takes the signal it gave itself.
CONSTANT MsgQueueSize <- MCMsgQueueSize
SPECIFICATION Spec
INVARIANT RegistersWhenInstalled
