CONSTANTS
  MaxReq = 2
  Lengths <- MCLengths
  Devices <- MCDevices
SPECIFICATION Spec
INVARIANTS
  TypeOK
  ClientFramed
  NoMoreThanAsked
  AnswerFits
CHECK_DEADLOCK FALSE
