SPECIFICATION Spec
CONSTANTS
  plain = plain
  send1 = send1
  send2 = send2
  info = info
  sendData = sendData
  Requests = {plain, send1}
  SendRequests <- MCSendRequests
  Functions <- MCFunctions
  Function <- MCFunction
  Payloads = {1}
  MaxFuncId = 2
  MaxLine = 2
INVARIANTS
  TypeOK
  HeadOnTheWire
  HeadIsGuarded
  GiveUpAfterTries
PROPERTIES
  FinishedIsFinal
  ImplementsQueue
CHECK_DEADLOCK FALSE
