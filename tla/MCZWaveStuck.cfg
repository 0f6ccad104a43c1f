SPECIFICATION FairSpec
CONSTANTS
  info1 = info1
  info2 = info2
  send1 = send1
  send2 = send2
  report = report
  report2 = report2
  infoFunction = infoFunction
  sendFunction = sendFunction
  reportFunction = reportFunction
  Requests = {info1, info2}
  SendRequests <- MCSendRequests
  Functions <- MCFunctions
  Function <- MCFunction
  Payloads <- MCPayloads
  MaxFuncId = 2
  MaxLine = 2
  Reports = {}
  ReportFunction = reportFunction
  Faults = {"request"}
  MaxFaults = 3
PROPERTIES
  EveryRequestEnds
CHECK_DEADLOCK FALSE
