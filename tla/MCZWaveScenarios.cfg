SPECIFICATION ScenarioSpec
CONSTANTS
  info1 = info1
  info2 = info2
  send1 = send1
  send2 = send2
  report = report
  report2 = report2
  infoFunction = infoFunction
  sendFunction = sendFunction
  reportFunction = reportFunction
  Requests = {info1, info2, send1, send2}
  SendRequests <- MCSendRequests
  Functions <- MCFunctions
  Function <- MCFunction
  Payloads <- MCPayloads
  MaxFuncId = 3
  MaxLine = 3
  Reports = {report, report2}
  ReportFunction = reportFunction
  Faults = {"request", "corrupt", "ack", "frame", "garble", "hostAck"}
  MaxFaults = 2
INVARIANTS
  AnswersAreOwn
  NothingGivenUp
  Defined
  ConfirmedReportsArrived
PROPERTIES
  EveryRequestEnds
  EveryReportArrives
CHECK_DEADLOCK FALSE
