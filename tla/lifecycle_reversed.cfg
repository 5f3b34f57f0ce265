\* The Update error ignored on giving up.
CONSTANTS
  Payments = {p1}
  Requests = {r1}
  MaxPollFailures = 1
  BatchLimit = 1
  ApiStatuses = {"PENDING_DEPOSIT", "KNOWN_DEPOSIT_TX", "SUCCESS", "FAILED"}
  FaultKinds = {"store", "upstream"}
  MaxFaults = 2
  NoJob = NoJob
SPECIFICATION Spec
PROPERTY TerminalNoticeIsFinal
