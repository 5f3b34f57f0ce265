\* Stale whole-row writes change terminal rows.
CONSTANTS
  Payments = {p1}
  Requests = {r1}
  MaxPollFailures = 2
  BatchLimit = 1
  ApiStatuses = {"PENDING_DEPOSIT", "KNOWN_DEPOSIT_TX", "SUCCESS", "FAILED"}
  FaultKinds = {}
  MaxFaults = 0
  NoJob = NoJob
SPECIFICATION Spec
PROPERTY TerminalIsFinal
