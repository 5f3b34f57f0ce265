\* Two payments compete for batches of one.
CONSTANTS
  Payments = {p1, p2}
  Requests = {r1}
  MaxPollFailures = 2
  BatchLimit = 1
  ApiStatuses = {"PENDING_DEPOSIT", "SUCCESS"}
  FaultKinds = {"blank", "crash"}
  MaxFaults = 1
  NoJob = NoJob
SPECIFICATION FairSpec
PROPERTY EventuallySettled UnpaidExpires
