\* Two operator requests race the poller over one payment, under every fault.
CONSTANTS
  Payments = {p1}
  Requests = {r1, r2}
  MaxPollFailures = 1
  BatchLimit = 1
  ApiStatuses = {"PENDING_DEPOSIT", "KNOWN_DEPOSIT_TX", "SUCCESS", "REFUNDED"}
  FaultKinds = {"store", "ambiguous", "upstream", "blank", "stop", "crash"}
  MaxFaults = 2
  NoJob = NoJob
CHECK_DEADLOCK FALSE
SPECIFICATION Spec
SYMMETRY Symmetry
INVARIANT TypeOK ReasonMatchesStatus AuditTrailExplains AnnouncedMatchesRow NoExpiryAfterDetection OutcomesAreReal
PROPERTY SettledIsFinal NoticesAreFinal KeepsLedger
