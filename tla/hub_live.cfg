\* Channels just large enough to drop nothing.
CONSTANTS
  Conns = {c1, c2}
  Payments = {"p1"}
  CustomerRooms = {"p1"}
  ControlCap = 1
  BroadcastCap = 4
  SendCap = 2
  MaxMessages = 2
  MaxPings = 0
  Stoppable = FALSE
CHECK_DEADLOCK FALSE
SPECIFICATION FairSpec
PROPERTY HandlersProceed PumpEnds EventuallyDelivered
