\* A context may end before the hub has taken the subscription.
CONSTANTS
  Conns = {c1, c2}
  Payments = {"p1"}
  CustomerRooms = {"p1"}
  ControlCap = 2
  BroadcastCap = 1
  SendCap = 1
  MaxMessages = 1
  MaxPings = 0
  Stoppable = FALSE
CHECK_DEADLOCK FALSE
SPECIFICATION Spec
INVARIANT UnregisterRemoves
