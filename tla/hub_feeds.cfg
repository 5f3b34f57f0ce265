\* Tiny channels: everything overflows.
CONSTANTS
  Conns = {c1, c2}
  Payments = {"p1", "p2"}
  CustomerRooms = {"p1"}
  ControlCap = 1
  BroadcastCap = 2
  SendCap = 1
  MaxMessages = 2
  MaxPings = 1
  Stoppable = TRUE
CHECK_DEADLOCK FALSE
SPECIFICATION Spec
SYMMETRY Symmetry
INVARIANT TypeOK FeedTellsTheRoom PanicNeedsGhost UnregisteredIsOut
