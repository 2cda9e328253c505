CONSTANTS
  PacketSize = 2
  MaxLen = 2
  MaxAddr = 1
  TouchTicks = 2
  MaxRequests = 2
  MaxResets = 0
  LateIsr = FALSE
  AbandonDataOut = TRUE
  ResetInReport = FALSE
SPECIFICATION Spec
INVARIANT SetupFresh
CHECK_DEADLOCK FALSE
