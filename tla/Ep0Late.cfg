CONSTANTS
  PacketSize = 2
  MaxLen = 2
  MaxAddr = 1
  TouchTicks = 2
  MaxRequests = 2
  MaxResets = 0
  LateIsr = TRUE
  AbandonDataOut = FALSE
  ResetInReport = FALSE
SPECIFICATION Spec
INVARIANT AddressInStep
CHECK_DEADLOCK FALSE
