CONSTANTS
  PacketSize = 2
  MaxLen = 5
  MaxAddr = 1
  TouchTicks = 2
  MaxRequests = 3
  MaxResets = 1
  LateIsr = FALSE
  AbandonDataOut = FALSE
  ResetInReport = FALSE
SPECIFICATION FairSpec
INVARIANTS TypeOK AddressInStep SetupFresh ReadComplete
PROPERTIES TouchAfterStatus TransferEnds TouchHonoured
CHECK_DEADLOCK FALSE
