CONSTANTS
  PacketSize = 2
  MaxLen = 1
  MaxAddr = 1
  TouchTicks = 2
  MaxRequests = 2
  MaxResets = 0
  LateIsr = FALSE
  AbandonDataOut = FALSE
  ResetInReport = FALSE
SPECIFICATION FairSpec
PROPERTY EveryTransferEnds
CHECK_DEADLOCK FALSE
