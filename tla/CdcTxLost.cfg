CONSTANTS
  RingSize = 4
  PacketSize = 2
  AckRace = TRUE
  ResetMidCall = FALSE
  MaxBytes = 3
  MaxCuts = 1
SPECIFICATION PollingSpec
PROPERTY EventuallyDrained
CHECK_DEADLOCK FALSE
