CONSTANTS
  RingSize = 4
  PacketSize = 2
  AckRace = FALSE
  ResetMidCall = TRUE
  MaxBytes = 3
  MaxCuts = 3
SPECIFICATION Spec
INVARIANT NoPhantomRead
CHECK_DEADLOCK FALSE
