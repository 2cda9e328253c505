CONSTANTS
  RingSize = 4
  PacketSize = 2
  AckRace = FALSE
  ResetMidCall = FALSE
  MaxBytes = 3
  MaxCuts = 2
SPECIFICATION Spec
PROPERTY FlushMeansSent
CHECK_DEADLOCK FALSE
