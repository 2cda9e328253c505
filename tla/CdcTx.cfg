CONSTANTS
  RingSize = 4
  PacketSize = 2
  AckRace = FALSE
  ResetMidCall = FALSE
  MaxBytes = 5
  MaxCuts = 3
SPECIFICATION FairSpec
INVARIANTS TypeOK StreamIntact FlightOwned
PROPERTIES ArmedStable ZlpEndsTransfer EventuallyDrained IsBytePipe
CHECK_DEADLOCK FALSE
