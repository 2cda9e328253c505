CONSTANTS
  RingSize = 4
  PacketSize = 2
  AckRace = FALSE
  ResetMidCall = FALSE
  MaxBytes = 6
  MaxCuts = 3
SPECIFICATION FairSpec
INVARIANTS TypeOK RxIntact PromiseKept
PROPERTIES DropsOnlyWhenFull AlwaysArmedAgain IsBytePipe
CHECK_DEADLOCK FALSE
