CONSTANTS
  TxSize = 4
  RxSize = 2
  MaxBytes = 6
  MaxArrivals = 2
SPECIFICATION Spec
INVARIANTS TypeOK WrittenInOrder NoEcho ReceivedInOrder MoreData
PROPERTIES FlushMeansSent CallsReturn
CHECK_DEADLOCK FALSE
