CONSTANTS
  DynBuf = 4
  Lens = {1, 4}
  MaxCalls = 2
  OutBuf = 6
  RxRing = 6
  EventLen = 2
  RecvMax = 4
  MidiRing = 4
  MaxEvents = 4
  AckRace = FALSE
  MaxBusEvents = 2
SPECIFICATION Spec
INVARIANTS TypeOK CollectedInOrder NothingStale NoEventMissing
PROPERTIES SuccessMeansCollected AlwaysReturns EventsRead
CHECK_DEADLOCK FALSE
