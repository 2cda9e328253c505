CONSTANTS
  BlPacketSize = 4
  BlAckRace = FALSE
  NvmPage = 4
  AppStart = 4
  FlashEnd = 16
  Window = 8
  EepromSize = 2
  PageBuf = 4
  ForeignArmed = FALSE
  MaxResets = 3
  MaxSessions = 3
  Abandon = FALSE
  Script <- UploadScript
  Noise = {}
SPECIFICATION FairSpec
INVARIANTS TypeOK AnswersRight AcknowledgedIsStored BootIntact
PROPERTIES StaysAsAsked SessionEnds
CHECK_DEADLOCK FALSE
