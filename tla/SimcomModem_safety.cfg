SPECIFICATION FairSpec
CONSTANTS
  ListenMs = 3
  RestMs = 2
  MaxFaults = 1
  MaxUrcs = 1
  MaxOut = 3
INVARIANTS
  TypeOK
  OneTransferPerPipe
  OneCommandAtATime
  AnswersMatchState
  SilentUntilReady
PROPERTIES
  LossIsForever
  ImplementsSession
  StalledOnlyByALoss
CHECK_DEADLOCK FALSE
