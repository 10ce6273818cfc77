SPECIFICATION FairSpec
CONSTANTS
  ListenMs = 2
  RestMs = 2
  MaxFaults = 0
  MaxUrcs = 0
  MaxOut = 3
  MaxAttaches = 1
  MaxUsbFaults = 0
  MaxDetaches = 0
CHECK_DEADLOCK FALSE
PROPERTIES
  SequencerOverReadyDriver
  StalledOnlyByALoss
