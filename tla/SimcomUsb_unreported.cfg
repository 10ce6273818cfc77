SPECIFICATION Spec
CONSTANTS
  ListenMs = 2
  RestMs = 2
  MaxFaults = 0
  MaxUrcs = 0
  MaxOut = 3
  MaxAttaches = 2
  MaxUsbFaults = 0
  MaxDetaches = 1
CHECK_DEADLOCK FALSE
PROPERTIES
  EveryTransferReported
