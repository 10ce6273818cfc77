SPECIFICATION UsbFairSpec
CONSTANTS
  MaxAttaches = 3
  MaxFaults = 2
  MaxMoving = 2
INVARIANTS
  UsbTypeOK
  NoStaleHandles
  ReadyMeansOpen
  NoStaleAnswer
  RequestPending
PROPERTIES
  AttachSettles
CHECK_DEADLOCK FALSE
