SPECIFICATION FairSpec
INVARIANT TypesHold
PROPERTIES
  ClientKeepsPromise ClientProgress LossRetried CloseEnds ServerProgress PulseEnds InputsRead
  ClockComesBack MainProgress
CHECK_DEADLOCK FALSE
