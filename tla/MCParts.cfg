SPECIFICATION Spec
CONSTANTS
  Degrees = {0, 31, 121}
  LongMinutes = {10, 59}
  Fractions = {0, 4286, 343286, 999999}
  Lengths = {4, 6}
  Speeds = {0, 9, 153, 255, 256, 1000}
  ServerSlots = 1
  ServerBytes = 3
  SwapSlots = 2
  ClientSlots = 2
  Sockets = 2
  Times = {0, 200}
  ClockTimes = {"t1", "t2"}
  BusFailures = 3
  FlashData = {"d1"}
  Restarts = 1
  FrameChunk = 3
  FrameHeaders = {2}
  FrameBytes = 1
  Fragments = 2
  LostBlocks = 1
INVARIANTS
  TypesHold PositionAsReported FlashKeepsItsWord ConnectionsKept FramesOwned LevelAsAsked
  ClocksAgree
PROPERTIES LocalTime OthersKept MessageWhole
CHECK_DEADLOCK FALSE
