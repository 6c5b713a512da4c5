SPECIFICATION ASpec
CONSTANTS
  FrameSize = 2
  DemodSize = 1
  Capacity = 1
  Lag = 1
INVARIANTS
  SwitchIsClean
PROPERTIES
  UsbDrained
  FallsBack
  AllEnd
CHECK_DEADLOCK FALSE
