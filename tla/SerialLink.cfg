CONSTANTS
  Mode = {"usb", "lsb"}
  Other = "unknown"
  Attempts = 3
  BufPieces = 3
  MaxStarts = 2
  MaxTurns = 1
  MaxBacklog = 3
SPECIFICATION Spec
INVARIANTS FreshUnlessLate FilterOfMode
PROPERTIES ExchangeShrinks PortGivenBack
CHECK_DEADLOCK FALSE
