CONSTANTS
  Prefix <- MCPrefix
  Register <- PttRegister
  Value <- MCValue
  Command <- PttCommands
  Core <- PttRegister
  Initial = 0
  Default = 0
  Capacity = 2
  MaxSends = 3
  MaxTurns = 1
SPECIFICATION Spec
INVARIANTS LastPttWins
CHECK_DEADLOCK FALSE
