CONSTANTS
  Prefix <- MCPrefix
  Register <- MCRegister
  Value <- MCValue
  Command <- MCCommands
  Core <- MCCore
  Initial = 0
  Default = 0
  Capacity = 2
  MaxSends = 2
  MaxTurns = 1
SPECIFICATION FairSpec
INVARIANTS LastCommandWins
PROPERTIES EchoShowsCommand EchoNeverRegresses PublishedCatchesUp CommandsServed TasksStop
CHECK_DEADLOCK FALSE
