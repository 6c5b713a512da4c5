\* Two sound cards, the radio's and a dongle; a client that saves and loads.
CONSTANTS
  Saver = {client, main}
  Main = main
  Tune = {t1}
  Number = {0, 1}
  IqSide = IqSide
  Replay = Replay
  Device = {0, 1, IqSide, Replay}
  NoDevice = NoDevice
  NoNumber = NoNumber
  Card = {fdm, dongle}
  FdmCard = fdm
  NoCard = NoCard
  NoSession = NoSession
  Empty = Empty
  Torn = Torn
  Inode = {i1, i2, i3}
  NoInode = NoInode
  MaxSaves = 2
  MaxCrashes = 1
  MaxStarts = 2
  MaxPicks = 1
  MaxChanges = 1
SPECIFICATION BSpec
SYMMETRY InodeSymmetry
VIEW Readable
INVARIANT PickHonoured
PROPERTIES ActsAsStore
CHECK_DEADLOCK FALSE
