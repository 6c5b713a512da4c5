CONSTANTS
  Client = {c1}
  Device = {duo}
  None = None
  Freq <- MCFreq
  DefaultFreq = 0
  TokenThread = {poll}
  ChannelThread = {commands}
  MaxBoots = 1
  SaveMayFail = FALSE
SPECIFICATION FairSpec
PROPERTIES SelectDeviceRespawns
CHECK_DEADLOCK FALSE
