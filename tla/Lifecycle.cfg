CONSTANTS
  Client = {c1}
  Device = {duo}
  None = None
  Freq = {0}
  DefaultFreq = 0
  TokenThread = {poll}
  ChannelThread = {commands}
  MaxBoots = 2
  SaveMayFail = TRUE
SPECIFICATION FairSpec
INVARIANTS SavedIsLastWord
PROPERTIES SessionSurvives CleanStopEnds RestartStopsServing
CHECK_DEADLOCK FALSE
