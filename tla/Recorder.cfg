\* Two recordings after each other, in the same file or in two.
CONSTANTS
  Client = {c1}
  Path = {p1, p2}
  NoPath = NoPath
  QueueSize = 2
  MaxCmds = 3
  MaxRecs = 2
  MaxBlocks = 1
SPECIFICATION FairSpec
INVARIANTS OneWriter StoppedIsTold RecordingKept
PROPERTIES ShutdownEnds StopObeyed
CHECK_DEADLOCK FALSE
