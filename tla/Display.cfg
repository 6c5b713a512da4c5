CONSTANTS
  ZoomMax = 40
  Bins = 16
  MaxKnobs = 15
  Device = {"iq", "card", "fdm"}
  AudioKind = {"card"}
  AudioInput = {"card", "fdm"}
  Averaging = 2
  FftQueue = 1
  MaxQueue = 2
  MaxPending = 2
  Height = 3
  MaxFrames = 4
  MaxPicks = 2
  MaxFaults = 1
SPECIFICATION DSpec
INVARIANTS RowsInOrder PendingIsRecent NoIqUnderAudio WindowWhole
CHECK_DEADLOCK FALSE
