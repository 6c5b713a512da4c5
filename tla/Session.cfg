\* Two clients of one server, two things done, one connection lost or inbox full.
CONSTANTS
  Client = {c1, c2}
  Toggle = {"nb"}
  Device = {d1}
  NoDevice = NoDevice
  Nothing = Nothing
  MaxActs = 2
  MaxFaults = 1
SPECIFICATION Spec
INVARIANTS ShowsSession ClicksStand
CHECK_DEADLOCK FALSE
SYMMETRY Symmetry
