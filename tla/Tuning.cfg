CONSTANTS
  HwClient = {"wsjtx"}
  DemodClient = {"fldigi"}
  Reader = {"wsjtx"}
  MaxConns = 1
  CatCapacity = 1
  Freq = {1, 2}
  RadioMode = {"usb", "am"}
  SoftMode = {"sam"}
  Parked = "am"
  None = None
  BarMode = {"usb", "am", "sam"}
  Lag = 1
  FirstFreq = {1}
  Start = {"usb"}
  MaxInputs = 2
SPECIFICATION Spec
INVARIANTS HiddenRadioKept
PROPERTIES AllAgree ConnsEnd
CHECK_DEADLOCK FALSE
