CONSTANTS
  NoTime = NoTime
  Capacity = {1, 2}
  Temperature = {0}
  ChargeState = {"ENABLE"}
  LackPower = 1
  LowTemp <- MCLowTemp
  HighTemp = 5
  RebootTime = 1
  BacklightOffTime = 1
  FastInterval = 2
  Disturbances = {"key", "readFailure", "lostUevent", "otherUevent", "interrupt"}
SPECIFICATION Spec
INVARIANTS
  IInv
  ScreenIsTimed
  DisplayIsCurrent
PROPERTY HeldBeforeReboot
