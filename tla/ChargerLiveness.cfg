CONSTANTS
  NoTime = NoTime
  Capacity = {1}
  Temperature = {0}
  ChargeState = {"NONE", "FULL"}
  LackPower = 1
  LowTemp <- MCLowTemp
  HighTemp = 5
  RebootTime = 1
  BacklightOffTime = 2
  FastInterval = 1
  Disturbances = {"key"}
SPECIFICATION FairSpec
PROPERTIES
  HeldKeyReboots
  ScreenTurnsOff
  BatteryStaysWatched
