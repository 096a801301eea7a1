SPECIFICATION Spec
CONSTANTS
  Hdi = Hdi
  Ipc = Ipc
  Thread <- MCThread
  Reports <- MCReports
  LightLevels <- MCLightLevels
  ThresholdConfs <- MCThresholdConfs
  MaxTime = 1
SYMMETRY Symmetry
INVARIANTS
  IInv
  LightFollowsReport
  EstimateIsOfThisCharge
  LevelIsFirstThreshold
