CONSTANTS
  report = report
  init = init
  CesThread = cesThread
  ReportThreads <- MCReport
  InitThreads <- MCInit
  Capacity = {20, 21}
  PluggedType = {"USB"}
  ChargeState = {"FULL"}
  ChargeType = {"NONE", "WIRED_QUICK"}
  Uevent = {"plain", "broadcast", "custom", "command"}
  LowCapacity = 20
SPECIFICATION Spec
CONSTRAINT NotTornYet
INVARIANTS
  IInv
  SubscribersAreCurrent
PROPERTY KeepsPromise
