CONSTANTS
  hdi = hdi
  init = init
  dump = dump
  t1 = t1
  t2 = t2
  NoTask = NoTask
  HdiThreads <- MCHdi
  InitThreads <- MCInit
  DumpThreads <- MCDump
  Capacity <- MCCapacity
  ChargeState = {"NONE", "ENABLE"}
  Presence = {TRUE}
  ShutdownThreshold = 1
  Task = {t1, t2}
  DeviceModes = {TRUE, FALSE}
SPECIFICATION FairSpec
CONSTRAINT NoOverlapYet
INVARIANTS
  IInv
  HandledInfoIsCurrent
  WaitingTaskIsHandled
  ChargingDisarms
  ExhaustedArms
PROPERTY ExhaustedShutsDown
