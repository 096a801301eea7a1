CONSTANTS
  hdi = hdi
  init = init
  dump = dump
  HdiThreads <- MCHdi
  InitThreads <- NoThread
  DumpThreads <- MCDump
  Capacity <- MCCapacity
  ChargeState = {"NONE", "ENABLE"}
  Presence = {TRUE}
  ShutdownThreshold = 1
  IsHibernateEnable = TRUE
  HibernateEvents = TRUE
  DeviceModes = {TRUE, FALSE}
SPECIFICATION FairSpec
CONSTRAINT SequentialYet
INVARIANTS
  IInv
  TimerOnlyWhenExhausted
PROPERTY EmptyBatteryAsks
