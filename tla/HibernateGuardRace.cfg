CONSTANTS
  hdi = hdi
  init = init
  dump = dump
  HdiThreads <- MCHdi
  InitThreads <- NoThread
  DumpThreads <- NoThread
  Capacity <- MCCapacity
  ChargeState = {"NONE", "ENABLE"}
  Presence = {TRUE}
  ShutdownThreshold = 1
  IsHibernateEnable = TRUE
  HibernateEvents = TRUE
  DeviceModes = {FALSE}
SPECIFICATION Spec
INVARIANT GuardProtectsTimer
