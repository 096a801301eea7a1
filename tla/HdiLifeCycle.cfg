CONSTANTS
  l1 = l1
  l2 = l2
  w1 = w1
  c1 = c1
  None = None
  Listener <- MCListener
  Worker <- MCWorker
  Client <- MCClient
  SetsThreshold = FALSE
  WriterFirst = TRUE
  MaxHdi = 2
  MaxManager = 2
  MaxStart = 1
  MaxFailure = 1
SYMMETRY Symmetry
SPECIFICATION Spec
CHECK_DEADLOCK FALSE
INVARIANTS
  IInv
  NoNullUse
  RunningServiceIsConnected
  StoppedServiceIsSilent
