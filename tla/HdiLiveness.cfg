CONSTANTS
  l1 = l1
  l2 = l2
  w1 = w1
  c1 = c1
  None = None
  Listener <- MCListener
  Worker <- MCWorker
  Client <- MCClient
  SetsThreshold = TRUE
  WriterFirst = FALSE
  MaxHdi = 2
  MaxManager = 1
  MaxStart = 1
  MaxFailure = 1
SPECIFICATION FairSpec
CHECK_DEADLOCK FALSE
PROPERTIES
  GetsConnected
  CommandReturns
