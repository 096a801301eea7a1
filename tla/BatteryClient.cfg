SPECIFICATION FairSpec
CONSTANTS
    ui = ui
    worker = worker
    Thread <- MCThread
    Entry <- MCEntry
    Grants <- MCGrants
    MaxStarts = 2
    MaxFaults = 1
INVARIANTS
    IInv
    DeadProxyHasNotice
    FailsOnlyWhenDisturbed
    FailureIsTold
PROPERTIES
    LivingProxyIsKept
    CallsRecover
    StatusCompletes
