SPECIFICATION FairSpec
CONSTANTS
    h1 = h1
    h2 = h2
    Holder <- MCOneHolder
    NoHolder = NoHolder
    RunTimeout = 1
    LeaseTTL = 3
    ReconcileTTL = 2
    CatchupAfter = 2
    WindowGap = 0
    KeepRuns = 1
    StoreDelay = 1
    KillDelay = 0
    MaxTime = 2
    MaxRuns = 2
    MaxManual = 2
INVARIANT BusyAccounts
PROPERTIES BusyClears
