SPECIFICATION Spec
CONSTANTS
    h1 = h1
    h2 = h2
    Holder <- MCHolder
    NoHolder = NoHolder
    RunTimeout = 2
    LeaseTTL = 4
    ReconcileTTL = 2
    CatchupAfter = 3
    WindowGap = 1
    KeepRuns = 1
    StoreDelay = 1
    KillDelay = 1
    MaxTime = 6
    MaxRuns = 2
    MaxManual = 0
SYMMETRY Replicas
INVARIANTS ExclusiveRepository LiveRunRecorded
PROPERTIES FinishedRunIsFinal ImplementsJournal
