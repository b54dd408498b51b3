CONSTANTS
    h1 = h1
    h2 = h2
    Holder <- TwoHolders
    NoHolder = NoHolder
    Domain <- OneDomain
    Outcome <- Findings
    LeaseTTL = 1
    CheckEvery = 1
    ReportEvery = 1
    MaxTime = 2
    MaxEvents = 2
SPECIFICATION Spec
SYMMETRY Processes
INVARIANTS
    OnsetsKept
    RunsAccountedFor
PROPERTY DigestsSpaced
