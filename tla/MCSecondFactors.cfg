CONSTANTS
    r1 = r1
    r2 = r2
    s1 = s1
    k1 = k1
    Request <- Requests
    Secret <- Secrets
    Key <- Keys
    ChallengeTTL = 1
    MaxStep = 2
    MaxEnrolled = 2
    MaxChallenges = 2
    MaxRequests = 5
    MaxFailures = 1
SYMMETRY Symmetry
SPECIFICATION Spec
INVARIANTS
    OneUsePerCode
    CeremonyCompletesOnce
    SlotsHavePasskeys
CHECK_DEADLOCK FALSE
