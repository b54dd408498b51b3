CONSTANTS
    s1 = s1
    s2 = s2
    Session <- TwoSessions
    Enabled <- Either
    MaxChallengeAttempts = 2
    MaxIssued = 2
    MaxPasswords = 2
    MaxTroubles = 1
SPECIFICATION Spec
SYMMETRY Sessions
CONSTRAINT OneSetup
INVARIANTS
    SameRoot
    SinglePasswordSlot
    Recoverable
    AttemptsBounded
    SlotOpensOrAcknowledged
CHECK_DEADLOCK FALSE
