CONSTANTS
    Map <- OneMap
    Value <- TwoValues
    MaxChanges = 1
    MaxRecoveries = 1
    MaxTroubles = 1
SPECIFICATION FairSpec
INVARIANTS
    TextSpeaksForDb
    SettledIsCurrent
PROPERTY EventuallyCurrent
