SPECIFICATION RebuilderFairSpec
CONSTANTS
    r1 = r1
    r2 = r2
    Replica <- MCReplica
    MaxVersion = 2
    MaxFailures = 1
    MaxCrashes = 1
INVARIANT NoForgottenChange
PROPERTIES NeverBuildsBackwards Converges
