CONSTANTS
    q1 = q1
    q2 = q2
    Request <- TwoRequests
    MaxAttempts = 2
    MaxUsers = 2
    MaxMinted = 1
    MaxCreds = 2
    MaxFailures = 1
SPECIFICATION Spec
SYMMETRY Requests
INVARIANTS
    AdminRemains
    OneFirstAdmin
    CredentialsDieWithRole
    GuessesBounded
