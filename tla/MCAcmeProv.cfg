SPECIFICATION Spec
CONSTANTS
    Site <- TwoSites
    Primary = "box"
    Validity = 2
    RenewBefore = 1
    Terms = {2, 3}
    TmpSortsLast = TRUE
    MaxDay = 3
    MaxRequests = 1
    MaxFailures = 1
    MaxCrashes = 1
INVARIANTS
    CertificatesRenewed
    MailServesBest
    LinkResolves
CHECK_DEADLOCK FALSE
