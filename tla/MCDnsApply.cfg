CONSTANTS
    r1 = r1
    z1 = z1
    z2 = z2
    Replica <- OneReplica
    Zone <- TwoZones
    SignedZone <- OneZone
    MailZone <- MailZones
    Value <- ThreeValues
    PerDay = 2
    Validity = 3
    Margin = 2
    MaxDay = 3
    MaxChanges = 2
    MaxFailures = 1
    MaxCrashes = 1
SPECIFICATION Spec
INVARIANTS
    SettledIsServed
    SignaturesValid
PROPERTY ServedChangeGrowsSerial
