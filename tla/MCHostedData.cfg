CONSTANTS
    Domain <- Domains
    Boxes <- TwoBoxes
    Locals <- LocalParts
    External <- Elsewhere
    Destinations <- AliasDestinations
    CustomRecord <- CustomRecords
    SecondaryNS <- Servers
    MaxDNSRecordsPerZone = 2
    MaxUsers = 2
    MaxAliases = 1
SPECIFICATION HostedSpec
INVARIANTS
    MXMatchesDelivery
    MailReachesOwners
    CustomRecordsLand
    SitesResolveHere
