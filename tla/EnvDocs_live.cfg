SPECIFICATION SiteFairSpec
CONSTANTS
    Fields <- MCFields
    Runs = {"r1"}
    HasKey = TRUE
    Faults = {"asmRead", "asmWrite"}
    Console = {"rotate"}
    MaxSecret = 2
    MaxKey = 2
    IMAGES = {"nginx", "oauth2-proxy"}
    FlagSets <- MCFlagSets
    SiteFaults = {"ecr", "crane", "kubectl", "dns"}
INVARIANTS SiteTypeOK DnsLast
PROPERTY SiteComesUp
