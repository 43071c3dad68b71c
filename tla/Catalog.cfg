SPECIFICATION CatalogSpec
CONSTANTS
    Lower <- MCLower
    Configurations <- MCConfigurations
    First = 1
    Clocks <- MCClocks
    MaxTroubles = 2
    MaxVerdicts = 1
INVARIANTS
    OnlyListedNamesReachUpstream
    
    RulesLeaveACandidate
