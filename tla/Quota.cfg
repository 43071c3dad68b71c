\* Late evidence, late reports, lost answers, failed writes and restarts.
SPECIFICATION HSpec
CONSTANTS
    NumDeployments = 1
    QuotaPolicy <- OnePolicy
    Requests = {r1, r2}
    Nobody = Nobody
    NoClaim = NoClaim
    NoWindow = NoWindow
    RetryAfters = {0, 2}
    WriteResults = {TRUE, FALSE}
    Corruption = {TRUE, FALSE}
    ClaimLease = 1
    ProbeLimit = 1
    ReportTries = 2
    MaxClaims = 2
    MaxTime = 3
SYMMETRY RequestSymmetry
INVARIANTS FileKeepsVerdicts ReopenNeedsFreshProbe ReserveNeedsQuota
