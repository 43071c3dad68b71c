\* Every outcome on one key, in every order of three overlapping requests; what the
\* cooldown file holds of it, and what a crash may forget.
SPECIFICATION HSpec
CONSTANTS
    Models = {"m1"}
    NoModel = NoModel
    Policy <- HealthPolicy
    Minute = 2
    NumKeys = 1
    Pool <- HealthPool
    Vendors = {"shared"}
    VendorPolicy <- OneVendor
    ModelPolicy <- Ungoverned
    Requests = {r1, r2, r3}
    NoLease = NoLease
    Asked = {"m1"}
    Outcome <- HealthOutcomes
    WriteResults = {TRUE, FALSE}
    PersistDelay = 1
    SafetyNet = 2
    MaxTime = 3
SYMMETRY RequestSymmetry
INVARIANTS ProtectedCooldownHolds StreakStillBlocked QuietFileMirrorsCooldowns
PROPERTY CrashLosesOnlyRecent
