SPECIFICATION StoreSpec
CONSTANTS
    Providers = {"example", "p"}
    Models = {"x", "m"}
    Names = {"balanced", "n"}
    Example = "example"
    ExampleModel = "x"
    Balanced = "balanced"
    Setting = "setting"
    NoRelay = NoRelay
    NoStore = NoStore
    Idle = Idle
    Changes <- Offered
    MaxOps = 3
    MaxCli = 1
    MaxCrashes = 1
INVARIANTS StoreLoads NoUpdateLost
PROPERTY ChangesComeIntoForce
CHECK_DEADLOCK FALSE
