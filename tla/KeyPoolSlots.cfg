\* Slots, ceilings and pacing of three keys shared by three requests.
\* The disk is left to the run of the file: no write, and no orderly shutdown.
SPECIFICATION Spec
CONSTANTS
    Models = {"glm", "raw"}
    NoModel = NoModel
    Policy <- SlotsPolicy
    Minute = 2
    NumKeys = 3
    Pool <- SlotsPool
    Vendors = {"shared", "direct"}
    VendorPolicy <- SlotsVendors
    ModelPolicy <- SlotsModels
    Requests = {r1, r2, r3}
    NoLease = NoLease
    Asked = {"glm", "raw"}
    Outcome <- SlotsOutcomes
    WriteResults = {}
    PersistDelay = 5
    SafetyNet = 5
    MaxTime = 2
SYMMETRY RequestSymmetry
INVARIANTS SlotsMatchHolders CeilingsHold
PROPERTIES ImplementsLedger 
