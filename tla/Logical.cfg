\* A protected and a common request share two keys.
\* When every request has ended and the clock has stopped nothing is left to do.
SPECIFICATION FairSpec
CONSTANTS
    Keys = {"k1", "k2"}
    Models = {"big", "mid"}
    Strong = {"big", "mid"}
    BackoffBase = 1
    BackoffMax = 1
    ShortRetry = 1
    Vendors = {"bounded", "capped"}
    VendorPolicy <- MCVendorPolicy
    KeyPolicy <- MCKeyPolicy
    ModelCap <- MCModelCap
    Supports <- MCSupports
    Logical = {"balanced"}
    Tasks = {"classify", "balanced"}
    Requests = {guarded, common}
    guarded = guarded
    common = common
    Route <- MCRoute
    NoPair = NoPair
    KeyCooldown = 2
    PairCooldown = 1
    AdmissionPoll = 1
    ProbeDelay = 1
    MaxShuts = 1
    MaxArrival = 0
    MaxTime = 2
INVARIANT SelectionIsAcquirable
PROPERTIES ReserveCounted  EveryRequestEnds
CHECK_DEADLOCK FALSE
