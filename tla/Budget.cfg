SPECIFICATION Spec
CONSTANTS
    Requests = {1, 2, 3}
    Logical = {3}
    capped = capped
    uncapped = uncapped
    Vendors = {capped, uncapped}
    Cap <- VendorCaps
    Total = 3
    Reserves = {0, 1, 2}
    Charges <- TwoCharges
    NoFile = NoFile
    MaxDay = 2
    MaxFaults = 1
    MaxAttempts = 1
INVARIANTS ReservationsExact CapHolds UsedIsOfToday
CHECK_DEADLOCK FALSE
