SPECIFICATION Spec
CONSTANTS
    Requests = {"r1", "r2", "r3"}
    MaxConcurrent = 1
    MaxStarts = 2
INVARIANT NothingLeaks
PROPERTY BusyOnlyBehindGivenUp
PROPERTY PlacesComeFree
CHECK_DEADLOCK FALSE
