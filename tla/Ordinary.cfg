SPECIFICATION Spec
CONSTANTS
    Requests = {1, 2}
    Keys = {"k1", "k2"}
    Slots <- OneSlot
    MaxRetries = 2
    Backoff <- BackoffTimes
    Timeout = 2
    MaxWait = 1
    Rests = {1, 3}
    LastArrival = 0
    MaxTime = 3
 
PROPERTY EveryRequestAnswered
CHECK_DEADLOCK FALSE
