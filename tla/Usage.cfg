SPECIFICATION HistorySpec
CONSTANTS
    MaxRows = 2
    MaxFileBytes = 2
    MaxArchive = 2
    Retention = 0
    LastDay = 2
    MaxFailures = 1
    MaxSyncs = 2
    NoLog = NoLog
    NoCleanup = NoCleanup
    Idle = Idle
INVARIANTS HistoryExact DashboardCounts
PROPERTY ImplementsLog
CONSTRAINT OneReader
CHECK_DEADLOCK FALSE
