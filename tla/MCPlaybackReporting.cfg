SPECIFICATION ReportingFairSpec
CONSTANTS
    loader = loader
    sink = sink
    account = account
    Loaders <- MCLoaders
    Sink = sink
    Account = account
    Callers <- MCThreads
    Jobs <- MCJobs
    Spots <- MCSpots
    MaxPlays = 2
    MaxSwitches = 1
    MaxReports = 4
    MaxCalls = 8
    MAX_PENDING_REPORTS = 2
INVARIANTS
    TrackedForThisAccount
    ResourcesFollowTrackedPlay
    SessionsAreClosed
    PlaysOpenOnce
    OneProgressPerGeneration
    BoundariesKeepOrder
    WorkerIsAwake
    ShutdownDrains
    ClosesReachServer
PROPERTIES
    ShutdownReturns
\* Every request, account change and report may be used up.
CHECK_DEADLOCK FALSE
