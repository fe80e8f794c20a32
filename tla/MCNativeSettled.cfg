SPECIFICATION NativeSpec
CONSTANTS
    loader = loader
    sink = sink
    account = account
    Loaders <- MCLoaders
    Sink = sink
    Account = account
    NoItem = 0
    Items <- MCItems
    Positions <- MCPositions
    ScalarFields <- MCFields
    ScalarValues <- MCValues
    InitScalar = 0
    Inputs <- MCInputs
    Spots <- MCPositions
    MaxPlays = 2
    MaxSwitches = 0
    MaxTime = 1
    MaxCommands = 2
    Patient = TRUE
    Faults <- NoFaults
INVARIANTS
    SettledPhase
    SettledTracking
\* The user may stop for good.
CHECK_DEADLOCK FALSE
