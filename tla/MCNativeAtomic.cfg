SPECIFICATION NativeSpec
CONSTANTS
    loader = loader
    sink = sink
    account = account
    Loaders <- MCLoaders
    Sink = sink
    Account = account
    NoItem = 0
    Items <- MCItems
    Positions <- MCPositions
    ScalarFields <- MCFields
    ScalarValues <- MCValues
    InitScalar = 0
    Inputs <- MCInputs
    Spots <- MCPositions
    MaxPlays = 1
    MaxSwitches = 1
    MaxTime = 2
    MaxCommands = 0
    Patient = FALSE
    Faults <- AllFaults
PROPERTIES
    LoadsAreAtomic
\* The user may stop for good.
CHECK_DEADLOCK FALSE
