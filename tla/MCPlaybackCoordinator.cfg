SPECIFICATION FairSpec
CONSTANTS
    i1 = i1
    mpv = mpv
    loader = loader
    NoItem = NoItem
    Items <- MCItems
    Positions <- MCPositions
    ScalarFields <- MCScalarFields
    ScalarValues <- MCScalarValues
    InitScalar = 1
    Producers <- TwoProducers
    Inputs <- MainKinds
    MaxPosts = 3
INVARIANTS
    NoLostWakeup
    InhibitFollowsPlayback
PROPERTIES
    ImplementsBatches
    EveryPostIsApplied
    StopJoinsWorker
\* The program ends when the worker has exited and shutdown has returned.
CHECK_DEADLOCK FALSE
