SPECIFICATION Spec
CONSTANTS
    i1 = i1
    i2 = i2
    NoItem = NoItem
    Items <- MCItems
    Positions <- MCPositions
    ScalarFields <- MCScalarFields
    ScalarValues <- MCScalarValues
    InitScalar = 1
INVARIANTS
    StoppedIsClean
    StallIsReal
PROPERTIES
    ResumeIsExplicit
    PromotionIsReady
    PhasesAreAnnounced
