SPECIFICATION TrackSpec
CONSTANTS
    m1 = m1
    a1 = a1
    a2 = a2
    listed = listed
    own = own
    external = external
    old = old
    gone = gone
    Media = {m1}
    Audio = {a1, a2}
    Listed = {listed}
    Runtime = {own}
    Externals <- MCOneExternal
    Legacy = {old}
    FirstAudio = a1
    PlanDefault = {listed}
    RuntimeDefault = {own}
    InitialSaved <- MCSaved
    MaxPlays = 2
    MaxSelections = 1
    MaxChanges = 1
    MaxTurns = 2
INVARIANTS
    ChoiceIsFinal
\* The loads may be used up.
CHECK_DEADLOCK FALSE
