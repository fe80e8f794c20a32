SPECIFICATION SettingsFairSpec
CONSTANTS
    ui = ui
    main = main
    NoData = NoData
    Savers <- MCSavers
    Immediate <- MCSavers
    Exiter = main
    Values <- MCValues
    MaxChanges = 4
    Unwritable = TRUE
INVARIANTS
    NewestSurvives
PROPERTIES
    ExitReturns
\* The program ends when the shutdown has returned.
CHECK_DEADLOCK FALSE
