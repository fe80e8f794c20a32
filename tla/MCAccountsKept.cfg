SPECIFICATION AccountSpec
CONSTANTS
    ui = ui
    auth = auth
    main = main
    a1 = a1
    a2 = a2
    s1 = s1
    s2 = s2
    NoData = NoData
    Nobody = Nobody
    Savers <- MCSavers
    Immediate <- MCSavers
    Exiter = main
    Values <- MCValues
    Accounts <- MCAccounts
    ServerOf <- MCServerOf
    UiThread = ui
    AuthWorker = auth
    MaxChanges = 1
    Unwritable = TRUE
    MaxTokens = 3
    MaxOps = 3
    MaxFaults = 0
    MaxCrashes = 0
INVARIANTS
    AccountsAreKept
\* The operations may be used up.
CHECK_DEADLOCK FALSE
