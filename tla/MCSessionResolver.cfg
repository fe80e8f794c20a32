SPECIFICATION ResolverSpec
CONSTANTS
    t1 = t1
    t2 = t2
    Loaders = {t1, t2}
    Accounts <- MCAccounts
    Media = {"m"}
    Origins = {"home", "other", "cdn"}
    Secure = {"home", "cdn"}
    Expiries = {5, 14}
    MAX_REDIRECTS = 1
    Instants = {0, 6, 15}
    MaxLoads = 2
    MaxChanges = 2
INVARIANTS
    TokensStayHome
    HandedIsForAccount
    OneProbePerKey
PROPERTIES
    LoadsEnd
\* The loads may be used up.
CHECK_DEADLOCK FALSE
