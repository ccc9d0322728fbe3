CONSTANTS
    k1 = k1
    k2 = k2
    Keys <- MCOneKey
    Expiry = 2
    Window = 1
    OrderTerms <- NoTerms
    MintLeverages = {TRUE}
    Markets <- DebtMarkets
    CronKinds = {"liquidation", "force_close"}
    HttpKinds = {"all"}
    PauseChoices = {}
    Limit = 1
    Lookahead = 3
    MaxTime = 2
    MaxFaults = 1
SPECIFICATION Spec
INVARIANTS
    TypeOK
    RunsExcludeEachOther
PROPERTIES
    EveryTaskKeepsRunning
    ExpiredDebtsAreCleared
