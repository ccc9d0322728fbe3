CONSTANTS
    k1 = k1
    k2 = k2
    Bps = 10
    YearMs = 2
    VaultShareBps = 8
    CollectorShareBps = 1
    MaxLeverage = 10
    a1 = a1
    Proxies <- MCProxies
    ProxyOf <- MCProxyOf
    NoOrder = NoOrder
    NoTrigger = NoTrigger
    Keys <- MCKeys
    TotalQuote = 11
    KeyAmounts = {2}
    PoolAmounts = {1,3}
    Surpluses = {10}
    RateConfigs <- MCRateConfigs
    InitialRate <- Steep
    Ticks = {2}
    MaxTime = 4
    MaxShares = 3
SYMMETRY Symmetry
SPECIFICATION Spec
INVARIANTS
    TypeOK
    DebtCoversPrincipal
    LedgersWithinPrincipal
    EveryDebtIsPayable
    QuoteConserved
PROPERTIES
    LPsAreLastToPay
    OtherSharesKeepTheirValue
CHECK_DEADLOCK FALSE
