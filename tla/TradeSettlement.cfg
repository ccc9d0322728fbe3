CONSTANTS
    a1 = a1
    k1 = k1
    k2 = k2
    Bps = 10
    YearMs = 4
    VaultShareBps = 8
    CollectorShareBps = 1
    MaxLeverage = 10
    Proxies <- MCProxies
    Keys <- MCOneKey
    ProxyOf <- MCProxyOf
    NoOrder = NoOrder
    NoTrigger = NoTrigger
    Expiry <- MCExpiry
    Unit = 2
    Asks = {2}
    Bids = {0, 1, 2}
    Rate <- Steep
    MinMargin = 2
    MaxMargin = 8
    FlashBufferBps = 0
    TotalQuote = 30
    Deposits = {4}
    Margins = {2}
    Leverages = {10, 20}
    Quantities = {1, 2}
    OrderExpiries = {}
    Keeps = {TRUE, FALSE}
    Repayments = {1}
    TopUps = {0}
    Recoveries = {4}
    TriggerPremiums = {}
    LiquidationChoices = {11}
    WindowChoices = {2}
    Ticks = {2}
    MaxTime = 5
    MaxShares = 4
    MaxCustody = 4
    MaxContracts = 2
SPECIFICATION Spec
INVARIANTS
    SettlementsGoThrough
CHECK_DEADLOCK FALSE
