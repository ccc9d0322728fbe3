CONSTANTS
    a1 = a1
    k1 = k1
    k2 = k2
    Bps = 10
    YearMs = 4
    VaultShareBps = 8
    CollectorShareBps = 1
    MaxLeverage = 10
    Proxies <- MCProxies
    Keys <- MCTwoKeys
    ProxyOf <- MCProxyOf
    NoOrder = NoOrder
    NoTrigger = NoTrigger
    Expiry <- MCExpiry
    Unit = 4
    Asks = {2}
    Bids = {0, 2}
    Rate <- Steep
    MinMargin = 2
    MaxMargin = 8
    FlashBufferBps = 0
    TotalQuote = 30
    Deposits = {4}
    Margins = {2}
    Leverages = {20}
    Quantities = {2}
    OrderExpiries = {2}
    Keeps = {FALSE}
    Repayments = {}
    TopUps = {0}
    Recoveries = {4}
    TriggerPremiums = {2}
    LiquidationChoices = {10, 11}
    WindowChoices = {2, 4}
    Ticks = {2}
    MaxTime = 5
    MaxShares = 4
    MaxCustody = 4
    MaxContracts = 2
SYMMETRY Symmetry
SPECIFICATION Spec
INVARIANTS
    TotalsMatchKeys
PROPERTIES
    NoBorrowInFinalWindow
CHECK_DEADLOCK FALSE
