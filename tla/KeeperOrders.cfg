CONSTANTS
    k1 = k1
    k2 = k2
    Keys <- MCTwoKeys
    Expiry = 3
    Window = 1
    OrderTerms <- PlainTerms
    MintLeverages = {}
    Markets <- OldestMarketable
    CronKinds = {"limit_order"}
    HttpKinds = {}
    PauseChoices = {TRUE, FALSE}
    Limit = 1
    Lookahead = 1
    MaxTime = 2
    MaxFaults = 1
SPECIFICATION Spec
PROPERTIES
    ExpiredOrdersAreReleased
    MarketableOrdersAreFilled
