CONSTANTS
    Keys = {k1}
    OrderExpiries = {3}
    MaxQty = 2
    MaxTxs = 4
    MaxBatch = 2
    MaxReplays = 1
SPECIFICATION Spec
INVARIANTS
    TypeOK
    NoLostCustody
    OrdersShownOpenRest
PROPERTIES
    ShowsTheLedger
    ReplayChangesNothing
CHECK_DEADLOCK FALSE
