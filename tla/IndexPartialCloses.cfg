CONSTANTS
    Keys = {k1}
    OrderExpiries = {}
    MaxQty = 2
    MaxTxs = 3
    MaxBatch = 1
    MaxReplays = 0
SPECIFICATION Spec
INVARIANTS
    RedeemsCountOnce
CHECK_DEADLOCK FALSE
