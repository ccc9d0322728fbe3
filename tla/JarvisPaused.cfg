CONSTANTS
    NoRow = NoRow
    NoAnswer = NoAnswer
    MaxPositions = 2
    MaxOpens = {1}
    DefaultMax = 1
    MaxActions = 1
    MaxFaults = 0
SPECIFICATION Spec
INVARIANTS
    PausedUntilTurnedOn
