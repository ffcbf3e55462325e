CONSTANTS
    Weight <- MCWeight
    Intercept <- MCIntercept
    Slope = 9
    Offset <- MCOffset
    Cutoff <- MCCutoff
    Orders <- MCOrders
    Samples <- MCSamples
    MaxRows = 2
    Counts = {1, 2, 3, 99, 100, 101, 250}
SPECIFICATION Spec
INVARIANTS
    EvaluatedWhole
    NoPartialPredictions
    RoutesAgree
    PercentilesHold
    ServedAsTrained
    StrongerRiskScoresHigher
CHECK_DEADLOCK FALSE
