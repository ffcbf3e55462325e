CONSTANTS
    Secrets = {good, other}
    Good = good
    None = None
    Slots = {1, 2}
    MaxEdits = 3
    MaxDecisions = 2
    MaxSamples = 2
    MaxFaults = 1
SPECIFICATION FairSpec
INVARIANTS
    TypeOK
    ShownUnderItsSecret
    StaleIsLabelled
    RetryResendsTheAttempt
PROPERTIES
    TableNeverGoesBack
    PageCatchesUp
CHECK_DEADLOCK FALSE
