CONSTANTS
    Events = {e1}
    Data = {d1}
    Workers = {w1}
    Requests = {r1}
    None = None
    Poison = Poison
    MaxEntries = 2
    MaxPoison = 1
    MaxQueue = 2
    AdmitTTL = 1
    FinishTTL = 2
    ReclaimIdle = 1
    Batch = 1
    MaxFaults = 2
    BrokenOutputs = {}
    SyncLag = 1
SPECIFICATION DurableFairSpec
INVARIANTS
    NoOrphanedDelivery
    MarkerSurvivesWithEntry
    LeftWithOutcome
PROPERTIES
    ImplementsForgetfulLedger
    EveryEntryIsFinished
