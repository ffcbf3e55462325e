CONSTANTS
    Events = {e1}
    Data = {d1}
    Workers = {w1, w2}
    Requests = {r1, r2}
    None = None
    Poison = Poison
    MaxEntries = 2
    MaxPoison = 0
    MaxQueue = 2
    AdmitTTL = 1
    FinishTTL = 2
    ReclaimIdle = 1
    Batch = 1
    MaxFaults = 2
    BrokenOutputs = {}
SPECIFICATION Spec
SYMMETRY Symmetry
INVARIANTS
    TypeOK
    NoOrphanedDelivery
    OneDecisionPerWindow
    SettledHasOutcome
PROPERTIES
    ImplementsLedger
