CONSTANTS
    Events = {e1}
    Data = {d1, d2}
    Workers = {w1}
    Requests = {r1, r2}
    None = None
    Poison = Poison
    MaxEntries = 2
    MaxPoison = 0
    MaxQueue = 2
    AdmitTTL = 1
    FinishTTL = 1
    ReclaimIdle = 1
    Batch = 1
    MaxFaults = 0
    BrokenOutputs = {}
SPECIFICATION Spec
INVARIANTS
    AcceptedIsDecided
