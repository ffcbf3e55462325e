CONSTANTS
    Events = {e1}
    Data = {d1}
    Workers = {w1, w2}
    Requests = {r1}
    None = None
    Poison = Poison
    MaxEntries = 2
    MaxPoison = 1
    MaxQueue = 2
    AdmitTTL = 1
    FinishTTL = 1
    ReclaimIdle = 1
    Batch = 1
    MaxFaults = 1
    BrokenOutputs = {}
SPECIFICATION FairSpec
PROPERTIES
    EveryEntryIsFinished
