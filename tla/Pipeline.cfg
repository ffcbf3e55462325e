CONSTANTS
    Events = {e1}
    Data = {d1}
    Workers = {w1, w2}
    Requests = {r1}
    None = None
    Poison = Poison
    MaxEntries = 2
    MaxPoison = 1
    MaxQueue = 2
    AdmitTTL = 1
    FinishTTL = 1
    ReclaimIdle = 1
    Batch = 2
    MaxFaults = 2
    BrokenOutputs = {"dead"}
SPECIFICATION AccountedSpec
SYMMETRY Symmetry
INVARIANTS
    SettledHasOutcome
    CountsAreBacked
    AllIsCounted
