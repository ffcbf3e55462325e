CONSTANTS
    Events = {e1, e2}
    Data = {d1, d2}
    Workers = {w1}
    Requests = {r1, r2, r3}
    None = None
    Poison = Poison
    MaxEntries = 3
    MaxPoison = 0
    MaxQueue = 1
    AdmitTTL = 2
    FinishTTL = 1
    ReclaimIdle = 1
    Batch = 1
    MaxFaults = 1
    BrokenOutputs = {}
SPECIFICATION Spec
SYMMETRY Symmetry
INVARIANTS
    OneAdmissionPerWindow
    MarkerIsBacked
    AnswersAreTrue
    BoundedBacklog
PROPERTIES
    RetryIsRecognised
