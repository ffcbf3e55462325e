CONSTANTS
    MaxEntries = 7
    Failing = {1, 2, 4, 6}
    Batch = 2
    ReclaimIdle = 5
    ClaimEvery = 2
    Block = 2
SPECIFICATION Spec
INVARIANT
    NewEntriesAreRead
