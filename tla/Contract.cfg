CONSTANTS
    AmountMax = 30000
    CountMax = 20000
    Names <- MCNames
    Attempts <- MCAttempts
SPECIFICATION Spec
INVARIANTS
    NoAdmittedDeadLetter
    PayloadIsTheBody
    PayloadTellsEvents
CHECK_DEADLOCK FALSE
