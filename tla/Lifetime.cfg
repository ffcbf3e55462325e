CONSTANTS
    Clients = {c1, c2}
    HeaderTimeout = 4
    ReadTimeout = 6
    WriteTimeout = 6
    Deadline = 1
    Grace = 10
SPECIFICATION Spec
INVARIANTS
    ShutdownWaitsForRequests
    OnlySlowSendersLoseAnswers
CHECK_DEADLOCK FALSE
