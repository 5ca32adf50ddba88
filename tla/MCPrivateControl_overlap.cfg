SPECIFICATION Spec
CONSTANTS
    Handlers = {h1, h2}
    Commands <- OneTarget
    TTL = 1
    MaxDeny = 4
    MaxIdempotency = 2
    MaxCommands = 2
    MaxRules = 2
    WritesFail = TRUE
    Crashes = 0
    MaxRequests = 3
    MaxTime = 4
INVARIANTS
    ExclusiveExecution
PROPERTIES
    ImplementsRevocations
CHECK_DEADLOCK FALSE
SYMMETRY HandlerSymmetry
