SPECIFICATION Spec
CONSTANTS
    Handlers = {h1, h2}
    Commands <- TwoTargets
    TTL = 1
    MaxDeny = 4
    MaxIdempotency = 2
    MaxCommands = 2
    MaxRules = 2
    WritesFail = FALSE
    Crashes = 1
    MaxRequests = 2
    MaxTime = 0
INVARIANTS
    AppliedAckEnforced
CHECK_DEADLOCK FALSE
