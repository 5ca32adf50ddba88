SPECIFICATION FairSpec
CONSTANTS
    Handlers = {h1, h2}
    Commands <- Full
    TTL = 1
    MaxDeny = 4
    MaxIdempotency = 2
    MaxCommands = 1
    MaxRules = 1
    WritesFail = TRUE
    Crashes = 1
    MaxRequests = 3
    MaxTime = 3
INVARIANTS
    AppliedAckEnforced
    DuplicatesGetOriginalAck
    FileCoherent
    SlotsSound
PROPERTIES
    ImplementsRevocations
    CommandAnswered
CHECK_DEADLOCK FALSE
