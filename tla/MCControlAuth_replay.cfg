SPECIFICATION EitherSpec
CONSTANTS
    Sessions = {s1, s2}
    NoSession = none
    Window = 2
    CookieTTL = 1
    MaxProvisional = 1
    MaxCounter = 3
    MaxTime = 2
    InstanceIDs = {1, 2, 3}
    CounterLimit = 2
SYMMETRY SessionSymmetry
INVARIANTS
    ReplayRefused
    LateAccepted
    PendingSound
    NonceNeverRepeated
CHECK_DEADLOCK FALSE
