SPECIFICATION Spec
CONSTANTS
    Keys <- TwoSessions
    Tickets <- BothKinds
    Rules <- TwoRules
    Any = any
    s1 = s1
    s2 = s2
    IdentityRequired = FALSE
    ChallengeTTL = 1
    MaxPending = 1
    MaxRules = 1
    MaxChallenges = 2
    MaxTime = 2
SYMMETRY SessionSymmetry
INVARIANTS
    OneAdmissionPath
    ProofsSound
    DeniedNotStored
    RevokedNotMember
CHECK_DEADLOCK FALSE
