SPECIFICATION Spec
CONSTANTS
    Senders = {1, 2, 3}
    Addrs <- ThreeAddrs
    NoAddr = none
    Clients <- OwnAddr
    Packets <- InterruptPackets
    Admissions <- IdentityAdmissions
    Revokers <- None
    MultiTalk = TRUE
    MaxActiveTalkers = 2
    TalkMax = 0
    Lease = 2
    MaxDelay = 1
    ControlAuth = TRUE
    AdmissionRequired = TRUE
    FloorInterrupt = TRUE
    MaxDenyRules = 2
INVARIANTS
    JoinedPeersHaveDeadline
PROPERTIES
    PreemptionLawful
    ImplementsFloor
