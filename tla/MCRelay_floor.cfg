SPECIFICATION FairSpec
CONSTANTS
    Senders = {1, 2}
    Addrs <- TwoAddrs
    NoAddr = none
    Clients <- SharedAddr
    Packets <- ClientPackets
    Admissions <- None
    Revokers <- None
    MultiTalk = FALSE
    MaxActiveTalkers = 1
    TalkMax = 1
    Lease = 2
    MaxDelay = 1
    ControlAuth = TRUE
    AdmissionRequired = FALSE
    FloorInterrupt = FALSE
    MaxDenyRules = 2
INVARIANTS
    AnnouncementsBalanced
PROPERTIES
    TalkTimeLimited
    MembershipExpires
