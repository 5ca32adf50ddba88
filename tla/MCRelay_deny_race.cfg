SPECIFICATION Spec
CONSTANTS
    Senders = {1, 2}
    Addrs <- TwoAddrs
    NoAddr = none
    Clients <- OwnAddr
    Packets <- AdmissionPackets
    Admissions <- SpeakerOnly
    Revokers = {r1}
    MultiTalk = FALSE
    MaxActiveTalkers = 1
    TalkMax = 0
    Lease = 2
    MaxDelay = 1
    ControlAuth = TRUE
    AdmissionRequired = FALSE
    FloorInterrupt = FALSE
    MaxDenyRules = 2
INVARIANTS
    JoinedPeersHaveDeadline
