SPECIFICATION Spec
CONSTANTS
    Senders = {1, 2}
    Addrs <- TwoAddrs
    NoAddr = none
    Clients <- OwnAddr
    Packets <- AdmissionPackets
    Admissions <- ServiceAdmissions
    Revokers = {r1}
    MultiTalk = FALSE
    MaxActiveTalkers = 1
    TalkMax = 0
    Lease = 1
    MaxDelay = 1
    ControlAuth = TRUE
    AdmissionRequired = FALSE
    FloorInterrupt = FALSE
    MaxDenyRules = 1
INVARIANTS
    RevocationFailsClosed
PROPERTIES
    FloorLossAnnounced
