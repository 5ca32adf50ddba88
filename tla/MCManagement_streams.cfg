SPECIFICATION StreamsSpec
CONSTANTS
    Priorities = {0, 1, 255}
    Delays = {0, 299, 300}
    Feeders = {"run", "grant"}
    Starter = "run"
    Feeds <- RunFeeds
    Streams = {"s1", "s2"}
    Viewers = {"view"}
    ServiceOf <- Desk
    ApiRole <- Roles
    HealthReaders = {"monitor"}
    Listed <- Rights
    Granting = {"grant"}
    GrantRow <- ListenGrant
    StreamDepth = 1
    MaxEvents = 3
INVARIANTS
    StreamExact
    GrantHonoured
PROPERTIES
    RelayNotHeldUp
CHECK_DEADLOCK FALSE
