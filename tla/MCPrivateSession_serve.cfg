SPECIFICATION ServeSpec
CONSTANTS
    Channels = {1, 2}
    Senders = {1, 2}
    Addrs = {1, 2, 3}
    ChannelCost = 1
    Capacity = 3
    MaxChunks = 2
    Publishers = {run, cleanup}
    NumConns = 2
    Owner <- OneService
    Wants <- FirstWants
    QueueDepth = 2
    MaxConns = 2
    Cleanup = cleanup
    RunLoop = run
    CounterMax = 2
    MaxOutcomes = 5
    Limit = 1
    InitialTable <- TwoFrames
    Packets <- SecondSends
    Sweeps <- FirstEnds
    MaxChanges = 2
    MaxFloor = 1
    MaxRequests <- FirstAsks
INVARIANTS
    SnapshotSound
    NoEventMissed
    SessionsSound
    ChunksRepresentTable
    CountersConsistent
PROPERTIES
    PublisherNotBlocked
    ReplacedSessionEnds
CHECK_DEADLOCK FALSE
