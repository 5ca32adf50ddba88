SPECIFICATION ScenarioSpec
CONSTANTS
    Workers = {w1, w2}
    Datagrams <- TwoScenarios
    Channels <- TwoChannels
    Pages <- UnequalPages
    Window = 2
    MaxReplayDomains = 1
    MaxRegistrations = 1
    MaxSnapshotPages = 3
    RegistrationTTL = 2
    SessionTTL = 1
    MaxCursors = 3
    MaxTime = 2
    RowSizes = {1, 3, 4}
    MaxRows = 5
    ChannelRow = 3
    DatagramLimit = 9
    Ten = 3
    MaxFragments = 4
    MaxAttempts = 6
SYMMETRY WorkerSymmetry
INVARIANTS
    LiveDatagramOnce
    RegistrationsSound
    CursorUsedOnce
    PackingExact
    SnapshotPagesSent
CHECK_DEADLOCK FALSE
