SPECIFICATION FairSpec
CONSTANTS
    Id = {ws_0, wt_0}
    WebTransport = {wt_0}
    Configured <- AllServers
    Creatable <- AnyServers
    Inst = {1, 2, 3}
    Rtt = {10}
    None = None
    ELECTION_MIN_RTT_SAMPLES = 2
    ELECTION_MAX_EXTENSIONS = 2
    REELECTION_CONSECUTIVE_SAMPLES = 1
    RECONNECT_CONSECUTIVE_ZERO_LIMIT = 3
INVARIANTS
    ManagerSound
    OwnSessionIsElected
PROPERTIES
    ElectedAnswered
    ReconnectionGivesUp
    DisconnectStopsLoop
\* A disconnected manager is never used again.
CHECK_DEADLOCK FALSE
