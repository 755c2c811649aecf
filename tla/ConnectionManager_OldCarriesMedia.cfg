SPECIFICATION Spec
CONSTANTS
    Id = {ws_0, wt_0}
    WebTransport = {wt_0}
    Configured <- AllServers
    Creatable <- AllServers
    Inst = {1, 2, 3}
    Rtt = {10, 60}
    None = None
    ELECTION_MIN_RTT_SAMPLES = 1
    ELECTION_MAX_EXTENSIONS = 0
    REELECTION_CONSECUTIVE_SAMPLES = 1
    RECONNECT_CONSECUTIVE_ZERO_LIMIT = 1
INVARIANTS
    OldCarriesMedia
\* A disconnected manager is never used again.
CHECK_DEADLOCK FALSE
