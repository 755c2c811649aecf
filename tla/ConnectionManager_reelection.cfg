SPECIFICATION Spec
CONSTANTS
    Id = {ws_0, ws_1}
    WebTransport = {}
    Configured <- SomeServers
    Creatable <- AllServers
    Inst = {1, 2, 3}
    Rtt = {10, 60}
    None = None
    ELECTION_MIN_RTT_SAMPLES = 1
    ELECTION_MAX_EXTENSIONS = 0
    REELECTION_CONSECUTIVE_SAMPLES = 2
    RECONNECT_CONSECUTIVE_ZERO_LIMIT = 1
SYMMETRY Symmetry
INVARIANTS
    ManagerSound
PROPERTIES
    ActiveIsNotReset
    SingleServerKept
\* A disconnected manager is never used again.
CHECK_DEADLOCK FALSE
