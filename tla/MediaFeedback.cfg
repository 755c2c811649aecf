SPECIFICATION FairSpec
CONSTANTS
    Sender = {s1}
    Streams = {"VIDEO", "SCREEN", "AUDIO"}
    Environments <- MCEnvironments
    MaxRequests = 1
    CONGESTION_DROP_THRESHOLD = 2
    CONGESTION_WINDOW = 1
    CONGESTION_NOTIFY_MIN_INTERVAL = 1
    StaleThreshold = 1
    CLEANUP_INTERVAL = 3
    KEYFRAME_REQUEST_MAX_PER_SEC = 1
    KEYFRAME_REQUEST_WINDOW = 1
    KEYFRAME_REQUEST_TIMEOUT = 2
    KEYFRAME_REQUEST_MIN_INTERVAL = 1
    NoGap = NoGap
INVARIANTS
    FeedbackSound
    NotifySpacing
PROPERTIES
    MonitorSparesActive
    KeyframeAfterLoss
    ShownIsSent
    LeaversDisappear
