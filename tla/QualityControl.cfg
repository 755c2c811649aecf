SPECIFICATION QualityFairSpec
CONSTANTS
    Media = "VIDEO"
    VideoTiers = 4
    AudioTiers = 4
    StartTier = 3
    InitSamples = 3
    QUALITY_WARMUP = 10
    MIN_TIER_TRANSITION_INTERVAL = 6
    STEP_DOWN_REACTION_TIME = 3
    STEP_UP_STABILIZATION_WINDOW = 10
    PID_CORRECTION_THROTTLE = 2
    NoTimer = NoTimer
INVARIANTS
    QualitySound
PROPERTIES
    AudioDegradesLast
    OneStepPerReport
    QualityConverges
