SPECIFICATION Spec
CONSTANTS
    ElectionPeriod = 2000
    MaxAttempts = 18
INVARIANTS
    TimingSound
    LaterElectionsComplete
PROPERTIES
    BackoffNeverShrinks
\* The loop ends when it is connected or has failed.
CHECK_DEADLOCK FALSE
