SPECIFICATION FairSpec
CONSTANTS
    Stream = {s1, s2}
    MaxSeq = 3
    MAX_BUFFER_SIZE = 2
    MAX_CONSECUTIVE_OLD_FRAMES = 1
    STREAM_RESTART_BACKTRACK_THRESHOLD = 1
    None = None
INVARIANTS
    BufferSound
PROPERTIES
    OnlyKeyframesJump
    DeltaHasReference
    KeyframesMoveOn
