SPECIFICATION FairSpec
CONSTANTS
    JITTER_TARGET_DEPTH = 2
    JITTER_MIN_DEPTH = 1
    JITTER_MAX_TARGET_DEPTH = 3
    JITTER_MAX_DEPTH = 3
    DRIFT_REBASE_THRESHOLD_FRAMES = 1
    STABLE_PLAYOUT_TICKS_BEFORE_SHRINK = 2
    MAX_PLAYOUT_BURST_FRAMES = 2
    FRAME_TICKS = 2
    GRACE_TICKS = 1
    MaxFrames = 6
    MaxInFlight = 2
    MaxDelay = 3
INVARIANTS
    TypeOK
    NothingBehindClock
    ClockNotAhead
PROPERTIES
    DueFrameSurvives
    RestartIsHeard
    FullBufferStarts
    PlaysInOrder
