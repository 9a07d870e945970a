SPECIFICATION Spec
CONSTANTS
    Flows = {p1, p2}
    Speakers = {p1}
    SAMPLE_RATE = 2
    Rates = {1, 3, 4, 5}
    FRAME_SAMPLES = 2
    MAX_CAPTURE_QUEUE_DEPTH = 2
    MaxChunk = 3
    MaxStamp = 4
    COMMAND_DEPTH = 3
    MAX_QUEUED_SAMPLES = 4
    MIN_PREROLL_SAMPLES = 4
    PcmSamples = 2
    Buffers = {1, 2, 3}
    p1 = p1
    p2 = p2
CHECK_DEADLOCK FALSE
INVARIANTS
    TypeOK
    EngineSurvives
    OnlyCurrentDevice
    NoGapWhilePrimed
    NodesFollowRuntimes
PROPERTY
    NoFlowGoesBack
