\* A synthesis that fails in the middle of a stream.
CONSTANTS
    r1 = r1
    r2 = r2
    None = None
    Requests <- MCOneRequest
    Formats = {"PCM"}
    MaxPending = 1
    MaxChunks = 2
    HighWater = 0
    PrebufferTarget = 0
SPECIFICATION SafetySpec
INVARIANTS
    FailureTruncatesStream
CHECK_DEADLOCK FALSE
