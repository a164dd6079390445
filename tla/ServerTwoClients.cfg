\* Two clients compete for the worker: the loop's accounting.
CONSTANTS
    r1 = r1
    r2 = r2
    None = None
    Requests <- MCRequests
    Formats = {"PCM", "OGG", "WAV"}
    MaxPending = 1
    MaxChunks = 2
    HighWater = 0
    PrebufferTarget = 2
SYMMETRY Symmetry
SPECIFICATION SafetySpec
INVARIANTS
    InOrderDelivery
    StreamsCounted
CHECK_DEADLOCK FALSE
