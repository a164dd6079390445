\* A client that is lost by a write error.
CONSTANTS
    r1 = r1
    r2 = r2
    None = None
    Requests <- MCOneRequest
    Formats = {"PCM"}
    MaxPending = 1
    MaxChunks = 2
    HighWater = 0
    PrebufferTarget = 0
SPECIFICATION Spec
PROPERTIES
    LostClientReleased
CHECK_DEADLOCK FALSE
