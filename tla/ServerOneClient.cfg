\* One client, a text long enough to fill every buffer: what it is sent, and when.
CONSTANTS
    r1 = r1
    r2 = r2
    None = None
    Requests <- MCOneRequest
    Formats = {"PCM", "OGG", "WAV"}
    MaxPending = 2
    MaxChunks = 6
    HighWater = 1
    PrebufferTarget = 3
SPECIFICATION AnswerSpec
INVARIANTS
    ServerInv
    OneResponse
    BoundedBacklog
PROPERTIES
    ServiceSpec
    EveryRequestAnswered
CHECK_DEADLOCK FALSE
