\* A head of up to eight tokens, a body of up to two, reads of up to seven, so
\* that a whole request can be read ahead; one connection at a time, so that the
\* other client may be refused.
CONSTANTS
    c1 = c1
    c2 = c2
    Clients = {c1, c2}
    Scripts <- MCScripts
    MaxConnections = 1
    MaxHeader = 8
    MaxBody = 2
    ReadSize = 7
    Timeout = 1
    MaxPieces = 1
SPECIFICATION MCSpec
INVARIANTS
    NothingParsedWaits
    BufferBounded
PROPERTIES
    ExchangeSpec
    EveryConnectionEnds
CHECK_DEADLOCK FALSE
