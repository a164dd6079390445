\* Two texts, so that one is joined before the other; up to three chunks: one
\* before, one that is delivered and one inferred ahead.
CONSTANTS
    MaxStreams = 2
    MaxChunks = 3
SPECIFICATION StdioSpec
INVARIANTS
    StdioInv
    SpokenInOrder
PROPERTIES
    EverythingEnds
CHECK_DEADLOCK FALSE
