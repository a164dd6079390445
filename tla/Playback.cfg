\* Three buffers, as in the code, and enough pieces to pass through all of them.
CONSTANTS
    BufferCount = 3
    MaxPieces = 5
    MaxLost = 2
SPECIFICATION Spec
INVARIANTS
    PlaybackInv
    AllPlayedWhenStopped
PROPERTIES
    StopReturns
CHECK_DEADLOCK FALSE
