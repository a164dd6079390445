\* The idle thread against requests and streams, at the edge of the timing assumption.
CONSTANTS
    IdleLimit = 4
    DispatchLimit = 2
    RecheckLimit = 1
    MaxStreams = 2
SPECIFICATION Spec
INVARIANTS
    LifecycleInv
    NoUnloadUnderRequest
    NoSecondModel
PROPERTIES
    IdleIsUnloaded
    LifecycleIsReleased
CHECK_DEADLOCK FALSE
