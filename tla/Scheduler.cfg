\* Three requests compete for the worker; consumers pop and cancel at any point.
CONSTANTS
    r1 = r1
    r2 = r2
    r3 = r3
    None = None
    Requests <- MCRequests
    MaxPending = 2
    MaxChunks = 3
SPECIFICATION MCSpec
INVARIANTS
    SchedulerInv
    OnePlace
    DoneAfterLastPush
PROPERTIES
    TerminalIsStable
    RoundRobin
    CancelledEnds
    SubmittedEnds
CHECK_DEADLOCK FALSE
