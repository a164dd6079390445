\* stop() and join() against a worker that is about to sleep.
CONSTANTS
    s1 = s1
    s2 = s2
    s3 = s3
    Submitters <- MCSubmitters
    MaxTurns = 2
SPECIFICATION Spec
PROPERTIES
    JoinReturns
CHECK_DEADLOCK FALSE
