\* Submissions, sleeps, wake-ups and stop() in any order.
CONSTANTS
    s1 = s1
    s2 = s2
    s3 = s3
    Submitters <- MCSubmitters
    MaxTurns = 2
SPECIFICATION Spec
INVARIANTS
    ShutdownInv
    AtMostOneAfterStop
PROPERTIES
    QueuedIsServed
CHECK_DEADLOCK FALSE
