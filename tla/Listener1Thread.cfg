SPECIFICATION FairSpec
CONSTANTS
    Workers = {w1}
    Producers = {p1, p2}
    MaxSend = 2
    NULL = NULL
INVARIANTS NoLostWakeup NoStrandedWorker
PROPERTY IsMailbox
CHECK_DEADLOCK FALSE
