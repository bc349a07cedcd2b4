SPECIFICATION FairSpec
CONSTANTS
    Workers = {w1, w2}
    Producers = {p1, p2}
    MaxSend = 1
    NULL = NULL
INVARIANTS EachEventOnce StrandedOnlyWithoutNull
PROPERTY EventuallyHandled
CHECK_DEADLOCK FALSE
