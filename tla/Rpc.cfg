SPECIFICATION FairSpec
CONSTANTS
    Senders = {s1, s2}
    Passers = {p1}
    Workers = {w1}
    MaxSend = 2
    MaxTotal = 2
    Lossy = TRUE
    None = None
    Acc = Acc
INVARIANTS GivenOnceNoneLost CachedBehindFlush
PROPERTY Transmitted
CHECK_DEADLOCK FALSE
