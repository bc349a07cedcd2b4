SPECIFICATION FairSpec
CONSTANTS
    Keys = {k1, bad}
    BadKeys = {bad}
    Delays = {0, 1}
    Periods = {1}
    MaxTime = 2
    Horizon = 3
    MaxReq = 2
INVARIANTS NoTaskLost
PROPERTIES NeverEarly CancelledIsSilent AlarmFires DeinitReturns
CHECK_DEADLOCK FALSE
