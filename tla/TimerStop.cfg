SPECIFICATION Spec
CONSTANTS
    Keys = {k1}
    BadKeys = {}
    Delays = {1}
    Periods = {1}
    MaxTime = 2
    Horizon = 3
    MaxReq = 2
INVARIANT StoppedNotArmed
CHECK_DEADLOCK FALSE
