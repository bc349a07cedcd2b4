SPECIFICATION FairSpec
CONSTANTS
    svc1 = svc1
    svc2 = svc2
    svc3 = svc3
    Services = {svc1, svc2, svc3}
    Linked = {svc1, svc3}
    Plugins = {svc2}
    Callers = {c1}
    Main = main
    Start <- MCStart
    StartSends <- MCStartSends
    BadName = badname
    NoOne = NoOne
    MaxSend = 2
INVARIANTS OneObject DeliveredInOrder StartedOnce
PROPERTIES CallReturns StartListStarted
CHECK_DEADLOCK FALSE
