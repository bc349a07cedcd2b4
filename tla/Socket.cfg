SPECIFICATION FairSpec
CONSTANTS
    Kinds = {"accepted", "connected"}
    u1 = u1
    u2 = u2
    Size <- MCSize
    Writers = {u1, u2}
    Closers = {u1}
    Setup = setup
    Worker = worker
    MaxArrive = 1
INVARIANTS
    StreamIntact
    NotStranded
    FlushedBeforeClose
    ClosedIsToldOnce
    OwnDescriptor
PROPERTY MarkedIsClosed
CHECK_DEADLOCK FALSE
