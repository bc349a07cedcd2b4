SPECIFICATION Spec
CONSTANTS
    Keys <- MCKeys
    MaxKeys = 4
    MaxUneven = 1
    CommandList <- MCCommandList
    Registrations <- MCRegistrations
    Addrs = {a1, a2}
    MaxRequests = 3
    MaxGen = 2
SYMMETRY MCSymmetry
INVARIANTS
    ScreenShowsLine
    PolledCallsWholeObjects
    TakenUpInOrder
    AskerOrNobody
PROPERTY
    LastRegistrantAnswers
CHECK_DEADLOCK FALSE
