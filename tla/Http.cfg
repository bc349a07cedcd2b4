SPECIFICATION Spec
CONSTANTS
    MaxU64 = 63
    ReadSizes = {0, 2}
    TextSizes = {0, 2}
    MaxChunks = 2
    Shapes <- MCShapes
    MaxShapes = 2
    Peers = {"browser", "client"}
    MaxSent = 1
    MaxFrames = 2
INVARIANTS
    RequestsAsSent
    TextsInOrder
    AnswersDelimited
CHECK_DEADLOCK FALSE
