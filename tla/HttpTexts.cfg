SPECIFICATION Spec
CONSTANTS
    MaxU64 = 63
    ReadSizes = {0, 1}
    TextSizes = {1}
    MaxChunks = 1
    Shapes = {}
    MaxShapes = 1
    Peers = {"client"}
    MaxSent = 1
    MaxFrames = 1
INVARIANT
    TextsAreGiven
CHECK_DEADLOCK FALSE
