SPECIFICATION FairSpec
CONSTANTS
    Base = 4
    Width = 3
    Payloads <- MCPayloads
    StartBytes = {0, 1}
    maxPacketSize = 5
    MaxSend = 3
PROPERTIES ImplementsPipe
CHECK_DEADLOCK FALSE
