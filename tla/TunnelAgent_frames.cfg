SPECIFICATION Spec
CONSTANTS
    a = a
    b = b
    Ids <- MCIds
    MaxRequests = 2
    MaxConnections = 2
    MaxChunks = 1
    MaxBackoff = 2
INVARIANTS FrameOrder CancelFindsRequest
PROPERTY EveryRequestEnds
CHECK_DEADLOCK FALSE
