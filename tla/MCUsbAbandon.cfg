\* A host whose transfer timed out goes on with the next request.
CONSTANTS
    MaxPacket = 2
    Requests <- AllRequests
    FastRequests = {}
    LostAcks = {}
    HostGoesOn = TRUE
SPECIFICATION Spec
INVARIANTS StallTakesEffect
