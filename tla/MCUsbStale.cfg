\* The token of a status stage can outrun the handler of the last data packet.
CONSTANTS
    MaxPacket = 2
    Requests <- AllRequests
    FastRequests = {"out"}
    LostAcks = {}
    HostGoesOn = FALSE
SPECIFICATION Spec
INVARIANTS StallIsCleared
