CONSTANTS
    Ids = {i1, i2, i3}
    Sockets = {s1, s2, s3}
    NoSocket = none
    MaxTunnels = 2
SPECIFICATION Spec
CHECK_DEADLOCK FALSE
INVARIANTS OneOwner Ceiling TunnelsAnswer
PROPERTIES SocketsReleased
