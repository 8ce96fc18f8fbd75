CONSTANTS
    Ids = {i1, i2}
    Sockets = {s1, s2, s3}
    NoSocket = none
    MaxTunnels = 2
SPECIFICATION Spec
CHECK_DEADLOCK FALSE
INVARIANTS TunnelsAlwaysAnswer
