CONSTANTS
    Addrs = {a1}
    V4 = v4
    Nonces = {n1, n2, n3, n4}
    Lease = 2
    Setups = {{"pcpEnabled", "pcp"}, {"pcpEnabled", "pcp", "upnp"}, {"upnp"}}
    MaxMoves = 1
    MaxLosses = 0
SPECIFICATION PHSpec
INVARIANTS EveryNonceSaved
