CONSTANTS
    Addrs = {a1, a2}
    V4 = v4
    Nonces = {n1, n2, n3, n4}
    Lease = 2
    Setups = {{"pcpEnabled", "pcp", "upnp"}, {"upnp"}}
    MaxMoves = 1
    MaxLosses = 1
SPECIFICATION PHSpec
INVARIANTS SavedNonceIsCurrent
PROPERTIES PinholesFollowAddresses NoncesSaved
