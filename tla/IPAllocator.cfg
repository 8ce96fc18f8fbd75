CONSTANTS
    Keys = {k1, k2, empty}
    EmptyKey = empty
    Prefixes = {p1, p2}
    LastHost = 4
    ServerHost = 1
    NoIP = none
SPECIFICATION Spec
INVARIANTS LeasesExclusive IInv
PROPERTIES NoNewOrphans ImplementsLease
