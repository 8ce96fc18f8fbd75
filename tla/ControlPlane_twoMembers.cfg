CONSTANTS
    Keys = {k1, k2, empty, gone}
    EmptyKey = empty
    GoneKey = gone
    Prefixes = {p1}
    LastHost = 4
    ServerHost = 1
    NoIP = none
    Members = {m1, m2}
    PortSets = {{m1}}
    MaxGen = 1
    Setups <- SharedKeys
SPECIFICATION Spec
INVARIANTS KeyHasOneMember
