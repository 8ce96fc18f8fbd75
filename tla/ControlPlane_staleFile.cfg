CONSTANTS
    Keys = {k1, k2, empty, gone}
    EmptyKey = empty
    GoneKey = gone
    Prefixes = {p1}
    LastHost = 4
    ServerHost = 1
    NoIP = none
    Members = {m1}
    PortSets = {{m1}}
    MaxGen = 1
    Setups <- StopsAndCrashes
SPECIFICATION Spec
INVARIANTS ClientsDistinct
