CONSTANTS
    Apps = apps
    Zones = {z1, z2}
    NoZone = nozone
    Faults = {}
    AlertThreshold = 3
    MaxPushes = 3
    MaxAges = 0
    MaxTrouble = 0
SPECIFICATION TLSSpec
INVARIANTS ClearedNotServed
