CONSTANTS
    Apps = apps
    Zones = {z1}
    NoZone = nozone
    Faults = {"issue"}
    AlertThreshold = 3
    MaxPushes = 0
    MaxAges = 2
    MaxTrouble = 0
SPECIFICATION TLSSpec
INVARIANTS FailuresCounted
