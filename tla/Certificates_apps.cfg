CONSTANTS
    Apps = apps
    Zones = {z1}
    NoZone = nozone
    Faults = {"issue"}
    AlertThreshold = 3
    MaxPushes = 0
    MaxAges = 0
    MaxTrouble = 0
SPECIFICATION TLSSpec
PROPERTIES AppsServed
