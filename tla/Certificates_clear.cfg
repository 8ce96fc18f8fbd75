CONSTANTS
    Apps = apps
    Zones = {z1}
    NoZone = nozone
    Faults = {"write"}
    AlertThreshold = 3
    MaxPushes = 3
    MaxAges = 0
    MaxTrouble = 1
SPECIFICATION TLSSpec
PROPERTIES RepeatedZoneServed
