CONSTANTS
    Apps = apps
    Zones = {z1}
    NoZone = nozone
    Faults = {"write"}
    AlertThreshold = 3
    MaxPushes = 0
    MaxAges = 2
    MaxTrouble = 1
SPECIFICATION TLSSpec
PROPERTIES RenewalHappens
