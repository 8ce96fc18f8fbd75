CONSTANTS
    Apps = apps
    Zones = {z1}
    NoZone = nozone
    Faults = {"issue", "write", "crash"}
    AlertThreshold = 1
    MaxPushes = 2
    MaxAges = 1
    MaxTrouble = 2
SPECIFICATION TLSSpec
INVARIANTS BootServes
PROPERTIES StaleBeatsNothing RenewalStopsOnlyMismatched
