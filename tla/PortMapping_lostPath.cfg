CONSTANTS
    Lease = 2
    Cooldown = 4
    Patience = 1
    MaxTrouble = 2
SPECIFICATION PMSpec
PROPERTIES LostPathNeedsRelay
