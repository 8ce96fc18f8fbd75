CONSTANTS
    Lease = 2
    Cooldown = 4
    Patience = 1
    MaxTrouble = 3
SPECIFICATION PMSpec
INVARIANTS RestoredAnswersAlert
PROPERTIES LossReported StaysMapped RelayFollowsAddress MismatchReported
