CONSTANTS
    Clients = {c1, c2}
    StaleBound = 2
    ColdStartTimeout = 1
    Never = never
    Messages = {"push", "ack"}
    MaxRestarts = 1
    MaxFailures = 0
SPECIFICATION FCSpec
PROPERTIES DropsOnlyWithoutState
