CONSTANTS
    Clients = {c1, c2}
    StaleBound = 2
    ColdStartTimeout = 1
    Never = never
    Messages = {"push", "ack", "provision"}
    MaxRestarts = 2
    MaxFailures = 1
SPECIFICATION FCSpec
INVARIANTS OnlyLatePeersWhileFailClosed
PROPERTIES SilenceClosesTunnel RecentStateServes
