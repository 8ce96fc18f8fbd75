CONSTANTS
    Lan = {h1, h2}
    Addrs = {{h1, pub}, {h1, h2}}
    MaxChanges = 2
    MaxDrops = 2
    MaxFailures = 1
SPECIFICATION Spec
CHECK_DEADLOCK FALSE
PROPERTIES SettledAddressPublished NoticedChangePublished ProbeFollowsAddresses
