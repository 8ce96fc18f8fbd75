CONSTANTS
    Nodes = {n1, n2}
    DeadNodes = {n1}
    FailoverThreshold = 3
    KeepAliveMessages = {TRUE, FALSE}
    MaxFlips = 1
    MaxDetach = 1
SPECIFICATION RMSpec
INVARIANTS OffersItsSession
PROPERTIES RelayComesUp SilentWhenUnwanted
