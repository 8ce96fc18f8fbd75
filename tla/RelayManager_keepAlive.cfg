CONSTANTS
    Nodes = {n1, n2}
    DeadNodes = {n1}
    FailoverThreshold = 3
    KeepAliveMessages = {TRUE, FALSE}
    MaxFlips = 0
    MaxDetach = 0
SPECIFICATION RMSpec
PROPERTIES TornDownWhenUnwanted
