CONSTANTS
    Owners = {o1, o2}
    NoKey = nokey
    MaxPairings = 2
    MaxGen = 2
    EventSets = {{"crash", "both"}}
SPECIFICATION Spec
INVARIANTS PairedIsPinned
