CONSTANTS
    Owners = {o1, o2}
    NoKey = nokey
    MaxPairings = 2
    MaxGen = 2
    EventSets = {{"crash"}, {"crash", "remove"}, {"crash", "write", "anonymous", "pair"}, {"crash", "remove", "pair"}, {"crash", "nohost"}}
SPECIFICATION Spec
INVARIANTS PairedIsPinned AdminsArePinnedIfSaved
PROPERTIES PinReplacedOnlyUnpaired UnpairedPairsAgain EndsServing
