CONSTANTS
    Grants = {none, g1, g2}
    NoGrants = none
    MaxTrouble = 3
SPECIFICATION FWSpec
CHECK_DEADLOCK FALSE
INVARIANTS NoStaleGrants
PROPERTIES AdmitsOnlyConfined RulesComeBack
