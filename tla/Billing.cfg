SPECIFICATION FairSpec
CONSTANTS
    Modes <- AllModes
    Tiers = {standard, enterprise}
    Highest = enterprise
    None = None
    Interval = None
    ShortGrace = 1
    LongGrace = 2
    MaxPaid = 2
    MaxTime = 5
INVARIANTS
    TypeOK
    RefusedWasUnpaid
    
PROPERTIES
    ExpiredIsRefused
CHECK_DEADLOCK FALSE
