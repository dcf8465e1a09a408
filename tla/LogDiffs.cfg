SPECIFICATION FairSpec
CONSTANTS
    Requests = {r1, r2}
    MaxTTL = 1
    Newline = Newline
INVARIANTS
    TypeOK
    NoSendOnClosed
    DiffsComplete
PROPERTIES
    RequestsSettle
CHECK_DEADLOCK FALSE
