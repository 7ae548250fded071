SPECIFICATION FairSpec
CONSTANTS
    r1 = r1
    r2 = r2
    so = so
    Req = {r1, r2}
    SignOn = so
    Key = {1, 2}
    None = None
    MaxDrop = 2
INVARIANTS
    TypeOK
    PendingIsLive Found OwnAnswer
PROPERTIES
    CallsEnd
    Reconnects
CHECK_DEADLOCK FALSE
