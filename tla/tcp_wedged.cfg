SPECIFICATION FairSpec
CONSTANTS
    r1 = r1
    r2 = r2
    so = so
    Req = {r1}
    SignOn = so
    Key = {1, 2}
    None = None
    MaxDrop = 2
PROPERTIES
    ComesBack
CHECK_DEADLOCK FALSE
