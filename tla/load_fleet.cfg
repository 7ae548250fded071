SPECIFICATION FairSpec
CONSTANTS
    w1 = w1
    w2 = w2
    p = p
    q = q
    Caller = {p, q}
    Worker = {w1, w2}
    Sizes = {1, 2}
    InitTarget = 3
    Targets = {1, 3}
    None = None
    Slow = {w1}
    MaxPend = 1
    MaxOps = 1
INVARIANTS TypeOK SlicesAddUp LateComersStop
PROPERTY StopEnds
CHECK_DEADLOCK FALSE
