SPECIFICATION Spec
CONSTANTS
    w1 = w1
    w2 = w2
    p = p
    q = q
    Caller = {p}
    Worker = {w1}
    Sizes = {1}
    InitTarget = 3
    Targets = {1, 3}
    None = None
    Slow = {w1}
    MaxPend = 1
    MaxOps = 0
INVARIANT DesertedIsFinished
CHECK_DEADLOCK FALSE
