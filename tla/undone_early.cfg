SPECIFICATION Spec
CONSTANTS
    a = a
    b = b
    c = c
    d = d
    f = f
    g = g
    x = x
    y = y
    Phase2 = {a}
    Phase3 = {b, c}
    Dropped = {d}
    Before = {f}
    After = {g}
    Target = {x, y}
    Targets <- Shared
    Writers = {a, b, c, g}
    Permits = 1
    None = None
    MaxStep = 2
    MaxCancel = 0
    MaxFault = 0
PROPERTIES
    UndoneAtEnd
CHECK_DEADLOCK FALSE
