SPECIFICATION Spec
CONSTANTS
    s = s
    t = t
    x = x
    y = y
    a = a
    blank = blank
    Strings = {s, t}
    Bytes = {x, y}
    Elem = {a, blank}
    Trimmed = {blank}
    Sources <- MCSources
    MaxSize = 2
    MaxObjects = 2
    Capacities = {3}
    Wrap = 16
    SelfArgument = {}
    StringInsert = FALSE
    EmptyToString = FALSE
SYMMETRY Symmetry
INVARIANTS InBounds Terminated ReadOnly
PROPERTIES ValueSemantics
