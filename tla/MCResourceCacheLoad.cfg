\* Two keys, three Pointers, entries of size 0, 1 and 2, capacities 0 to 2.
SPECIFICATION ResourceSpec
CONSTANTS
    Key = {a, b}
    Value = {v1, v2, v3}
    NULL = NULL
    Sizes = {0, 1, 2}
    MaxSize = 4
    Pointer = {p, q, r}
    MaxCount = 3
INVARIANT LockedUntilReleased
\* A destroyed cache takes no more calls.
CHECK_DEADLOCK FALSE
