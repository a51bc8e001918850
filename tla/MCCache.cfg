\* Three keys, entries of size 0, 1 and 2, capacities 0 to 2.  No symmetry: it
\* would not be sound for CallsReturn.
SPECIFICATION Spec
CONSTANTS
    Key = {a, b, c}
    Value = {v1, v2, v3}
    NULL = NULL
    Sizes = {0, 1, 2}
    MaxSize = 6
INVARIANTS ListOK Accounted OverfilledByLocks Owned LockReadsLive
PROPERTIES ImplementsContract CallsReturn
\* A destroyed cache takes no more calls.
CHECK_DEADLOCK FALSE
