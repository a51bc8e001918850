\* Capacities 1 to 3 and the null buffer; calls of up to 3 elements, which
\* exceed a capacity of 2 and wrap around in one of 3.
SPECIFICATION Spec
SYMMETRY Symmetry
CONSTANTS
    Elem = {x, y}
    Junk = Junk
    Capacities = {0, 1, 2, 3}
    MaxLen = 3
    MaxSize = 5
INVARIANTS OffsetsAgree NoRace
PROPERTIES ImplementsFifo
\* A division by zero ends the program.
CHECK_DEADLOCK FALSE
