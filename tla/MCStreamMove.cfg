SPECIFICATION Spec
CONSTANTS
  Buffer = 2
  MaxSize = 7
  MaxLen = 6
INVARIANTS Moved OnlyTarget
