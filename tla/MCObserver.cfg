SPECIFICATION Spec
CONSTANTS
  Thread = {t1, t2}
  Observables = {x}
  Observers = {o1, o2}
  NULL = NULL
  MaxDepth = 3
INVARIANTS PointersAgree NoDeadAccess
PROPERTIES  CallsReturn
