SPECIFICATION Spec
CONSTANTS
  Stmt = {s1, s2}
  Handle = {h1, h2, h3}
  NULL = NULL
  QueryLengths = {1}
  UTF8 = FALSE
  LateErrors = TRUE
  QueryErrors = FALSE
INVARIANTS CloseSucceeds RunsOnce
PROPERTIES NoLeak
\* A connection that could not be closed ends the behaviour.
CHECK_DEADLOCK FALSE
