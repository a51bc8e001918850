SPECIFICATION Spec
CONSTANTS
  Thread = {t1, t2}
  LogFile = {f}
  Stderr = stderr
  NULL = NULL
  MaxMessages = 2
  MaxLines = 2
INVARIANTS Whole Complete
PROPERTIES MessagesEnd
CHECK_DEADLOCK FALSE
