SPECIFICATION Spec
CONSTANTS
  Requests <- Everything
  Ids = {0, 61}
  ReadSize = 1024
INVARIANTS Understood OnlyKnownPanics AnswerIsStandard ForwardIsStandard
CHECK_DEADLOCK FALSE
