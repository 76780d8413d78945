SPECIFICATION Spec
CONSTANTS
  FANOUT = 3
  TOP = 2
  WORD = 1152
  INT = 64
  LOW = 2
  RESERVE = 20
  Units = {t1, t2, t3, t4, t5, t6, t7}
  None = None
  Calls <- MCCalls
  Accessed <- MCAccessed
  TlbBound = 1
INVARIANTS
  TablesAccounted
  NoStaleTranslation
PROPERTY
  ImplementsPageMap
CHECK_DEADLOCK FALSE
