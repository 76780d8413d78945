CONSTANTS
  PAGE = 2
  Usable <- MCUsable
  Lengths <- MCLengths
  Aligns <- MCAligns
  LockBound = 1
SPECIFICATION Spec
INVARIANTS
  AnswersAligned
PROPERTIES
  ImplementsPool
CHECK_DEADLOCK FALSE
