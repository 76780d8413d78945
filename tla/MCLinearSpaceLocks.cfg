CONSTANTS
  PAGE = 2
  Usable <- MCUsable
  Lengths <- MCLengths
  Aligns <- MCAligns
  LockBound = 1
SPECIFICATION Spec
INVARIANT LockReleased
CHECK_DEADLOCK FALSE
