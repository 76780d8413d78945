CONSTANTS
  PAGE = 1
  Usable <- MCUsable
  Lengths <- MCLengths
  LockBound = 1
SPECIFICATION Spec
INVARIANT LockReleased
CHECK_DEADLOCK FALSE
