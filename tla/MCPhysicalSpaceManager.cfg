CONSTANTS
  PAGE = 1
  Usable <- MCUsable
  Lengths <- MCLengths
  LockBound = 1
SPECIFICATION Spec
INVARIANTS
  TypeOK
  Mirror
  Apart
  Conserved
  Accounted
PROPERTIES
  ImplementsPool
CHECK_DEADLOCK FALSE
