CONSTANTS
  Chunks = {c1, c2, c3, c4}
  NULL = NULL
  ELength = 3
  MinUnits = 2
  MaxUnits = 6
  LockBound = 2
  Returned = 1
SYMMETRY Symmetry
SPECIFICATION Spec
INVARIANTS
  UnitsConserved
  CountsAgree
  ListsSound
  OneRenewal
  LocksBalance
  NoKassertFails
CHECK_DEADLOCK FALSE
