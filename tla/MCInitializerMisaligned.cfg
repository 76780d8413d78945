CONSTANTS
  PAGE = 2
  MB = 4
  CHUNK = 8
  WORD = 32
  Linear = 32
  MaxEntries = 1
  BiosMap <- MCMisaligned
SPECIFICATION Spec
INVARIANT NoKassertFails
CHECK_DEADLOCK FALSE
