SPECIFICATION Spec
CONSTANTS
  WORD = 2
  LIMIT = 4
  BLOCK = 10
  HEADER = 2
  POOL = 30
  MaxBlocks = 2
  CHUNK = 60
  PAGE = 20
  CACHE = 1
  Linear <- MCLinear
  Singles = {3, 19}
  Arrays = {0, 30, 31}
  Live = 5
INVARIANTS
  NoKassertFails
  MemoryAccounted
PROPERTY
  ImplementsPool
CHECK_DEADLOCK FALSE
