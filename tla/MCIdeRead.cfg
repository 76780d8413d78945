SPECIFICATION Spec
CONSTANTS
  NCON = 2
  NPORT = 2
  MaxDisks = 2
  SPINS = 2
  SHORT = 2
  BLOCKS = 200
  LOW = 4
  ReadBound = 2
  NoController = NoController
  Machines <- MCMachineLba48
  MAX28 = 1
  MAX48 = 2
  BYTE = 4
  NIBBLE = 2
  Requests <- MCRequestsFar
INVARIANT
  ReadsAsAsked
CHECK_DEADLOCK FALSE
