SPECIFICATION Spec
CONSTANTS
  NCON = 2
  NPORT = 2
  MaxDisks = 2
  SPINS = 2
  SHORT = 2
  BLOCKS = 7
  LOW = 4
  ReadBound = 2
  NoController = NoController
  Machines <- MCMachines
  MAX28 = 1
  MAX48 = 2
  BYTE = 4
  NIBBLE = 2
  Requests <- MCRequests
INVARIANTS
  ReadsWhole
  NoStrayDma
  ControllersCounted
  TakesWhatIsOffered
PROPERTIES
  MovesOnlyStopped
  CallsReturn
CHECK_DEADLOCK FALSE
