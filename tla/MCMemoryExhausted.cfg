CONSTANTS
  Slots <- MCSlots
  LinearSpaces <- MCLinearSpaces
  Frames <- MCFrames
  Fan = 2
  Levels = 2
  ELength = 10
  MinUnits = 5
  MaxUnits = 15
  NodesPerUnit = 4
  MaxNodes = 4
  LeakBound = 0
SPECIFICATION Spec
INVARIANT FailsWithNull
CHECK_DEADLOCK FALSE
