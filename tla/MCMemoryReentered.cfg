CONSTANTS
  Slots <- MCSlots
  LinearSpaces <- MCLinearSpaces
  Frames <- MCFrames
  Fan = 2
  Levels = 2
  ELength = 10
  MinUnits = 5
  MaxUnits = 15
  NodesPerUnit = 4
  MaxNodes = 4
  LeakBound = 1
SPECIFICATION Spec
INVARIANT LockedWhileUnstable
CHECK_DEADLOCK FALSE
