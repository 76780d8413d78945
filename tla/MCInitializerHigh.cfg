CONSTANTS
  PAGE = 2
  MB = 4
  CHUNK = 8
  WORD = 32
  Linear = 32
  MaxEntries = 2
  BiosMap <- MCHigh
SPECIFICATION Spec
INVARIANT PlaceAsSpecified
CHECK_DEADLOCK FALSE
