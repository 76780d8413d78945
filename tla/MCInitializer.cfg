CONSTANTS
  PAGE = 2
  MB = 4
  CHUNK = 8
  WORD = 32
  Linear = 32
  MaxEntries = 3
  BiosMap <- MCMap
SPECIFICATION Spec
INVARIANTS
  GivesFreeMemory
  GivesAllPages
  PlaceAsSpecified
  RefusesJustly
CHECK_DEADLOCK FALSE
