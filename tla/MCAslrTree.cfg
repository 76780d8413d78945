CONSTANTS
  Keys <- MCKeys
  Sizes <- MCSizes
  NULL = NULL
SPECIFICATION Spec
INVARIANTS
  Balanced
  NoEntryLost
  EveryPlaceFound
  ChosenEvenly
PROPERTY
  ImplementsSet
