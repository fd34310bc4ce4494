SPECIFICATION Spec
CONSTANTS
  MAX_RETRY = 2
  Pieces = 2
INVARIANTS
  BootsWhole
  GivesUpInTime
PROPERTIES
  StationReturns
