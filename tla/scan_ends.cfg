SPECIFICATION Spec
CONSTANTS
  Tasks = {t1, t2}
  LastOctet = 1
  Self = 0
  Dongle = 1
  Typed = {}
  Batch = 1
  MaxStarved = 1
  MaxQuiet = 1
  Stall = 1
  Wrap = 100
PROPERTIES
  ScanEnds
  TaskEnds
