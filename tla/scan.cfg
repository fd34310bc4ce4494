SPECIFICATION SafetySpec
CONSTANTS
  Tasks = {t1, t2}
  LastOctet = 2
  Self = 0
  Dongle = 2
  Typed = {1}
  Batch = 1
  MaxStarved = 1
  MaxQuiet = 1
  Stall = 1
  Wrap = 100
INVARIANTS
  OneTask
  ScanIsAlive
  FoundIsVerified
  StatusTellsTheEnd
  PollerKeepsOff
PROPERTIES
  AddressSurvives
