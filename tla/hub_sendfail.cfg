SPECIFICATION Spec
CONSTANTS
  InputBanks = 2
  HoldBanks = 2
  QueueMax = 2
  MaxWrites = 1
  MaxFaults = 1
  MaxLate = 0
  Faults = {"write_send"}
PROPERTY
  Reconnects
