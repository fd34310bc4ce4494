SPECIFICATION RegSpec
CONSTANTS
  InputBanks = 1
  HoldBanks = 1
  RegBank = 0
  Bits = {b1, b2}
  QueueMax = 1
  MaxWrites = 2
  MaxFaults = 2
  MaxLate = 0
  Faults = {"drop", "refuse", "hangup", "connect", "read_send", "write_send", "reconnect"}
INVARIANTS
  CopyIsCurrent
PROPERTIES
  SwitchesBecomeHonest
