SPECIFICATION Spec
CONSTANTS
  InputBanks = 2
  HoldBanks = 2
  QueueMax = 2
  MaxWrites = 2
  MaxFaults = 2
  MaxLate = 2
  Faults = {"late", "refuse", "drop", "hangup", "connect", "read_send", "reconnect"}
INVARIANTS
  WritesInOrder
PROPERTIES
  Reconnects
  PollsUnlessStranded
