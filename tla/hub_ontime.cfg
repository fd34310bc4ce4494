SPECIFICATION Spec
CONSTANTS
  InputBanks = 2
  HoldBanks = 2
  QueueMax = 2
  MaxWrites = 3
  MaxFaults = 2
  MaxLate = 0
  Faults = {"drop", "hangup", "connect", "read_send", "reconnect"}
INVARIANTS
  AnswerMatches
  HoldDoneIsHonest
PROPERTIES
  InputIsPolled
  ServesWrites
