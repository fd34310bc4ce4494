SPECIFICATION Spec
CONSTANTS
  InputBanks = 2
  HoldBanks = 2
  QueueLen = 2
  RecvTimeout = 3
  Heartbeat = 2
  PollInput = 1
  PollHold = 3
  Settle = 3
  MaxFrames = 2
  MaxWrites = 3
INVARIANTS
  AllHoldsFirst
  PollsWait
  NeverSilent
PROPERTIES
  PollsForEver
