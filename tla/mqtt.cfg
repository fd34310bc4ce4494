SPECIFICATION Spec
CONSTANTS
  Input = 1
  Hold = 1
  QueueLen = 2
  Period = 2
  TopicCount = 3
  Retained = {1, 2}
  MaxUpdates = 1
  MaxCommands = 2
  MaxLosses = 1
INVARIANTS
  CommandsInOrder
  InputsSettled
PROPERTIES
  PublishedIsCurrent
  LastCommandApplies
