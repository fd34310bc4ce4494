SPECIFICATION Spec
CONSTANTS
  HeadLen = 3
  MinFrame = 4
  BufLen = 9
  ChunkLen = 4
  Sizes = {4, 6}
  Lookalike = {4}
  Noise = {1}
  MaxFrames = 3
  MaxNoise = 2
  EchoFails = TRUE
INVARIANTS
  FramesInOrder
  NothingMissed
PROPERTIES
  FramesAreProcessed
  FramesFoundAreProcessed
