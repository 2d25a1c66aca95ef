\* A source of two frames, queues of one, one round of each waiting loop.
SPECIFICATION BridgeSpec
CONSTANTS
  Frames = 2
  Capacity = 1
  Patience = 1
INVARIANT ExtractionIsWhole
CHECK_DEADLOCK FALSE
