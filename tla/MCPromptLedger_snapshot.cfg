SPECIFICATION Spec
CONSTANTS
  Segments <- SmallSegments
  LOOKBACK_BLOCKS = 4
  MaxPushes = 5
  MaxGenerations = 2
CHECK_DEADLOCK FALSE
INVARIANTS
  SnapshotRestores
