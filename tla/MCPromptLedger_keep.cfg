SPECIFICATION Spec
CONSTANTS
  Segments <- SmallSegments
  LOOKBACK_BLOCKS = 4
  MaxPushes = 5
  MaxGenerations = 2
INVARIANTS
  PrefixSound
  NoTurnLost
  RecallVerbatim
CHECK_DEADLOCK FALSE
