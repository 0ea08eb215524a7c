SPECIFICATION SessionSpec
CONSTANTS
  Proc = {p1, p2}
  MaxTurns = 3
  MaxRevision = 4
PROPERTIES
  StaleWriterRefuses
