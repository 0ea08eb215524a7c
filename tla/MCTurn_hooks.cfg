SPECIFICATION TurnSpec
CONSTANTS
  Board = {b1}
  Claim = {c1}
  TurnId = {t1}
  Agent = {1, 2, 3, 4}
  MaxLimit = 4
  MaxAttempts = 3
INVARIANTS
  HookFailureHarmless
CHECK_DEADLOCK FALSE
