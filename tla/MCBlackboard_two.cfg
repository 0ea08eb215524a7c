SPECIFICATION Spec
CONSTANTS
  Board = {b1, b2}
  Claim = {c1}
  TurnId = {t1}
  Agent = {1, 2, 3, 4}
INVARIANTS
  HydrationSucceeds
  VerdictsRestOnVotes
  VerdictsAgree
PROPERTIES
  DurableForever
