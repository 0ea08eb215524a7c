SPECIFICATION RotatingSpec
CONSTANTS
  Board = {b1}
  Claim = {c1, c2, c3}
  TurnId = {t1, t2}
  Agent = {1, 2, 3}
SYMMETRY ClaimSymmetry
INVARIANTS
  RestartTransparent
  FullRosterDecides
  FairRotation
