SPECIFICATION CasesSpec
CONSTANTS
  Sorts <- AllSorts
  Limits <- EveryLimit
  MaxVotes = 13
  RevisionLimit = 2
  TokenLimit = 5000
  MaxPublished = 5
  Unset = Unset
  Invalid = Invalid
INVARIANTS
  AdmitsTheMost
  QuorumsIntersect
  VerdictExact
  WireFaithful
  StructureFaithful
  ChoicesFaithful
  SessionShown
CHECK_DEADLOCK FALSE
