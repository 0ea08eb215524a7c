SPECIFICATION Spec
CONSTANTS
  Scenes <- AllScenes
  Indices = {0, 1}
  Pieces = {"p", "bad"}
  MaxBlocks = 2
  MaxHeard = 3
  Configured <- McConfigured
  StdioServers = {"s"}
  RemoteTools = {"x", "_x", "a b"}
  Unnameable = {"a b"}
  Descriptions = {"d", "e", "big"}
  Oversized = {"big"}
  Namespaced <- McNamespaced
  Pages <- McPages
  MaxListPages = 2
  ToolsPerServer = 3
  MaxMcpIds = 3
  MaxSessions = 2
  MaxLspIds = 5
  MaxSpawns = 3
  AnswersInOrder = TRUE
  MaxSeq = 4
  MaxPushed = 3
  Offers <- McOffers
  Callers = {"Agent", "Host"}
  Paths = {"f"}
  Calls <- McCalls
  Consents <- McConsents
  Gists = {"plain", "wild", "off"}
  MaxCalls = 2
  ShellSessions = {sa, sb}
  Pids = {p1, p2}
  Requests <- McRequests
  MaxPaths = 1
  MaxChildren = 2
  Bytes = {"a", "[", "ESC", "CR", "LF", "BS", "lead", "cont"}
  MaxRead = 2
  MaxStream = 4
  MaxLineCells = 2
  MaxLines = 1
  Components <- McComponents
  Fuel = 2
  MaxHostCalls = 2
  MaxBytes = 1
  SkillPaths <- McSkillPaths
  SkillNames <- McSkillNames
  MaxEvents = 2
  Grandchildren = {"g", "h"}
  MayLeaveGroup = FALSE
  PipeRoom = 2
  GateOutputCap = 2
  MaxOutput = 3
SYMMETRY Symmetry
INVARIANTS
  TypesOK
  CompletionWhole
  GateKept
  ProcessesContained
  ExtensionsContained
PROPERTIES
  AnswersAreMine
CHECK_DEADLOCK FALSE
