SPECIFICATION Spec
CONSTANTS
  Scenes <- AllScenes
  Proc = {p1, p2}
  MaxTurns = 3
  MaxRevision = 4
  Openers = {1, 2}
  Latest <- McLatest
  Workers = {w1, w2}
  Bytes = {x, y}
  Damaged = dmg
  MaxAttempts = 2
  MaxClock = 1
  MaxRandom = 1
  MaxRenames = 2
  Holders = {"p", "q"}
  Accounts = {"a", "b"}
  Values = {"v"}
  Passphrases = {"k", "l"}
  Ambient = "k"
  KeyringFlips = FALSE
  MaxWrites = 2
  Installers = {"p", "q"}
  Blobs <- McBlobs
  Manifests <- McManifests
  Target = "t"
  ArchiveName = "a.tgz"
  MaxArchiveBytes = 2
  MaxExecutableBytes = 2
  MaxArchiveEntries = 2
  PlainNames = {"a.tgz"}
  PortablePaths = {"bin", "readme"}
  MaxReplaced = 2
  TargetTriples = {"t"}
  Unix = TRUE
  MaxNonces = 1
  Inodes = {1, 2}
  LogThreads = {"a1", "a2", "b1"}
  ProcessOf <- McProcessOf
  MaxBytes = 1
  Keep = 2
  MaxLines = 4
  VThreads = {"t1", "t2", "t3"}
  HandleOf <- McHandleOf
  VWriters = {"t1", "t3"}
  VReaders = {"t2", "t3"}
  Locators = {"a", "b", ""}
  Embeddings <- McEmbeddings
  Bodies = {"x"}
  Models <- McModels
  Query <- McQuery
  QueryTerms <- McQueryTerms
  RerankWidth = 2
  CacheBytes = 8
  Limits = {0, 1}
  HybridDepth = 1
  CodeBits = 2
  MaxDims = 2
  MaxIndexRevision = 2
  NoText = none
  Paths <- McPaths
  DirOf <- McDirOf
  StemOf <- McStemOf
  LanguageOf <- McLanguageOf
  Texts <- McTexts
  DMAX_ANCHORS = 2
  MaxChanges = 2
  SessionIds <- McSessionIds
  Invocations <- McInvocations
  PromptLines <- McPromptLines
  MaxTyped = 7
  MaxAnswers = 4
INVARIANTS
  TypesOK
  AckedTurnsKept
  RevisionNamesContent
  SchemaSound
  UndoneOnce
  FilesKept
  IndexesFresh
  ConversationKept
PROPERTIES
  HistoryKept
CHECK_DEADLOCK FALSE
