CONSTANTS
  c1 = c1
  c2 = c2
  b1 = b1
  b2 = b2
  t1 = t1
  t2 = t2
  de = de
  fr = fr
  release = release
  None = None
  Commands <- MCCommands
  LockFile <- MCLockFile
  Unstaging <- MCUnstaging
  Builds <- MCBuilds
  NoImage = NoImage
  Foreign = Foreign
  MaxBatch = 1
  MaxBuilds = 2
  MaxMeddles = 1
  Threads <- MCThreads
  Locales <- MCLocales
  Messages = 3
  Attempts = 2
  MaxStages = 2
  PipeSize = 1
  MaxAsks = 2
  Limit = 1
  MaxBytes = 2
  StoredInputs = {"key", "proof"}
  NoId = NoId
  Placement <- MCPlacement
  Integration <- MCIntegration
  Hosts = {"a", "b"}
  Calls <- MCCalls
  CredentialWord = {"token"}
  OddSegment = {"%2e"}
  IdSegment = {"id"}
  MaxCalls = 2
  MaxResponses = 1
  MaxHeld = 2
SPECIFICATION Spec
INVARIANT WorkTypeOK
INVARIANT CallsAllowed
INVARIANT AnswersTellTheEnd
PROPERTY StagedOrRestored
PROPERTY PackProved
PROPERTY CommandsEnd
CHECK_DEADLOCK FALSE
