CONSTANTS
  Parts = {"schema"}
  NSinks = 2
  NRows = 2
  KeySequences <- Keys
  FuzzyCap = 1
  MaxRestarts = 1
  Ids = {1, 2, 3, 4}
  Settings <- Sources
  MaxCalls = 4
  MaxTime = 4
  Files <- Contents
  EmitSize = 2
  QueueSize = 1
  RecordLimit = 3
  MaxFileRuns = 2
  NRecords = 3
  FlushEvery = 2
  MaxPostRetries = 1
  MaxSessions = 2
  MaxSinkFaults = 1
  Captures <- Failures
  MaxCommands = 3
  NEvents = 2
  MaxOrderFaults = 2
  NGroup = 3
  ChainShapes <- Shapes
  MaxTries = 1
  MaxStages = 2
  MaxSinks = 2
  AiSettings <- Middlewares
  NPrompts = 3
  AiBatchSize = 2
  MaxTokens = 3
  CacheSize = 1
  MaxAiRuns = 2
  MaxSchemaRecords = 3
  MaxSchemaRuns = 2
  Ttl = 1
  MaxClock = 3
  MaxSaves = 2
  MaxRegistryCalls = 5
SPECIFICATION Spec
INVARIANT
  RowContractKeepsSchema
