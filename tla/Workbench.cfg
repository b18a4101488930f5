SPECIFICATION Spec
CONSTANTS
  Files = {"f"}
  Sessions = {"s", "t"}
  Tools = {"read_file", "rg"}
  Changes = 2
  Reloads = 1
  Budget = 8
  Preview = 2
  LargeFile = 2
  ListPage = 2
  Owners = {"s", "t"}
  Paths = {"p"}
  LastHour = 1
  Writes = 2
  Clues = {"c", "d"}
  MaxFanouts = 2
  MaxFailures = 2
  MaxTasks = 2
  ParentRuns = 2
  CodingJobs = {"t", "u"}
  Findings = {"a", "b"}
  Noisy = {"b"}
  Sources = {"p", "q"}
  Present = {"q"}
  MaxEdits = 1
  Commands = {"c", "d"}
  CodingTurns = {"s", "t"}
  Leads = {"l", "k"}
  Mates = {"m"}
  Ids = {1, 2}
  MaxVerdicts = 2
  ProcessStarts = 1
  Processes = {1, 2}
  Texts = {"x", "y"}
  RecentLimit = 1
  Evidence = 1
  MemoryTurns = 2
  Deaths = 1
  RunSteps = 2
  PathLimit = 4
  SourceFiles = {"f", "g"}
  FileChanges = 2
  Ingestions = 2
  Askers = {"a", "b"}
  Questions = {"p", "q"}
  Barren = {"q"}
  CacheSize = 1
  Ttl = 1
  LastTick = 2
  AskerSteps = 2
  AskerTurns = 1
  ChunkChars = 4
  OverlapChars = 2
  ChatMessages = 2
  Builders = {"a", "b"}
  FileEdits = 2
  LastMtime = 2
INVARIANTS     TracesAgree KnowledgeIsHonest TurnsArePrepared ComputedAsRead
PROPERTIES FanoutReturns
CHECK_DEADLOCK FALSE
