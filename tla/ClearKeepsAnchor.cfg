CONSTANTS
  Runtimes <- Either
  MaxIds = 3
  MaxPrompts = 3
  MaxStarts = 2
  MaxRows = 7
  SaveEvery = 2
  Kept = 2
  Sample = 2
  Prompts = {6}
  Replies = {28}
  Histories <- SomeHistories
  HistoryBudget = 40
  HistoryMessages = 3
  System = 3
  Context = 5
  KeepRecent = 2
  Spacing = 1
  Complex <- Either
  MaxRounds = 3
  MaxCalls = 2
  MaxRuns = 2
  Programs = {p1, p2}
  Questions = {q1}
  Answers = {a1, a2}
  Month = 1
  MaxNow = 2
  MaxLines = 2
  MaxCrashes = 1
  Nothing = Nothing
  TornLine = TornLine
  OpenLine = OpenLine
  HotWindow = 1
  WarmCap = 1
  Texts = {"plan", "why"}
  Signals = {"plan"}
  TopicCap = 1
  Threshold = 3
  Budget = 3
  Sessions = {s1}
  MaxTurns = 5
  MaxTalks = 2
  Unset = Unset
  Requests = {"fix", "port"}
  Outcomes <- SomeOutcomes
  LongTexts = {"long"}
  Hosts <- Either
  Week = 2
  OpenFor = 1
  WrongFor = 2
  VerifiedFor = 2
  MaxDays = 3
  MaxRecords = 6
  MaxThoughts = 4
  NoAnswer = NoAnswer
  Wordings <- SomeWordings
  PrefixOf <- Begins
  PartOf <- Parts
  Unparsed = {"re-port"}
  Queries <- SomeQueries
  RoundNumbers = {1, 2, 3}
  KeptPoints = 2
  MaxBatch = 2
  MaxMessages = 3
  MaxEntries = 3
  MaxOpenings = 2
  Names <- SomePaths
  Target <- Leads
  Plain <- Shortest
  Priority <- Ranks
  MaxActive = 2
  MaxVersions = 3
SPECIFICATION Spec
CHECK_DEADLOCK FALSE

PROPERTY ClearForgets
