CONSTANTS
  Files = {f1}
  MaxAttempts = 1
  MaxStarts = 1
  MaxRequests = 1
  Servers <- OneAfterAnother
  Calls = {c1}
  Pieces = {p1, p2}
  MaxTexts = 1
  MaxToolCalls = 1
  MaxArguments = 2
  MaxRetries = 0
  MaxTurns = 1
  Catalog <- ThreeProviders
  Models = {"flash", "haiku", "own"}
  BuiltIn <- Offered
  NoKeyNeeded = {}
  Relays = {}
  CheapFast <- CheapestFirst
  Default <- Installed
  None = None
  Protocol <- Protocols
  Thinks <- Thinkers
  Edits = {}
  Given = {}
  Budgets = {0}
  TokenLimits = {1}
  MinTokens = 1
  DefaultBudget = 5
  ForcedBudget = 8
  MaxEdits = 0
  ToolKind <- Kinds
  Place <- Places
  EnoughTools = 5
  MaxSchemas = 5
SPECIFICATION Spec
CHECK_DEADLOCK FALSE
PROPERTY StartupEnds
