CONSTANTS
  Files = {f1}
  MaxAttempts = 2
  MaxStarts = 4
  MaxRequests = 5
  Servers <- OneAfterAnother
  Calls = {c1, c2}
  Pieces = {p1, p2}
  MaxTexts = 1
  MaxToolCalls = 2
  MaxArguments = 2
  MaxRetries = 1
  MaxTurns = 2
  Catalog <- ThreeProviders
  Models = {"flash", "haiku", "own"}
  BuiltIn <- Offered
  NoKeyNeeded = {}
  Relays = {"custom"}
  CheapFast <- CheapestFirst
  Default <- Installed
  None = None
  Protocol <- Protocols
  Thinks <- Thinkers
  Edits <- Settings
  Given = {"anthropic"}
  Budgets = {0, 6}
  TokenLimits = {1, 4}
  MinTokens = 1
  DefaultBudget = 5
  ForcedBudget = 8
  MaxEdits = 3
  ToolKind <- Kinds
  Place <- Places
  EnoughTools = 5
  MaxSchemas = 5
SPECIFICATION Spec
CHECK_DEADLOCK FALSE
INVARIANTS OneServerInStep AnswerIsWhole ChoiceHolds RequestsFit
PROPERTY CallsSettle
