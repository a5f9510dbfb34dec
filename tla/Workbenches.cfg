CONSTANTS
  Prompts = {p1, p2, p3}
  Initial = start
  Answers = {a1}
  Limit = 4
  MaxRuns = 6
  MaxSwitches = 1
  MaxNotes = 1
  ToolNames = {bash, read}
  ToolLimit = 3
  DashLimit = 2
  MaxCalls = 4
  Letters <- OneAndSlash
  Texts <- Pasted
  HistoryLimit = 1
  MaxPastes = 3
  MaxEdits = 3
  Typed <- KeysAndBracket
  OrphanButtons = {"#", "a"}
  WheelButtons = {"a"}
  Columns = {"#", "M", "["}
  Rows = {"#"}
  MaxStrokes = 4
  MaxWheel = 2
  Sellers = {deepseek, openai}
  Custom = custom
  Native = {deepseek}
  Addressed = {openai}
  Heights = {2, 4}
  Amounts = {1, 2}
  MaxRows = 12
  MaxSaves = 2
SPECIFICATION Spec
CHECK_DEADLOCK FALSE
INVARIANTS PromptsKept InputIsMeant ShownInPlace RequestsComplete
PROPERTY ComesToRest
