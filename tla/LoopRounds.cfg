CONSTANTS
  Settings <- AllKinds
  Callers = {"user"}
  MaxRounds = 4
  MaxCalls = 2
  MaxNodes = 2
  MaxRejections = 1
  OverflowLimit = 2
  JudgeFrom = 1
  JudgeLimit = 1
SPECIFICATION Spec
INVARIANTS DeliveredCompiles StuckIsBounded BuildsOnPlan
PROPERTIES FinishesClean Advances
