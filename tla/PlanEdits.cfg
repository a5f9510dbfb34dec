CONSTANTS
  MaxNodes = 4
  MaxListed = 3
  MaxDeps = 1
  PlanTexts <- MCTexts
  Replies <- MCReplies
  PacketForms <- MCForms
  MaxRefused = 3
  MaxNodesRead = 8
  MaxRevisions = 1
  Commands <- MCCommands
  FinalTexts <- MCFinal
  JudgeReplies <- MCJudge
  Failed = Failed
  Tasks <- MCTasks
  Untracked = Untracked
  TaskRounds = 5
  FirstJudged = 1
  MaxAsked = 2
  Remembered = 2
  Asks <- MCAsks
  Efforts = {"none", "high"}
  RoundTools <- MCRoundTools
  RoundsLimit = 4
  SafetyLimit = 1
  ErrorLimit = 2
  FilesLimit = 3
  MaxDepthRuns = 2
  GateNames = {"ripple"}
SPECIFICATION PlansSpec
CHECK_DEADLOCK FALSE
INVARIANTS ActiveIsCurrent OrderRespected WorkableMode DeliveredIsComplete ReviewsAreSound
PROPERTIES DoneIsFinal HandsOver
