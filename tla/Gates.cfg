CONSTANTS
  Nil = Nil
  Sources <- MCSources
  Contents <- MCContents
  Start <- MCStart
  Owner <- MCOwner
  Remembered = {}
  AstGrep = FALSE
  MaxAffected = 2
  DeepNames = 1
  DeepCallers = 0
  TightCallers = 0
  MaxRounds = 3
  MaxCalls = 4
  Paths = {"f", "g"}
  Tools <- MCTools
  Batches <- MCBatches
  GateSets <- MCGates
  Forbidden = {"web_search"}
  RuleSets <- MCRules
  RateCap <- MCCaps
  MaxToolRounds = 2
  Listing <- MCListing
  Dir <- MCDir
  Mentions <- MCMentions
  Defines <- MCDefines
  Documents = {"ORCANA.md"}
  Manifest = "package.json"
  SourceDirs = {"src"}
  TestDirs = {"test"}
  PrimaryFiles = 5
  LocatedFiles = 12
  Prompts <- MCPrompts
  Says <- MCSays
  Vague = {"make it"}
  Words <- MCWords
  Answer = "answers"
  NewFiles = {"src/a"}
  MaxPrompts = 3
  Rest = Rest
  HookFiles = {"h"}
  HookCalls <- MCHookCalls
  HookPrompts <- MCHookPrompts
  Texts = {{"console"}, {"secret"}}
  Journals <- MCJournals
  AllowOutside = FALSE
  MaxHookCalls = 4
  Nothing = Nothing
  ShellCommands <- MCShellCommands
  RippleFiles = {"r"}
  JobsWork = TRUE
  MaxShellRuns = 2
  MaxCommands = 2
  NoSandbox = NoSandbox
  LedgerFiles = {"n"}
  Bodies = {"old", "new", "long"}
  Large = {"long"}
  Gone = Gone
  Nobody = Nobody
  Target <- MCTarget
  CallerLists <- MCCallerLists
  ChangeKinds <- MCKinds
  TestPlaces <- MCTestPlaces
  ShownCallers = 3
  ShownSites = 2
  ShownFiles = 2
SPECIFICATION Spec
CHECK_DEADLOCK FALSE
INVARIANTS BreaksAreCovered CallersAreServed WritesAlone WritesByRight
PROPERTY RoundsEnd
