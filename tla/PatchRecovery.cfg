CONSTANTS
  Call = {c1, c2}
  File = {f1}
  Original = Original
  Foreign = Foreign
  Torn = Torn
  Absent = Absent
  NoFile = NoFile
  Free = Free
  Kinds = {"write", "edit", "fim", "rollback"}
  VerifyOutcomes = {"pass", "fail", "throw"}
  MaxForeign = 1
  MaxFaults = 1
  MaxCrashes = 1
SPECIFICATION FairSpec
CHECK_DEADLOCK FALSE
INVARIANT WriteAhead
PROPERTY EveryCallReturns
