CONSTANTS
  Call = {c1}
  File = {f1}
  Original = Original
  Foreign = Foreign
  Torn = Torn
  Absent = Absent
  NoFile = NoFile
  Free = Free
  Kinds = {"write", "edit"}
  VerifyOutcomes = {"pass"}
  MaxForeign = 1
  MaxFaults = 0
  MaxCrashes = 0
SPECIFICATION Spec
CHECK_DEADLOCK FALSE
PROPERTY RejectSparesOthers
