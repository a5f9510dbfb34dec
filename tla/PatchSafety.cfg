CONSTANTS
  Call = {c1, c2, c3}
  File = {f1, f2}
  Original = Original
  Foreign = Foreign
  Torn = Torn
  Absent = Absent
  NoFile = NoFile
  Free = Free
  Kinds = {"write", "edit", "rollback"}
  VerifyOutcomes = {"pass", "throw"}
  MaxForeign = 0
  MaxFaults = 1
  MaxCrashes = 0
SPECIFICATION Spec
CHECK_DEADLOCK FALSE
SYMMETRY Symmetric
INVARIANT NoResidue
PROPERTIES RollbackRestores CommitIsWhole NoLostUpdate ImplementsLifecycle
