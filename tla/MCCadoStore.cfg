CONSTANTS
  Absent = Absent
  Failure = Failure
  Path <- MCPath
  Contents <- MCContents
  System = "system"
  MaxWrites = 3
  Blank = 0
SPECIFICATION Spec
INVARIANT ReadsNeverFail
PROPERTY ImplementsPathStore
CHECK_DEADLOCK FALSE
