CONSTANTS
  me = me
  x = x
  Accounts <- TwoAccounts
  Viewer = me
  LastPage = 2
SPECIFICATION ScanFairSpec
CHECK_DEADLOCK FALSE
INVARIANT ScanTypeOK
INVARIANT ScanIsExact
PROPERTY ScanTerminates
