SPECIFICATION Spec
CONSTANTS
  Tables = {t1, t2}
  Versions = {1, 2}
  None = None
  Cached = TRUE
  Refresh = TRUE
  Reverts = TRUE
INVARIANTS TypeOK QuietIsRight
PROPERTIES FailsOnlyIfMissing SettlesUnlessReverted
CHECK_DEADLOCK FALSE
