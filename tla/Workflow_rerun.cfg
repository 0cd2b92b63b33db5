SPECIFICATION Spec
CONSTANTS
  Tables = {t1, t2}
  Versions = {1, 2}
  None = None
  Cached = FALSE
  Refresh = FALSE
  Reverts = FALSE
PROPERTIES Settles
CHECK_DEADLOCK FALSE
