SPECIFICATION Spec
CONSTANTS
  Tables = {t1}
  Versions = {1, 2}
  None = None
  Cached = FALSE
  Refresh = TRUE
  Reverts = TRUE
PROPERTIES Settles
CHECK_DEADLOCK FALSE
