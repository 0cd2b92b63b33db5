\* ReferencesFollow: a publish of both datasets alone.
SPECIFICATION Spec
CONSTANTS
  sales = sales
  stock = stock
  None = None
  Flat = Flat
  Datasets = {sales, stock}
  Versions = {1, 2}
  FactContents <- OneChanges
  ContourContents = {1, 2}
  Orphaned <- NewNeedsNew
  Keyed = TRUE
  Postgres = TRUE
  Alone = {sales, stock}
  Losses = {}
INVARIANT ReferencesFollow
CHECK_DEADLOCK FALSE
