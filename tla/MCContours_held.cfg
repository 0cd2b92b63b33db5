\* Regenerates: a zone held by a dataset that is not staged with the contours.
SPECIFICATION Spec
CONSTANTS
  sales = sales
  stock = stock
  None = None
  Flat = Flat
  Datasets = {sales, stock}
  Versions = {1, 2}
  FactContents <- OneChanges
  ContourContents = {1, 2}
  Orphaned <- NewNeedsNew
  Keyed = TRUE
  Postgres = TRUE
  Alone = {}
  Losses = {}
PROPERTY Regenerates
CHECK_DEADLOCK FALSE
