\* Regenerates: a zone lost out of band.
SPECIFICATION Spec
CONSTANTS
  sales = sales
  stock = stock
  None = None
  Flat = Flat
  Datasets = {sales, stock}
  Versions = {1, 2}
  FactContents <- NoneChanges
  ContourContents = {1}
  Orphaned = {}
  Keyed = TRUE
  Postgres = TRUE
  Alone = {}
  Losses = {"zone"}
PROPERTY Regenerates
CHECK_DEADLOCK FALSE
