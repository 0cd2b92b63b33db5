\* Two datasets over one contour table, facts lost out of band.
SPECIFICATION Spec
CONSTANTS
  sales = sales
  stock = stock
  None = None
  Flat = Flat
  Datasets = {sales, stock}
  Versions = {1, 2}
  FactContents <- OneChanges
  ContourContents = {1, 2}
  Orphaned <- NewNeedsNew
  Keyed = TRUE
  Postgres = TRUE
  Alone = {stock}
  Losses = {"facts"}
INVARIANTS TypeOK MarkersVouch JoinsWhole NoRowsLost ReferencesChecked
PROPERTIES RegeneratesUnlessHeld
CHECK_DEADLOCK FALSE
