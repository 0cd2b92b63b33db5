\* Regenerates on DuckDB: a component lost out of band.
SPECIFICATION Spec
CONSTANTS
  dim = dim
  fact = fact
  summary = summary
  detail = detail
  None = None
  Flat = Flat
  Components = {dim, fact}
  Datasets = {summary, detail}
  Uses <- SharedComponent
  Versions = {1, 2}
  Contents <- DimChanges
  ByName = TRUE
  Materialized = {summary}
PROPERTY Regenerates
CHECK_DEADLOCK FALSE
