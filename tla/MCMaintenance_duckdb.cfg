\* Republishable on DuckDB.
SPECIFICATION Spec
CONSTANTS
  dim = dim
  fact = fact
  summary = summary
  detail = detail
  None = None
  Flat = Flat
  Components = {dim, fact}
  Datasets = {summary, detail}
  Uses <- SharedComponent
  Versions = {1, 2}
  ByName = TRUE
  Materialized = {}
  Legacy = {summary, detail}
  PlainMarkers = {}
  Selections <- Everything
  Contents <- DimChanges
INVARIANT Republishable
