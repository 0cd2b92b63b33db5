\* Republishable alone: a rollback of a publish that created a dataset.
SPECIFICATION Spec
CONSTANTS
  dim = dim
  fact = fact
  summary = summary
  detail = detail
  None = None
  Flat = Flat
  Components = {dim, fact}
  Datasets = {summary, detail}
  Uses <- SharedComponent
  Versions = {1, 2}
  ByName = FALSE
  Materialized = {}
  Legacy = {}
  PlainMarkers = {}
  Selections <- Everything
  Contents <- DimChanges
INVARIANT Republishable
