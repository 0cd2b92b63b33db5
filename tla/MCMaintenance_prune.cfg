\* PruneKeepsPublished alone: names that were plain tables.
SPECIFICATION Spec
CONSTANTS
  dim = dim
  fact = fact
  summary = summary
  detail = detail
  None = None
  Flat = Flat
  Components = {dim, fact}
  Datasets = {summary, detail}
  Uses <- SharedComponent
  Versions = {1, 2}
  ByName = FALSE
  Materialized = {}
  Legacy = {summary, detail}
  PlainMarkers = {summary, detail}
  Selections <- Everything
  Contents <- DimChanges
PROPERTY PruneKeepsPublished
