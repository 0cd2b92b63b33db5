\* Two datasets, one component shared, relations lost and workflows killed, PostgreSQL.
SPECIFICATION Spec
CONSTANTS
  dim = dim
  fact = fact
  summary = summary
  detail = detail
  None = None
  Flat = Flat
  Components = {dim, fact}
  Datasets = {summary, detail}
  Uses <- SharedComponent
  Versions = {1, 2}
  Contents <- DimChanges
  ByName = FALSE
  Materialized = {summary}
INVARIANTS WorkflowTypeOK ComponentsVouched DatasetsVouched ViewsFollow ReplayAccepted
PROPERTIES ImplementsPublication Regenerates Stabilises
CHECK_DEADLOCK FALSE
