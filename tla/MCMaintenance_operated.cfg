\* Publish, roll back, clean up, reconcile and prune over two datasets.
SPECIFICATION Spec
CONSTANTS
  dim = dim
  fact = fact
  summary = summary
  detail = detail
  None = None
  Flat = Flat
  Components = {dim, fact}
  Datasets = {summary, detail}
  Uses <- SharedComponent
  Versions = {1, 2}
  ByName = FALSE
  Materialized = {}
  Legacy = {summary, detail}
  PlainMarkers = {summary}
  Selections <- TablesOrEverything
  Contents <- DimChanges
INVARIANTS MaintenanceTypeOK ComponentsVouched DatasetsVouched RepublishableWhileMarkersAgree
PROPERTIES KeptNotLost RollbackRestores PruneKeepsDatasets
