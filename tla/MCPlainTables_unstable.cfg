\* A Parquet is replaced while a run reads it.
SPECIFICATION Spec
CONSTANTS
  t1 = t1
  t2 = t2
  r1 = r1
  r2 = r2
  r3 = r3
  a1 = a1
  a2 = a2
  b1 = b1
  b2 = b2
  None = None
  Versions = {a1, a2, b1, b2}
  Content <- ContentOfReleases
  Tables = {t1}
  Releases = {r1, r2, r3}
  Workers = {w1, w2}
  ExclusiveRuns = FALSE
  StableFiles = FALSE
  Replays = TRUE
SYMMETRY WorkersAlike
INVARIANTS StagedVouches
