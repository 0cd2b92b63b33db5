SPECIFICATION CalmSpec
CONSTANTS
  t1 = t1
  t2 = t2
  r1 = r1
  r2 = r2
  r3 = r3
  a1 = a1
  a2 = a2
  b1 = b1
  b2 = b2
  None = None
  Versions = {a1, a2, b1, b2}
  Content <- ContentOfReleases
  Tables = {t1, t2}
  Releases = {r1, r2, r3}
  Workers = {w1}
  ExclusiveRuns = TRUE
  StableFiles = TRUE
  Replays = FALSE
PROPERTIES Converges
