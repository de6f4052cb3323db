SPECIFICATION Spec
CONSTANTS
  Workers = {w1, w2}
  Operations = {"filter"}
  short = short
  long = long
  Manifests = {short}
  ManifestSize <- Sizes
  NoManifest = NoManifest
  MaxTasks = 2
  MaxClock = 1
  MaxCrashes = 1
  SpacedReruns = TRUE
SYMMETRY WorkersAlike
INVARIANTS RecordTellsTheTable OnlyWholeTablesAreUsed RerunReproduces
PROPERTY RecordsAreKept
\* The clock, the tasks and the crashes of the model run out.
CHECK_DEADLOCK FALSE
