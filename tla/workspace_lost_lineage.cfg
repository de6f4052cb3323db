SPECIFICATION Spec
CONSTANTS
  Sources = {A}
  Jobs = {j1, j2}
  Background = background
  MaxCommands = 4
  MaxRecoveries = 0
  MaxFailures = 0
  NoData = NoData
  NoManifest = NoManifest
  NoAnswer = NoAnswer
  Failed = Failed
  Nobody = Nobody
  Default = Default
CHECK_DEADLOCK FALSE
PROPERTY SavesKeepLineage
