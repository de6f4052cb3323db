SPECIFICATION FairSpec
CONSTANTS
  Sources = {A, B}
  Jobs = {j1, j2}
  Background = background
  MaxCommands = 4
  MaxRecoveries = 1
  MaxFailures = 1
  NoData = NoData
  NoManifest = NoManifest
  NoAnswer = NoAnswer
  Failed = Failed
  Nobody = Nobody
  Default = Default
INVARIANTS SummaryTellsTheData ActiveIsReal ModelsNameTheirData
PROPERTIES LineageGrows LoadingEnds
\* The commands of the model run out.
CHECK_DEADLOCK FALSE
