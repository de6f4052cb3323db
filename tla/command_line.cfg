SPECIFICATION Spec
CONSTANTS
  Letters = {"r", "x"}
  CommandList <- MCVerbs
  Grammar <- MCGrammar
  Categorical <- MCCategorical
  AllColumns <- MCColumns
  Commands <- MCCommands
  MinCorrected = 1
  MaxLetters = 2
  MaxMarks = 2
  MaxHistory = 1
  MaxRunning = 1
INVARIANT CorrectionIsShown
PROPERTIES NoMenuForOldText AcceptedIsRecognized
