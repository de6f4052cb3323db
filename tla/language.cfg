SPECIFICATION Spec
CONSTANTS
  MaxWords = 3
  MaxOptions = 4
INVARIANTS OptionsArrive OnlyFamilyParams RuntimeAgrees HintIsRight
