SPECIFICATION Spec
CONSTANTS
  MaxMessages = 3
  MaxTime = 1
  Earlier = 1
INVARIANTS InOnePlace Chronological SelectionFollows ChartsAreShown
