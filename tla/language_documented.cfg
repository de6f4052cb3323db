SPECIFICATION Spec
CONSTANTS
  MaxWords = 3
  MaxOptions = 4
INVARIANT DocumentedCommandsAreFit
