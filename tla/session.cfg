SPECIFICATION Spec
CONSTANTS
  Clients = {c1, c2}
  MaxCalls = 2
  QueueCap = 1
  PipeCap = 2
  MaxRestarts = 2
  MaxNoise = 1
SYMMETRY CallersAlike
INVARIANTS TypeOK IInv AnswersOwnCommand NeverReplayed OneDaemon NoCallForgotten
PROPERTIES NoAnswerDiscarded BudgetSpentForGood
\* The system may stop: every call made, the runtime gone.
CHECK_DEADLOCK FALSE
