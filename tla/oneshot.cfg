SPECIFICATION FairSpec
CONSTANTS
  Clients = {c1, c2}
  Workers = {w1, w2}
  MaxCalls = 2
  Health = Health
  Nothing = Nothing
  Error = Error
INVARIANT ProcessesAreWaitedFor
PROPERTIES ImplementsRequestService EveryoneIsAnswered
\* The system may stop: every call made, the runtime gone.
CHECK_DEADLOCK FALSE
