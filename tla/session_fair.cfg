SPECIFICATION FairSpec
CONSTANTS
  Clients = {c1, c2}
  MaxCalls = 1
  QueueCap = 1
  PipeCap = 2
  MaxRestarts = 1
  MaxNoise = 1
PROPERTIES EveryCallAnswered DaemonGoesWithRuntime ImplementsRequestService
\* The system may stop: every call made, the runtime gone.
CHECK_DEADLOCK FALSE
