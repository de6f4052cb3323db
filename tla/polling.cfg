SPECIFICATION FairSpec
CONSTANTS
  Polls = {p1, p2}
  Timers = {1, 2, 3}
  MaxOutages = 1
  MaxStops = 1
INVARIANTS OneInterval IntervalFollowsReadiness
PROPERTIES RecoversOnReturn SettlesOnTruth
