SPECIFICATION FairSpec
CONSTANTS
  Callers = {a, b}
  Limit = 3
  MaxFaults = 1
  MaxCrashes = 1
  Panics = {a}
  Unseen = Unseen
  None = None
INVARIANTS TypeOK  ReleaseRunsAlone
PROPERTIES LossCancels PollingEnds
