SPECIFICATION FairSpec
CONSTANTS
  Workers = {v, w}
  Sweepers = {s}
  Txs = {T, U}
  None = None
PROPERTIES CleanupEnds
CHECK_DEADLOCK FALSE
