SPECIFICATION Spec
CONSTANTS
  Workers = {v, w}
  Sweepers = {s, r}
  Txs = {T, U}
  None = None
INVARIANTS TypeOK ListsTheOpen
CHECK_DEADLOCK FALSE
