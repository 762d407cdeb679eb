SPECIFICATION Spec
CONSTANTS
  g = g
  h = h
  T = T
  x = x
  y = y
  v1 = v1
  v2 = v2
  Goroutines = {g, h}
  Txs = {T}
  Keys = {x, y}
  ETags = {v1, v2}
  Settings <- OnlyUnprepared
  MaxFaults = 0
  None = None
  Unset = Unset
  Star = Star
  Unknown = Unknown
INVARIANTS NilMeansApplied
SYMMETRY Values
CHECK_DEADLOCK FALSE
