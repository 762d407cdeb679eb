SPECIFICATION Spec
CONSTANTS
  g = g
  h = h
  T = T
  x = x
  y = y
  v1 = v1
  v2 = v2
  Goroutines = {g, h}
  Txs = {T}
  Keys = {x, y}
  ETags = {v1, v2}
  Settings <- PublishingOrSharing
  MaxFaults = 1
  None = None
  Unset = Unset
  Star = Star
  Unknown = Unknown
INVARIANTS TypeOK AllOrNothing NilMeansApplied
PROPERTIES PutsReplaceWhatWasSeen ClosedIsFinal
SYMMETRY Values
CHECK_DEADLOCK FALSE
