SPECIFICATION Spec
CONSTANTS
  p = p
  q = q
  k = k
  l = l
  d = d
  Clients = {p, q}
  Keys = {k, l}
  Inside = {k, l}
  Folder = d
  ETags = {1, 2}
  Requests <- AllRequests
  MaxFaults = 1
  Directory = Directory
  None = None
  Unset = Unset
  Star = Star
INVARIANTS FileInv NothingLeftBehind FolderHoldsItsFiles
PROPERTIES Linearizable
