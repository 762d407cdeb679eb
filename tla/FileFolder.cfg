SPECIFICATION Spec
CONSTANTS
  p = p
  q = q
  k = k
  l = l
  d = d
  Clients = {p, q}
  Keys = {k, d}
  Inside = {k}
  Folder = d
  ETags = {1}
  Requests <- PlainRequests
  MaxFaults = 0
  Directory = Directory
  None = None
  Unset = Unset
  Star = Star
PROPERTIES SerializedByLocks
