SPECIFICATION Spec
CONSTANTS
  a = a
  b = b
  P = P
  Q = Q
  None = None
  Unset = Unset
  Star = Star
  Callers = {a, b}
  Wrappers = {P, Q}
  Uses <- ApartOrShared
  Backends = {"memory"}
  Operations = {"Load", "UpdateAndSave", "CreateOrUpdate"}
  Retries = 1
  MaxCalls = 2
  MaxFaults = 0
PROPERTIES StaleSavesConflict
SYMMETRY Places
