SPECIFICATION Spec
CONSTANTS
  a = a
  b = b
  P = P
  Q = Q
  None = None
  Unset = Unset
  Star = Star
  Callers = {a, b}
  Wrappers = {P, Q}
  Uses <- ApartOrShared
  Backends = {"memory", "s3"}
  Operations = {"Set", "Load", "FetchMetadata", "Save", "Delete", "CreateOrUpdate", "Update", "UpdateAndSave", "AtomicUpdate"}
  Retries = 1
  MaxCalls = 2
  MaxFaults = 1
INVARIANTS TypeOK CleanMeansSaved
PROPERTIES KeepsOthersUpdates AppliesOnce
SYMMETRY Places
