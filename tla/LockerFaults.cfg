SPECIFICATION Spec
CONSTANTS
  a = a
  b = b
  P = P
  Q = Q
  None = None
  Callers = {a, b}
  Lockers = {P, Q}
  LockerOf <- ApartLockerOf
  OwnerOf <- ApartOwnerOf
  TTL <- ShortTTL
  Grace <- NoGrace
  Offset <- EqualClocks
  Serials = {1, 2, 3, 4, 5, 6}
  Calls = {"TryAcquire", "Renew", "Release"}
  MaxDelay = 0
  MaxTime = 1
  MaxVersion = 2
  MaxRevision = 3
  MaxFaults = 2
INVARIANTS TypeOK HandlesWereGranted HandlesWereStored ReleaseInv
PROPERTIES FencingSequence ReleaseTakesEffect
SYMMETRY Places
CHECK_DEADLOCK FALSE
