SPECIFICATION Spec
CONSTANTS
  a = a
  b = b
  P = P
  Q = Q
  None = None
  Callers = {a, b}
  Lockers = {P, Q}
  LockerOf <- ApartLockerOf
  OwnerOf <- ApartOwnerOf
  TTL <- MixedTTL
  Grace <- UnitGrace
  Offset <- SkewedClocks
  Serials = {1, 2, 3, 4, 5, 6}
  Calls = {"TryAcquire", "Renew", "Release", "IsHeld"}
  MaxDelay = 1
  MaxTime = 5
  MaxVersion = 2
  MaxRevision = 3
  MaxFaults = 0
INVARIANTS IInv ExclusionInv MutualExclusion 
PROPERTIES TakeoverWaits KeepsPromise
CHECK_DEADLOCK FALSE
