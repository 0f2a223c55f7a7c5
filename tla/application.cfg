SPECIFICATION ApplicationSpec
CONSTANTS
  t1 = t1
  t2 = t2
  p = p
  q = q
  Absent = Absent
  Torn = Torn
  Targets = {t1, t2}
  Packages = {p, q}
  Versions = {1, 2}
  MaxOperations = 4
  MaxFaults = 2
CHECK_DEADLOCK FALSE
INVARIANTS Repairable FailureIsReported ReceiptsAgree
