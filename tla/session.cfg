SPECIFICATION Spec
CONSTANTS
  Runs = {r1, r2, r3}
  CallIds = {c1, c2}
  Calls <- CallPairs
  Contents = {x, y, z}
  FirstContent = x
  Operations = {o1, o2}
  Bindings = {}
  Requests = {}
  MaxRecords = 5
  MaxSequence = 0
  MaxControlBytes = 0
  MaxRequestBytes = 0
  MaxRecordBytes = 1
  MaxTotal = 6
  RecordBytes <- Sizes
  None = None
SYMMETRY Interchangeable
INVARIANTS AtMostOnce CompleteHistoryIsExact UnreconciledSuccessHappened NoChangePassesUnseen
PROPERTIES EffectOnlyUnderItsIntent
