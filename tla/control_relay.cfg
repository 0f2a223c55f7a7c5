SPECIFICATION Spec
CONSTANTS
  Attachments = {"socket"}
  Methods = {"cancel", "steer"}
  Binding = b1
  MaxConnections = 2
  MaxChallenges = 0
  Operations = {o1, o2, o3}
  Calls = {}
  Bindings = {b1}
  Requests = {r1, r2, r3}
  MaxRecords = 6
  MaxSequence = 3
  MaxControlBytes = 9
  MaxRequestBytes = 1
  MaxRecordBytes = 1
  MaxTotal = 6
  RecordBytes <- Sizes
  None = None
CHECK_DEADLOCK FALSE
SYMMETRY Interchangeable
INVARIANTS EffectsInOrder AnswersAreTrue SteeringArrivesOnce
PROPERTIES NoDispatchAfterRevocation
