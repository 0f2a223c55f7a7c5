SPECIFICATION FairSpec
CONSTANTS
  Attachments = {"socket", "descriptor"}
  Methods = {"status", "cancel", "approve"}
  Binding = b1
  MaxConnections = 2
  MaxChallenges = 2
  Operations = {o1, o2}
  Calls = {}
  Bindings = {b1}
  Requests = {r1, r2}
  MaxRecords = 6
  MaxSequence = 2
  MaxControlBytes = 9
  MaxRequestBytes = 1
  MaxRecordBytes = 1
  MaxTotal = 6
  RecordBytes <- Sizes
  None = None
CHECK_DEADLOCK FALSE
INVARIANTS OwnApprovalOnly
PROPERTIES StopEnds
