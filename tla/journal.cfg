SPECIFICATION Spec
CONSTANTS
  Operations = {o1, o2, o3}
  Calls = {c1}
  Bindings = {b1}
  Requests = {r1, r2, r3}
  MaxRecords = 5
  MaxSequence = 3
  MaxControlBytes = 7
  MaxRequestBytes = 2
  MaxRecordBytes = 3
  MaxTotal = 10
  RecordBytes <- Sizes
  None = None
  Processes = {p1, p2}
  Kinds = {"file_replace", "owner_control"}
  Methods = {"status", "steer"}
SYMMETRY Interchangeable
INVARIANTS TypeOK WriteAhead NoReplay OrphansAreReconciled SerialHistory SettlementFits
PROPERTIES ImplementsLedger
