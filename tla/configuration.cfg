SPECIFICATION Spec
CONSTANTS
  controller = controller
  participant = participant
  plain = plain
  operator = operator
  x = x
  y = y
  None = None
  Plain = {plain}
  Participants = {participant}
  Controller = controller
  Operator = operator
  Owners = {x, y}
  Writers <- MCWriters
  Contents <- MCContents
  OwnersOf <- MCOwnersOf
  MaxEdits = 2
  MaxTransactions = 2
  MaxRevisions = 2
  MaxFaults = 2
CHECK_DEADLOCK FALSE
INVARIANTS EditsSurvive SuccessIsUnanimous IntentLeadsHead
PROPERTIES ImplementsRegister
