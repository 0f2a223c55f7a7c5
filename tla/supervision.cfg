SPECIFICATION Spec
CONSTANTS
  MaxRequests = 2
  None = None
INVARIANTS TypeOK NoLateSignal OutcomeIsTrue
PROPERTIES StopsTheGroup
