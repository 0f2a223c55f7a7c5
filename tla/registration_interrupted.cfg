SPECIFICATION Spec
CONSTANTS
  Releases = {a, b}
  Writers = {w1}
  Workers = {}
  Custom = Custom
  None = None
INVARIANTS InterruptedIsRecoverable
