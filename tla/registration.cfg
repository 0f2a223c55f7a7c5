SPECIFICATION Spec
CONSTANTS
  Releases = {a, b, c}
  Writers = {w1, w2}
  Workers = {u1}
  Custom = Custom
  None = None
SYMMETRY Interchangeable
INVARIANTS SelectionStands RegistrationIsWhole
PROPERTIES EditsArePreserved PreviousIsKept
