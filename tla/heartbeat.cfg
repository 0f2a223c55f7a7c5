SPECIFICATION Spec
CONSTANTS
  o1 = o1
  o2 = o2
  o3 = o3
  first = first
  second = second
  altered = altered
  third = third
  Operations = {o1, o2, o3}
  Actions = {first, second, altered, third}
  Plan <- MCPlan
  Granted <- MCGranted
  Budget <- MCBudget
  NoProgressLimit = 2
  Dispatchers = {d1, d2}
  MaxRecords = 8
  None = None
SYMMETRY Interchangeable
INVARIANTS SpentWithinBudget RunsUnderReservation ResultsAreEvidence StoppedStays
CONSTRAINT CompeteEarly
