SPECIFICATION Spec
CONSTANTS
  d1 = d1
  d2 = d2
  N = 2
  Contracts <- MCContracts
  Drives <- MCDrives
  MaxFaults = 1
  None = None
SYMMETRY MCSymmetry
INVARIANTS
  SendsBacked
  WindowRespected
  OutcomeJustified
CHECK_DEADLOCK FALSE
