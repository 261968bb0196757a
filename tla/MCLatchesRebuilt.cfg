SPECIFICATION Spec
CONSTANTS
  d1 = d1
  d2 = d2
  N = 2
  Contracts <- MCFanOut
  Drives <- MCDrives
  MaxFaults = 1
  None = None
SYMMETRY MCSymmetry
INVARIANT
  LatchesRebuilt
CHECK_DEADLOCK FALSE
