SPECIFICATION Spec
CONSTANTS
  main = main
  fork = fork
  c1 = c1
  c2 = c2
  c3 = c3
  Threads <- MCThreads
  Channels <- MCThreeChannels
  MaxChain = 1
  MaxPuts = 3
  MaxRuns = 2
  MaxFaults = 0
  MaxRollbacks = 0
  None = None
SYMMETRY MCSymmetry
INVARIANTS
  OverlayRestores
CHECK_DEADLOCK FALSE
