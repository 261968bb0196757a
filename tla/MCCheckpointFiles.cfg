SPECIFICATION Spec
CONSTANTS
  main = main
  fork = fork
  c1 = c1
  c2 = c2
  c3 = c3
  Threads <- MCThreads
  Channels <- MCThreeChannels
  MaxChain = 1
  MaxPuts = 3
  MaxRuns = 3
  MaxFaults = 1
  MaxRollbacks = 1
  None = None
SYMMETRY MCSymmetry
INVARIANTS
  ChainBounded
  ReadBack
  LatestDurable
  PinStable
CHECK_DEADLOCK FALSE
