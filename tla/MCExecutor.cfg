SPECIFICATION Spec
CONSTANTS
  Nodes <- MCNodes
  Entry <- MCEntry
  Routes <- MCRoutes
  Gotos <- MCGotos
  MaxQueue = 1
  MaxPending = 2
  MaxSteps = 2
  MaxSegments = 2
  MaxMessages = 2
  MaxCancels = 1
  MaxFaults = 1
  None = None
INVARIANTS
  
  WithinBounds
PROPERTIES
  StepsWhole
  CheckpointComplete
CHECK_DEADLOCK FALSE
