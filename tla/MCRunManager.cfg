SPECIFICATION Spec
CONSTANTS
  Runs <- MCRuns3
  Threads <- OneThread
  thread_id <- MCOneThread
  run_id <- MCIds
  QueueCap = 2
  MaxRetained = 9
  MaxRestarts = 1
  MaxFaults = 1
  MaxCancels = 1
  None = None
INVARIANTS
  ThreadExclusive
  QueueSound
  QueuedDurable
  NoStraggler
PROPERTIES
  NeverReexecuted
  
CHECK_DEADLOCK FALSE
