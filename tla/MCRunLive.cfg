SPECIFICATION LiveSpec
CONSTANTS
  Runs <- MCRuns3
  Threads <- TwoThreads
  thread_id <- MCTwoThreads
  run_id <- MCIds
  QueueCap = 2
  MaxRetained = 1
  MaxRestarts = 1
  MaxFaults = 1
  MaxCancels = 0
  None = None
PROPERTIES
  RetentionSound
  
CHECK_DEADLOCK FALSE
