SPECIFICATION FairSpec
CONSTANTS
  q1 = q1
  q2 = q2
  q3 = q3
  q4 = q4
  raw = raw
  plain = plain
  Reqs <- MCTwoReqs
  Bytes <- MCOneBody
  Canonical <- MCPlain
  Configs <- MCConfigs
  Drafts <- MCDrafts
  Window = 0
  MaxBatch = 2
  MaxEvents = 3
  MaxNow = 1
  MaxTrouble = 1
  None = None
INVARIANTS
  RunOnce
  LogTruthful
  RetryNotRerun

  
CHECK_DEADLOCK FALSE
