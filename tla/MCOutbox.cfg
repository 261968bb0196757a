\* Submission: four rows, two faults at any step.
CONSTANTS
    None = None
    Rows = {1, 2, 3, 4}
    KeyOf <- MCKeyOf
    CheckpointRows = {3, 4}
    BatchLimit = 2
    MaxQueued = 6
    MaxInFlight = 3
    MaxFaults = 2
CHECK_DEADLOCK FALSE
SPECIFICATION FairSpec
INVARIANTS NothingLost CheckpointHasRows KeyedOnce
PROPERTY AcceptedExecuted
