\* The listed instance: safety, and liveness of cancellation and deadlines; no symmetry.
CONSTANTS
    None = None
    w1 = w1
    w2 = w2
    Workers = {w1, w2}
    Pools = {"io"}
    Recipients = {}
    Keys = {"k1", "esc"}
    Runs = {"r1"}
    Versions = {}
    U32Max = 3
    FloorBase = 1
    FloorCap = 1
    Learned = {}
    TaskIds = {1, 2}
    LeaseMs = {1}
    PoolLimits <- MCNoLimits
    Notices <- MCNotices
    Submissions <- MCLiveSubmissions
SPECIFICATION FairSpec
INVARIANTS TypeOK Coherent 
    
