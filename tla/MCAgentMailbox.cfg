\* One agent, two hosts, two messages, up to three activations.
CONSTANTS
    None = None
    w1 = w1
    w2 = w2
    Workers = {w1, w2}
    Pools = {"agents"}
    Recipients = {"agent:a"}
    Keys = {}
    Runs = {"r1"}
    Versions = {}
    U32Max = 2
    FloorBase = 2
    FloorCap = 2
    Learned = {}
    TaskIds = {1, 2}
    Notices = {}
    Submissions <- MCMessages
    LeaseMs = {1}
    PoolLimits <- MCNoLimits
    Agents = {"a"}
    MailboxOf <- MCMailboxOf
    MaxGrants = 3
SYMMETRY Symmetry
SPECIFICATION AgentSpec
INVARIANT StolenGrantRejected
PROPERTIES ActivationExclusive TurnsFenced
