CONSTANTS
    k1 = k1
    id1 = id1
    r1 = r1
    r2 = r2
    e1 = e1
    e2 = e2
    Key <- MCKey
    num_blocks = 1
    LifecycleId = {id1}
    RequestId <- MCRequestId
    StartEvent <- MCStartEvent
    Duration = {1, 4}
    Lead = {2}
    release_lead_s = 0
    enabled = TRUE
    AttachSeconds = 1
    TombstoneSeconds = 1
    MinSafety = 2
    MaxSafety = 3
    MaxClock = 4
    MaxLoads = 1
SPECIFICATION Spec
SYMMETRY OneSymmetry
INVARIANTS
    OwnershipWithinDeadlines
    GenerationsAreLive
    ReplyTruthful
PROPERTIES
    TombstoneIsFinal
