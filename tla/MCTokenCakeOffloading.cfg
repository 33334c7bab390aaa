CONSTANTS
    k1 = k1
    k2 = k2
    id1 = id1
    id2 = id2
    r1 = r1
    e1 = e1
    Key <- MCKey
    num_blocks = 1
    LifecycleId <- MCLifecycleId
    RequestId = {r1}
    StartEvent = {e1}
    Duration = {3}
    Lead = {2}
    release_lead_s = 0
    enabled = TRUE
    AttachSeconds = 1
    TombstoneSeconds = 1
    MinSafety = 1
    MaxSafety = 2
    MaxClock = 2
    MaxLoads = 1
SPECIFICATION OffloadingSpec
SYMMETRY MCSymmetry
INVARIANTS
    RegistryTypeOK
    RetentionsCounted
    OnlyOwnersRetain
    StoreSafe
    PendingIsWritten
PROPERTIES
    PreservationHandedOn
