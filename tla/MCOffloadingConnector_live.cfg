CONSTANTS
    k1 = k1
    k2 = k2
    k3 = k3
    b1 = b1
    b2 = b2
    r1 = r1
    r2 = r2
    r3 = r3
    w1 = w1
    w2 = w2
    Key = {k1, k2, k3}
    num_blocks = 2
    Block = {b1}
    Request = {r1, r2, r3}
    KeysOf <- ShortKeysOf
    Agent = {r1}
    Abortable = {r2}
    Worker = {w1, w2}
    BatchQueueSize = 1
    MaxJobs = 3
    MaxResets = 0
    ResetRunning = {FALSE}
    ResetConnector = {TRUE}
SPECIFICATION FairSpec
INVARIANTS
    CPUDataValid
PROPERTIES
    JobsEnd
    LoadsEnd
CHECK_DEADLOCK FALSE
