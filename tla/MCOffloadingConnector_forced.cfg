CONSTANTS
    k1 = k1
    k2 = k2
    k3 = k3
    b1 = b1
    b2 = b2
    r1 = r1
    r2 = r2
    r3 = r3
    w1 = w1
    w2 = w2
    Key = {k1, k2, k3}
    num_blocks = 2
    Block = {b1, b2}
    Request = {r1, r2, r3}
    KeysOf <- MCKeysOf
    Agent = {r1}
    Abortable = {r1, r2, r3}
    Worker = {w1}
    BatchQueueSize = 1
    MaxJobs = 3
    MaxResets = 1
    ResetRunning = {TRUE}
    ResetConnector = {FALSE}
SPECIFICATION Spec
SYMMETRY BlockSymmetry
INVARIANTS
    CPUDataValid
CHECK_DEADLOCK FALSE
