CONSTANTS
    k1 = k1
    k2 = k2
    k3 = k3
    b1 = b1
    b2 = b2
    r1 = r1
    r2 = r2
    r3 = r3
    w1 = w1
    w2 = w2
    Key = {k1, k2, k3}
    num_blocks = 2
    Block = {b1, b2}
    Request = {r1, r2, r3}
    KeysOf <- TwinKeysOf
    Agent = {}
    Abortable = {}
    Worker = {w1}
    BatchQueueSize = 2
    MaxJobs = 4
    MaxResets = 0
    ResetRunning = {FALSE}
    ResetConnector = {TRUE}
SPECIFICATION Spec
SYMMETRY BlockSymmetry
INVARIANTS
    LoadsIssuedAlone
CHECK_DEADLOCK FALSE
