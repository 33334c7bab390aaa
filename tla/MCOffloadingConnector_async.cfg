CONSTANTS
    k1 = k1
    k2 = k2
    k3 = k3
    b1 = b1
    b2 = b2
    r1 = r1
    r2 = r2
    r3 = r3
    w1 = w1
    w2 = w2
    Key = {k1, k2, k3}
    num_blocks = 1
    Block = {b1, b2}
    Request = {r1, r2, r3}
    KeysOf <- ShortKeysOf
    Agent = {r1, r3}
    Abortable = {r2}
    Worker = {w1}
    BatchQueueSize = 2
    MaxJobs = 3
    MaxResets = 1
    ResetRunning = {FALSE}
    ResetConnector = {TRUE, FALSE}
SPECIFICATION Spec
SYMMETRY BlockSymmetry
INVARIANTS
    CPUDataValid
PROPERTIES
    ForwardSeesPrefix
CHECK_DEADLOCK FALSE
