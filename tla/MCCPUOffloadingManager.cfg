CONSTANTS
    k1 = k1
    k2 = k2
    k3 = k3
    k4 = k4
    Key <- MCKey
    num_blocks = 2
    Config <- MCConfig
    max_tracker_size = 2
    MaxRefs = 1
SPECIFICATION Spec
SYMMETRY KeySymmetry
INVARIANTS
    TypeOK
    SlotsPartitioned
    RefCountsOutstanding
    ArcListsSound
PROPERTIES
    InUseStaysPut
    EvictsOldest
    StoredInputsStay
    
    ImplementsOffloadStore
