\* Two loops drain the queue of one key and leases may expire under them: the
\* queue's own guarantees, and whose vector is stored last.
SPECIFICATION DrainSpec
CONSTANTS
    Entity = {e1}
    Model = {vl}
    VLModel = {vl}
    Worker = {w1, w2}
    Stamp = {s1, s2, s3, s4}
    None = None
    MaxAttempts = 2
    BatchSize = 1
    ChunkSize = 1
    MaxConcurrent = 1
    MaxEdits = 2
    LeaseOutlivesWork = FALSE
SYMMETRY Symmetry
INVARIANTS
    TypeOK
    OneValidLease
    LeaseSnapshotCurrent
    CapIsExact
PROPERTIES
    ImplementsLifecycle
    StoresCurrent
