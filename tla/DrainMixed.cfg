\* One worker, one entity with a text and a VL model and one request slot for
\* both: hydration, the order of dispatch, staleness of what was read.
SPECIFICATION FairDrainSpec
CONSTANTS
    Entity = {e1}
    Model = {text, vl}
    VLModel = {vl}
    Worker = {w1}
    Stamp = {s1, s2, s3}
    None = None
    MaxAttempts = 2
    BatchSize = 2
    ChunkSize = 2
    MaxConcurrent = 1
    MaxEdits = 2
    LeaseOutlivesWork = TRUE
INVARIANTS
    DrainTypeOK
    VectorFresh
    BatchAccounted
PROPERTY
    VectorsConverge
