\* One sync loop, one entity: the host marks it again during a pass.
SPECIFICATION SyncSpec
CONSTANTS
    Entity = {e1}
    BlankKey = {}
    Model = {text}
    VLModel = {}
    Worker = {w1}
    Stamp = {s1, s2, s3}
    None = None
    MaxAttempts = 2
    BatchSize = 2
    ChunkSize = 2
    MaxConcurrent = 2
    MaxEdits = 3
    DirtyBatchSize = 2
    LeaseOutlivesWork = TRUE
PROPERTY OnlyProcessedCleared
