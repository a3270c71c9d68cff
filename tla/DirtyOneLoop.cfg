\* One sync loop; two entities and two whose key is blank, a batch of two: one blank row
\* may stand in front of either or both, and two hide them.  Any statement may fail.
SPECIFICATION FairSyncSpec
CONSTANTS
    Entity = {e1, e2, e3, e4}
    BlankKey = {e3, e4}
    Model = {vl}
    VLModel = {vl}
    Worker = {w1}
    Stamp = {s1, s2, s3}
    None = None
    MaxAttempts = 1
    BatchSize = 2
    ChunkSize = 2
    MaxConcurrent = 1
    MaxEdits = 3
    DirtyBatchSize = 2
    LeaseOutlivesWork = TRUE
INVARIANTS
    SyncTypeOK
    IndexCaughtUp
PROPERTY DirtyDrains
