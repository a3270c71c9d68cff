\* One loop, two entities there from the start or not, edited or deleted during the
\* backfill; pages and ticks of one; any statement may fail for a while.
SPECIFICATION FairBackfillSpec
CONSTANTS
    Entity = {1, 2}
    BlankKey = {}
    Model = {text}
    VLModel = {}
    Worker = {w1}
    Stamp = {s1, s2}
    None = None
    Lexical = Lexical
    MaxAttempts = 1
    BatchSize = 2
    ChunkSize = 2
    MaxConcurrent = 1
    MaxEdits = 2
    DirtyBatchSize = 2
    BackfillPageSize = 1
    BackfillMaxPages = 1
    LeaseOutlivesWork = TRUE
INVARIANTS
    BackfillTypeOK
    BackfillCaughtUp
    BackfillCovers
PROPERTY
    BackfillFinishes
