\* One process that changes to another model and back.
SPECIFICATION RegistrySpec
CONSTANTS
    Entity = {1}
    BlankKey = {}
    Model = {m1, m2}
    VLModel = {}
    Worker = {w1}
    Stamp = {s1, s2}
    None = None
    Lexical = Lexical
    MaxAttempts = 1
    BatchSize = 1
    ChunkSize = 1
    MaxConcurrent = 1
    MaxEdits = 2
    DirtyBatchSize = 2
    BackfillPageSize = 1
    BackfillMaxPages = 1
    Config = {{m1}, {m2}}
    MaxRestarts = 2
    LeaseOutlivesWork = TRUE
SYMMETRY Symmetry
INVARIANT LeftoverVectorsHarmless
