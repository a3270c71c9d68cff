\* One process, two models, one entity; a restart anywhere, with any of the models.
SPECIFICATION RegistrySpec
CONSTANTS
    Entity = {1}
    BlankKey = {}
    Model = {m1, m2}
    VLModel = {}
    Worker = {w1}
    Stamp = {s1, s2}
    None = None
    Lexical = Lexical
    MaxAttempts = 1
    BatchSize = 2
    ChunkSize = 2
    MaxConcurrent = 1
    MaxEdits = 2
    DirtyBatchSize = 2
    BackfillPageSize = 1
    BackfillMaxPages = 1
    Config = {{}, {m1}, {m2}, {m1, m2}}
    MaxRestarts = 1
    LeaseOutlivesWork = TRUE
SYMMETRY Symmetry
INVARIANTS
    RegistryTypeOK
    KeptCaughtUp
    RegistryRepresentsConfig
