\* Two workers, one key, leases that may expire mid-batch.
SPECIFICATION Spec
CONSTANTS
    Entity = {e1}
    Model = {m1}
    Worker = {w1, w2}
    Stamp = {s1, s2, s3, s4}
    None = None
    MaxAttempts = 2
    BatchSize = 2
    LeaseOutlivesWork = FALSE
PROPERTY DeadLetterMoves
