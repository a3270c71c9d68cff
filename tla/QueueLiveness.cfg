\* Two workers, two keys competing for batches of one; no lease expires mid-batch.
SPECIFICATION FairSpec
CONSTANTS
    Entity = {e1}
    Model = {m1, m2}
    Worker = {w1, w2}
    Stamp = {s1, s2, s3, s4}
    None = None
    MaxAttempts = 2
    BatchSize = 1
    LeaseOutlivesWork = TRUE
PROPERTIES
    TaskResolved
    LeaseSafe
INVARIANT IInv
