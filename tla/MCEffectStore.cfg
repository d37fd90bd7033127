CONSTANTS
    Effects = {e1}
    Workers <- MCWorkers
    Lease = 1
    EffectDeadline = 2
    MaxTime = 3
    MaxAttempts = 3
SPECIFICATION StoreSpec
INVARIANTS
    ClaimBookkeeping
    NoAttemptAfterSent
