CONSTANTS
    Effects = {e1}
    Tasks = {t1}
    Workers <- MCWorkers
    Backoff <- MCBackoff
    Channel = "whatsapp"
    Parts = 2
    Lease = 1
    EffectDeadline = 2
    MaxTime = 5
    MaxAttempts = 2
    MaxProbes = 2
    ReconcileDeadline = 3
    ProbeLease = 1
    MaxCrashes = 1
SPECIFICATION Spec
INVARIANT
    NotRunIsTrue
