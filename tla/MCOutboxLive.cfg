CONSTANTS
    Effects = {e1}
    Tasks = {t1}
    Workers <- MCWorkers
    Backoff <- MCBackoff
    Channel = "whatsapp"
    Parts = 2
    Lease = 1
    EffectDeadline = 2
    MaxTime = 4
    MaxAttempts = 2
    MaxProbes = 2
    ReconcileDeadline = 2
    ProbeLease = 1
    MaxCrashes = 2
SPECIFICATION FairSpec
PROPERTIES
    ExecutingEnds
    UnknownEnds
    StoredReceiptCounts
