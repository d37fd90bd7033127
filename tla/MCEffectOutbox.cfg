CONSTANTS
    Effects = {e1}
    Tasks = {t1, t2}
    Workers <- MCWorkers
    Backoff <- MCBackoff
    Channel = "whatsapp"
    Parts = 1
    Lease = 1
    EffectDeadline = 2
    MaxTime = 5
    MaxAttempts = 2
    MaxProbes = 2
    ReconcileDeadline = 3
    ProbeLease = 1
    MaxCrashes = 1
SPECIFICATION Spec
SYMMETRY MCSymmetry
INVARIANTS
    AtMostOnce
    SentIsTrue
    NotRunIsTrue
    ReplySentIsTrue
    ParticipationNeedsReceipt
PROPERTIES
    ImplementsContract
    UsesStore
