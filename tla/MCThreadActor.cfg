\* Three messages in one thread.
SPECIFICATION Spec
CONSTANTS
    Threads = {ta}
    Events = {m1, m2, m3}
    Senders = {}
    Kinds = {"message"}
    Cap = 1
    MaxAdditional = 1
    MaxTurns = 2
    MaxRevision = 2
    MaxCrashes = 0
SYMMETRY Symmetry
INVARIANTS
    OneGenerationPerThread
    PostboxWithinCap
PROPERTY
    DrainedIsKept
CHECK_DEADLOCK FALSE
