\* Progress of a task: no symmetry, turns and revisions never run out.
SPECIFICATION FairSpec
CONSTANTS
    Threads = {ta}
    Events = {m1, m2}
    Senders = {}
    Kinds = {"message"}
    Cap = 1
    MaxAdditional = 1
    MaxTurns = 4
    MaxRevision = 2
    MaxCrashes = 1
PROPERTY
    TaskEnds
CHECK_DEADLOCK FALSE
