\* Two messages in up to two threads, edits in the postbox, one crash.
SPECIFICATION Spec
CONSTANTS
    Threads = {ta, tb}
    Events = {m1, m2}
    Senders = {m1, m2}
    Kinds = {"message", "edit"}
    Cap = 1
    MaxAdditional = 1
    MaxTurns = 3
    MaxRevision = 2
    MaxCrashes = 1
SYMMETRY Symmetry
PROPERTIES
    
    CorrectionStopsDispatch
    AnswerIsCurrent
CHECK_DEADLOCK FALSE
