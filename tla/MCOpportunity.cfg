\* Two chats compete for one pending record and two workers.
SPECIFICATION FairSpec
CONSTANTS
    busy = busy
    other = other
    Chats = {busy, other}
    Workers = {w1, w2}
    MaxPending = 1
    MaxRefs = 2
    MaxSources <- MCSources
    MaxEpoch = 2
    MaxDirect <- MCDirect
    MaxCrashes = 1
INVARIANTS
    OneHandlerPerChat
    NeverHandedTwice
    ClaimsCoverWork
PROPERTIES
    AcceptedIsEvaluated
CHECK_DEADLOCK FALSE
