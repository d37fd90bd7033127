\* The hard budget, the soft limit and the waiting cap; one crash.
SPECIFICATION Spec
CONSTANTS
    small1 = small1
    small2 = small2
    album = album
    home = home
    Effects = {small1, small2, album}
    Chats = {home}
    Chat <- MCChat
    Units <- MCUnits
    Runs = {r1, r2, r3}
    Limit = 2
    Window = 2
    SoftLimit = 2
    SoftWindow = 2
    SoftEnforce = FALSE
    WaitingCap = 1
    MaxTime = 3
    MaxCrashes = 1
SYMMETRY Symmetry
INVARIANTS
    NoWindowOverspent
    NextReadyHasRoom
    DeferUntilIsEarliest
PROPERTIES
    ClaimIsPaid
CHECK_DEADLOCK FALSE
