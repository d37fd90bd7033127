SPECIFICATION FairSpec
CONSTANTS
    asked = asked
    free = free
    Proposals = {asked, free}
    Approval = {asked}
    Jobs = {1, 2}
    Categories = {"comment", "initiation"}
    Dims <- MCDims
    Limit <- MCLimit
    Rolling = {"comment"}
    Window = 2
    Day = 2
    Lease = 2
    OpportunityTTL = 1
    ApprovalTTL = 2
    Batch = 2
    MaxTime = 2
    MaxCrashes = 1
INVARIANTS
    WindowKept
    ChargedWasSent
    OwnerDecides
PROPERTIES
    NeverRefunded
    ConfirmedIsCharged
CHECK_DEADLOCK FALSE
