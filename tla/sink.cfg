\* Four documents, versions of two, one worker or two, channels of one, requests
\* of two, two documents that may be answered 429, one fault.
SPECIFICATION FairSpec
CONSTANTS
    NDocs = 4
    Ids = {"odd", "even"}
    Id <- Alternating
    Pools = {{w1}, {w1, w2}}
    InCap = 1
    RetryCap = 1
    BulkSize = 2
    MaxBusy = 2
    MaxFaults = 1
    Nil = Nil
INVARIANTS
    TypeOK
    NoneLost
PROPERTIES
    OldVersionsOvertaken
    OnlyFullChannelsBlock
CHECK_DEADLOCK FALSE
