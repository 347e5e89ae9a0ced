\* One job of the ticker, sent twice at most, with a deletion
\* task and one failure anywhere.
SPECIFICATION FairSpec
CONSTANTS
    NJobs = 1
    MaxTries = 1
    Pages = {p1}
    Azure = TRUE
    MaxRequests = 0
    MaxCancels = 0
    Outcomes = {"SUCCEEDED", "DENIED"}
    MaxFaults = 1
    Nil = Nil
INVARIANTS
    SuccessIsDescribed
PROPERTIES
    JobsSettle
CHECK_DEADLOCK FALSE
